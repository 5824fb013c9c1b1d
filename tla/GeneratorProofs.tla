--------------------------- MODULE GeneratorProofs ---------------------------
(***************************************************************************)
(* The synthetic day, for every configuration, number of locates and       *)
(* length: the generator's ledgers never drift apart, a finished day is    *)
(* complete, quotes cross only where it is meant, and a replay of the day  *)
(* shows what the truth sidecar says.                                      *)
(***************************************************************************)
EXTENDS SynthReplay, DataProofs

-----------------------------------------------------------------------------
(* The truth book.  It is sound if in each FIFO, empty where the map has   *)
(* no level, are the orders the id map names there, each once.             *)

Lots == OrdersOf(Nat, Nat \ {0})

LotSeq == Seq(Lots)

\* What the id map knows of an order.
At(side, px) == [side |-> side, px |-> px]

Level(b, s, p) == IF p \in DOMAIN b.sides[s] THEN b.sides[s][p] ELSE <<>>

Named(b, s, p) == {id \in DOMAIN b.orders : b.orders[id] = At(s, p)}

\* A FIFO of these orders, each once.
Lists(f, ids) ==
  /\ f \in LotSeq
  /\ \A i, j \in 1 .. Len(f) : f[i].id = f[j].id => i = j
  /\ \A i \in 1 .. Len(f) : f[i].id \in ids
  /\ \A id \in ids : \E i \in 1 .. Len(f) : f[i].id = id

\* The maps are finite maps, and no level outlives its last order.
Shaped(b) ==
  /\ DOMAIN b = {"sides", "orders"} /\ DOMAIN b.sides = Sides
  /\ \A s \in Sides :
       /\ DOMAIN b.sides[s] \in SUBSET Nat
       /\ IsFiniteSet(DOMAIN b.sides[s])
       /\ \A p \in DOMAIN b.sides[s] : b.sides[s][p] # <<>>

Sound(b) ==
  /\ Shaped(b)
  /\ DOMAIN b.orders \in SUBSET Nat
  /\ \A id \in DOMAIN b.orders : b.orders[id] \in [side : Sides, px : Nat]
  /\ \A s \in Sides, p \in Nat : Lists(Level(b, s, p), Named(b, s, p))

LEMMA LotSeqFacts ==
  ASSUME NEW f \in LotSeq
  PROVE  /\ f \in Seq(OrdersOf(Nat, Nat \ {0})) /\ Nat \ {0} \in SUBSET Nat
         /\ Len(f) \in Nat
         /\ DOMAIN f = 1 .. Len(f)
         /\ \A i \in 1 .. Len(f) : f[i] \in Lots /\ f[i].id \in Nat /\ f[i].qty \in Nat \ {0}
         /\ LevelQty(f) \in Nat
         /\ f # <<>> <=> Len(f) # 0
<1> DEFINE Q == Nat \ {0}
<1>1. Q \in SUBSET Nat /\ f \in Seq(OrdersOf(Nat, Q)) /\ Lots = OrdersOf(Nat, Q)
  BY DEF LotSeq, Lots
<1>2. f # <<>> <=> Len(f) # 0
  BY <1>1, EmptySeq
<1> HIDE DEF Q
<1>3. /\ Len(f) \in Nat
      /\ DOMAIN f = 1 .. Len(f)
      /\ \A i \in 1 .. Len(f) : f[i] \in Lots /\ f[i].id \in Nat /\ f[i].qty \in Q
      /\ LevelQty(f) \in Nat
  BY <1>1, FifoQuantified, LevelQtyIsNat
<1> QED BY <1>1, <1>2, <1>3 DEF Q

\* The scan of a FIFO finds each of its orders.
LEMMA PlaceFound ==
  ASSUME NEW f, NEW ids, Lists(f, ids), NEW id \in ids
  PROVE  LET at == PosOf(f, id)
         IN  /\ at \in 1 .. Len(f) /\ at # 0
             /\ f[at].id = id /\ f[at].qty \in Nat \ {0}
             /\ \A i \in 1 .. Len(f) : f[i].id = id => i = at
<1> DEFINE Q == Nat \ {0}
<1>1. f \in LotSeq /\ Q \in SUBSET Nat /\ f \in Seq(OrdersOf(Nat, Q))
  BY DEF Lists, LotSeq, Lots
<1> HIDE DEF Q
<1>2. \E i \in 1 .. Len(f) : f[i].id = id
  BY DEF Lists
<1>3. PosOf(f, id) # 0 /\ PosOf(f, id) \in 1 .. Len(f) /\ f[PosOf(f, id)].id = id
  BY <1>1, <1>2, PosOfFirst
<1>4. f[PosOf(f, id)].qty \in Nat \ {0}
  BY <1>1, <1>3, LotSeqFacts
<1> QED BY <1>3, <1>4 DEF Lists

LEMMA PlaceIs ==
  ASSUME NEW f, NEW ids, Lists(f, ids), NEW i \in 1 .. Len(f)
  PROVE  f[i].id \in ids /\ PosOf(f, f[i].id) = i
BY PlaceFound DEF Lists

-----------------------------------------------------------------------------
(* What a change of a FIFO does to the orders it lists                     *)

LEMMA AppendedLists ==
  ASSUME NEW f, NEW ids, Lists(f, ids), NEW id \in Nat, id \notin ids, NEW qty \in Nat \ {0}
  PROVE  LET h == Append(f, Order(id, qty))
         IN  Lists(h, ids \cup {id}) /\ h # <<>> /\ LevelQty(h) = LevelQty(f) + qty
<1> DEFINE Q == Nat \ {0}
           o == Order(id, qty)
           h == Append(f, o)
<1>1. /\ f \in LotSeq /\ Q \in SUBSET Nat /\ LotSeq = Seq(OrdersOf(Nat, Q))
      /\ o \in OrdersOf(Nat, Q) /\ o.id = id /\ o.qty = qty
  BY DEF Lists, LotSeq, Lots, OrdersOf, Order
<1>2. Len(f) \in Nat
  BY <1>1, LotSeqFacts
<1> HIDE DEF Q, o
<1>3. /\ h \in LotSeq
      /\ Len(h) = Len(f) + 1
      /\ \A i \in 1 .. Len(f) : h[i] = f[i]
      /\ h[Len(f) + 1] = o
      /\ LevelQty(h) = LevelQty(f) + o.qty
  BY <1>1, AppendedFifo
<1> HIDE DEF h
<1>4. h # <<>>
  BY <1>2, <1>3, LotSeqFacts
<1>5. \A i \in 1 .. Len(h) : i \in 1 .. Len(f) \/ i = Len(f) + 1
  BY <1>2, <1>3
<1>6. ASSUME NEW i \in 1 .. Len(h), NEW j \in 1 .. Len(h), h[i].id = h[j].id
      PROVE  i = j
  BY <1>1, <1>3, <1>5, <1>6 DEF Lists
<1>7. \A i \in 1 .. Len(h) : h[i].id \in ids \cup {id}
  BY <1>1, <1>3, <1>5 DEF Lists
<1>8. ASSUME NEW x \in ids \cup {id}
      PROVE  \E i \in 1 .. Len(h) : h[i].id = x
  <2>1. CASE x = id
    <3>1. Len(f) + 1 \in 1 .. Len(h)
      BY <1>2, <1>3
    <3> QED BY <1>1, <1>3, <2>1, <3>1
  <2>2. CASE x \in ids
    <3>1. PICK i \in 1 .. Len(f) : f[i].id = x
      BY <2>2 DEF Lists
    <3>2. i \in 1 .. Len(h)
      BY <1>2, <1>3
    <3> QED BY <1>3, <3>1, <3>2
  <2> QED BY <2>1, <2>2
<1>9. Lists(h, ids \cup {id})
  BY <1>3, <1>6, <1>7, <1>8 DEF Lists
<1>10. LevelQty(h) = LevelQty(f) + qty
  BY <1>1, <1>3
<1> QED BY <1>4, <1>9, <1>10 DEF h, o

LEMMA RemovedLists ==
  ASSUME NEW f, NEW ids, Lists(f, ids), NEW id \in ids
  PROVE  LET h == RemoveAt(f, PosOf(f, id))
         IN  /\ Lists(h, ids \ {id})
             /\ LevelQty(h) = LevelQty(f) - f[PosOf(f, id)].qty
<1> DEFINE Q == Nat \ {0}
           at == PosOf(f, id)
           h == RemoveAt(f, at)
<1>1. f \in LotSeq /\ Q \in SUBSET Nat /\ LotSeq = Seq(OrdersOf(Nat, Q))
  BY DEF Lists, LotSeq, Lots
<1>2. Len(f) \in Nat
  BY <1>1, LotSeqFacts
<1>3. at \in 1 .. Len(f) /\ f[at].id = id
  BY PlaceFound
<1> HIDE DEF Q, at
<1>4. /\ h \in LotSeq
      /\ Len(h) = Len(f) - 1
      /\ \A i \in 1 .. Len(f) - 1 : h[i] = IF i < at THEN f[i] ELSE f[i + 1]
      /\ LevelQty(h) = LevelQty(f) - f[at].qty
  BY <1>1, <1>3, RemovedFifo
<1> HIDE DEF h
<1> DEFINE from(i) == IF i < at THEN i ELSE i + 1
<1>5. ASSUME NEW i \in 1 .. Len(h)
      PROVE  from(i) \in 1 .. Len(f) /\ from(i) # at /\ h[i] = f[from(i)]
  BY <1>2, <1>3, <1>4
<1>6. ASSUME NEW i \in 1 .. Len(h), NEW j \in 1 .. Len(h), h[i].id = h[j].id
      PROVE  i = j
  <2>1. from(i) = from(j)
    <3>1. f[from(i)].id = f[from(j)].id
      BY <1>5, <1>6
    <3>2. from(i) \in 1 .. Len(f) /\ from(j) \in 1 .. Len(f)
      BY <1>5
    <3> HIDE DEF from
    <3> QED BY <3>1, <3>2 DEF Lists
  <2> QED BY <1>3, <2>1
<1>7. ASSUME NEW i \in 1 .. Len(h)
      PROVE  h[i].id \in ids \ {id}
  <2>1. from(i) \in 1 .. Len(f) /\ from(i) # at /\ h[i] = f[from(i)]
    BY <1>5
  <2> HIDE DEF from
  <2> QED BY <1>3, <2>1 DEF Lists
<1>8. ASSUME NEW x \in ids \ {id}
      PROVE  \E i \in 1 .. Len(h) : h[i].id = x
  <2>1. PICK i \in 1 .. Len(f) : f[i].id = x
    BY DEF Lists
  <2>2. i # at
    BY <1>3, <2>1
  <2>3. CASE i < at
    <3>1. i \in 1 .. Len(f) - 1
      BY <1>2, <1>3, <2>3
    <3> QED BY <1>4, <2>1, <2>3, <3>1
  <2>4. CASE i > at
    <3>1. i - 1 \in 1 .. Len(f) - 1 /\ ~(i - 1 < at) /\ (i - 1) + 1 = i
      BY <1>2, <1>3, <2>4
    <3> QED BY <1>4, <2>1, <3>1
  <2> QED BY <1>3, <2>2, <2>3, <2>4
<1>9. Lists(h, ids \ {id})
  BY <1>4, <1>6, <1>7, <1>8 DEF Lists
<1> QED BY <1>4, <1>9 DEF h, at

LEMMA ReducedLists ==
  ASSUME NEW f, NEW ids, Lists(f, ids), NEW at \in 1 .. Len(f), NEW q \in Nat \ {0}
  PROVE  LET h == Reduced(f, at, q)
         IN  /\ Lists(h, ids)
             /\ h # <<>>
             /\ Len(h) = Len(f)
             /\ \A i \in 1 .. Len(f) : h[i].id = f[i].id
             /\ \A i \in 1 .. Len(f) : h[i].qty = IF i = at THEN q ELSE f[i].qty
             /\ LevelQty(h) = LevelQty(f) - f[at].qty + q
<1> DEFINE Q == Nat \ {0}
           h == Reduced(f, at, q)
<1>1. f \in LotSeq /\ Q \in SUBSET Nat /\ LotSeq = Seq(OrdersOf(Nat, Q)) /\ q \in Q
  BY DEF Lists, LotSeq, Lots
<1>2. Len(f) \in Nat
  BY <1>1, LotSeqFacts
<1> HIDE DEF Q
<1>3. /\ h \in LotSeq
      /\ Len(h) = Len(f)
      /\ \A i \in 1 .. Len(f) : i # at => h[i] = f[i]
      /\ h[at] = Order(f[at].id, q)
      /\ LevelQty(h) = LevelQty(f) - f[at].qty + q
  BY <1>1, ReducedFifo
<1> HIDE DEF h
<1>4. /\ \A i \in 1 .. Len(f) : h[i].id = f[i].id
      /\ \A i \in 1 .. Len(f) : h[i].qty = IF i = at THEN q ELSE f[i].qty
  BY <1>3 DEF Order
<1>5. h # <<>>
  BY <1>2, <1>3, LotSeqFacts
<1>6. Lists(h, ids)
  BY <1>3, <1>4 DEF Lists
<1> QED BY <1>3, <1>4, <1>5, <1>6 DEF h

-----------------------------------------------------------------------------
(* The calls on a truth book.  Each changes the FIFO of one side and price *)
(* and the entry of one order.                                             *)

\* The price map of a side after a change of the FIFO at px: an empty level goes.
Changed(m, px, h) == IF h = <<>> THEN Without(m, px) ELSE With(m, px, h)

\* c is b with h in place of the FIFO at px.
LevelChanged(b, c, side, px, h) ==
  /\ DOMAIN c = {"sides", "orders"} /\ DOMAIN c.sides = Sides
  /\ \A s \in Sides :
       c.sides[s] = IF s = side THEN Changed(b.sides[s], px, h) ELSE b.sides[s]

LEMMA ChangedLevels ==
  ASSUME NEW b, NEW c, NEW side \in Sides, NEW px, NEW h, LevelChanged(b, c, side, px, h),
         NEW s \in Sides, NEW p
  PROVE  Level(c, s, p) = IF s = side /\ p = px THEN h ELSE Level(b, s, p)
<1>1. c.sides[s] = IF s = side THEN Changed(b.sides[s], px, h) ELSE b.sides[s]
  BY DEF LevelChanged
<1>2. CASE s # side
  BY <1>1, <1>2 DEF Level
<1>3. CASE s = side
  <2> DEFINE m == b.sides[s]
  <2>1. c.sides[s] = Changed(m, px, h)
    BY <1>1, <1>3
  <2>2. Level(b, s, p) = IF p \in DOMAIN m THEN m[p] ELSE <<>>
    BY DEF Level
  <2> HIDE DEF m
  <2>3. CASE h = <<>>
    <3>1. c.sides[s] = Without(m, px)
      BY <2>1, <2>3 DEF Changed
    <3>2. /\ p \in DOMAIN c.sides[s] <=> p \in DOMAIN m /\ p # px
          /\ p \in DOMAIN c.sides[s] => c.sides[s][p] = m[p]
      BY <3>1 DEF Without
    <3> QED BY <1>3, <2>2, <2>3, <3>2 DEF Level
  <2>4. CASE h # <<>>
    <3>1. c.sides[s] = With(m, px, h)
      BY <2>1, <2>4 DEF Changed
    <3>2. /\ p \in DOMAIN c.sides[s] <=> p \in DOMAIN m \/ p = px
          /\ p \in DOMAIN c.sides[s] => c.sides[s][p] = IF p = px THEN h ELSE m[p]
      BY <3>1 DEF With
    <3> QED BY <1>3, <2>2, <3>2 DEF Level
  <2> QED BY <2>3, <2>4
<1> QED BY <1>2, <1>3

LEMMA ChangedIsSound ==
  ASSUME NEW b, Sound(b), NEW c, NEW side \in Sides, NEW px \in Nat, NEW h,
         LevelChanged(b, c, side, px, h),
         DOMAIN c.orders \in SUBSET Nat,
         \A id \in DOMAIN c.orders : c.orders[id] \in [side : Sides, px : Nat],
         Lists(h, Named(c, side, px)),
         \A s \in Sides, p \in Nat : ~(s = side /\ p = px) => Named(c, s, p) = Named(b, s, p)
  PROVE  Sound(c)
<1>1. Shaped(c)
  <2> SUFFICES ASSUME NEW s \in Sides
               PROVE  /\ DOMAIN c.sides[s] \in SUBSET Nat
                      /\ IsFiniteSet(DOMAIN c.sides[s])
                      /\ \A p \in DOMAIN c.sides[s] : c.sides[s][p] # <<>>
    BY DEF Shaped, LevelChanged
  <2> DEFINE m == b.sides[s]
  <2>1. /\ DOMAIN m \in SUBSET Nat /\ IsFiniteSet(DOMAIN m)
        /\ \A p \in DOMAIN m : m[p] # <<>>
    BY DEF Sound, Shaped
  <2>2. c.sides[s] = m \/ c.sides[s] = Changed(m, px, h)
    BY DEF LevelChanged
  <2> HIDE DEF m
  <2>3. CASE c.sides[s] = m
    BY <2>1, <2>3
  <2>4. CASE c.sides[s] = Without(m, px)
    <3>1. /\ DOMAIN c.sides[s] = DOMAIN m \ {px}
          /\ \A p \in DOMAIN c.sides[s] : c.sides[s][p] = m[p]
      BY <2>4 DEF Without
    <3>2. IsFiniteSet(DOMAIN m \ {px})
      BY <2>1, FS_RemoveElement
    <3> QED BY <2>1, <3>1, <3>2
  <2>5. CASE c.sides[s] = With(m, px, h) /\ h # <<>>
    <3>1. /\ DOMAIN c.sides[s] = DOMAIN m \cup {px}
          /\ \A p \in DOMAIN c.sides[s] : c.sides[s][p] = IF p = px THEN h ELSE m[p]
      BY <2>5 DEF With
    <3>2. IsFiniteSet(DOMAIN m \cup {px})
      BY <2>1, FS_AddElement
    <3> QED BY <2>1, <2>5, <3>1, <3>2
  <2> QED BY <2>2, <2>3, <2>4, <2>5 DEF Changed
<1>2. ASSUME NEW s \in Sides, NEW p \in Nat
      PROVE  Lists(Level(c, s, p), Named(c, s, p))
  <2>1. Level(c, s, p) = IF s = side /\ p = px THEN h ELSE Level(b, s, p)
    BY ChangedLevels
  <2>2. Lists(Level(b, s, p), Named(b, s, p))
    BY DEF Sound
  <2> QED BY <2>1, <2>2
<1> QED BY <1>1, <1>2 DEF Sound

\* A live order is found where the id map says.
LEMMA Resting ==
  ASSUME NEW b, Sound(b), NEW id \in DOMAIN b.orders
  PROVE  LET at == b.orders[id]
             f == FifoOf(b, id)
             i == PosOf(f, id)
         IN  /\ id \in Nat
             /\ at.side \in Sides /\ at.px \in Nat /\ at = At(at.side, at.px)
             /\ at.px \in DOMAIN b.sides[at.side]
             /\ f = Level(b, at.side, at.px) /\ f = b.sides[at.side][at.px]
             /\ id \in Named(b, at.side, at.px)
             /\ Lists(f, Named(b, at.side, at.px))
             /\ i \in 1 .. Len(f) /\ i # 0 /\ f[i].id = id
             /\ \A j \in 1 .. Len(f) : f[j].id = id => j = i
             /\ Qty(b, id) = f[i].qty /\ Qty(b, id) \in Nat \ {0}
<1> DEFINE at == b.orders[id]
           g == Level(b, at.side, at.px)
           i == PosOf(g, id)
           ids == Named(b, at.side, at.px)
<1>1. /\ id \in Nat
      /\ at.side \in Sides /\ at.px \in Nat /\ at = At(at.side, at.px)
  BY DEF Sound, At
<1>2. id \in ids
  BY <1>1 DEF Named
<1>3. Lists(g, ids)
  BY <1>1 DEF Sound
<1> HIDE DEF at, g, ids, i
<1>4. /\ i \in 1 .. Len(g) /\ i # 0 /\ g[i].id = id
      /\ \A j \in 1 .. Len(g) : g[j].id = id => j = i
      /\ g[i].qty \in Nat \ {0}
  BY <1>2, <1>3, PlaceFound DEF i
<1>5. g # <<>>
  <2>1. g \in LotSeq
    BY <1>3 DEF Lists
  <2> QED BY <1>4, <2>1, LotSeqFacts
<1>6. at.px \in DOMAIN b.sides[at.side] /\ g = b.sides[at.side][at.px]
  BY <1>5 DEF g, Level
<1>7. FifoOf(b, id) = g
  BY <1>6 DEF FifoOf, at
<1>8. Qty(b, id) = g[i].qty
  BY <1>7 DEF Qty, i
<1> QED BY <1>1, <1>2, <1>3, <1>4, <1>6, <1>7, <1>8 DEF at, g, ids, i

\* add: behind the others of its level.
LEMMA AddedIsSound ==
  ASSUME NEW b, Sound(b), NEW id \in Nat, id \notin DOMAIN b.orders,
         NEW side \in Sides, NEW px \in Nat, NEW qty \in Nat \ {0}
  PROVE  LET c == AddTail(b, id, side, px, qty)
             h == Append(Level(b, side, px), Order(id, qty))
         IN  /\ Sound(c)
             /\ LevelChanged(b, c, side, px, h)
             /\ h # <<>>
             /\ c.orders = With(b.orders, id, At(side, px))
             /\ DOMAIN c.orders = DOMAIN b.orders \cup {id}
             /\ LevelQty(h) = LevelQty(Level(b, side, px)) + qty
<1> DEFINE c == AddTail(b, id, side, px, qty)
           h == Append(Level(b, side, px), Order(id, qty))
<1>1. /\ Lists(Level(b, side, px), Named(b, side, px))
      /\ id \notin Named(b, side, px)
  BY DEF Sound, Named
<1>2. /\ Lists(h, Named(b, side, px) \cup {id}) /\ h # <<>>
      /\ LevelQty(h) = LevelQty(Level(b, side, px)) + qty
  BY <1>1, AppendedLists
<1>3. c = [b EXCEPT !.orders = With(@, id, At(side, px)),
                    !.sides[side] = With(@, px, h)]
  BY DEF AddTail, Level, At
<1>4. DOMAIN b = {"sides", "orders"} /\ DOMAIN b.sides = Sides
  BY DEF Sound, Shaped
<1> HIDE DEF c, h
<1>5. /\ DOMAIN c = {"sides", "orders"} /\ DOMAIN c.sides = Sides
      /\ c.orders = With(b.orders, id, At(side, px))
      /\ \A s \in Sides :
           c.sides[s] = IF s = side THEN With(b.sides[s], px, h) ELSE b.sides[s]
  BY <1>3, <1>4
<1>6. LevelChanged(b, c, side, px, h)
  BY <1>2, <1>5 DEF LevelChanged, Changed
<1>7. /\ DOMAIN c.orders = DOMAIN b.orders \cup {id}
      /\ c.orders[id] = At(side, px)
      /\ \A x \in DOMAIN b.orders : c.orders[x] = b.orders[x]
  BY <1>5 DEF With
<1>8. /\ DOMAIN c.orders \in SUBSET Nat
      /\ \A x \in DOMAIN c.orders : c.orders[x] \in [side : Sides, px : Nat]
  BY <1>7 DEF Sound, At
<1>9. Named(c, side, px) = Named(b, side, px) \cup {id}
  BY <1>7 DEF Named
<1>10. ASSUME NEW s \in Sides, NEW p \in Nat, ~(s = side /\ p = px)
       PROVE  Named(c, s, p) = Named(b, s, p)
  <2>1. At(s, p) # At(side, px)
    BY <1>10 DEF At
  <2> QED BY <1>7, <2>1 DEF Named
<1>11. Lists(h, Named(c, side, px))
  BY <1>2, <1>9
<1>12. Sound(c)
  BY <1>6, <1>8, <1>10, <1>11, ChangedIsSound
<1> QED BY <1>2, <1>5, <1>6, <1>7, <1>12 DEF c, h

\* delete: out of its level, which goes with its last order.
LEMMA DeletedIsSound ==
  ASSUME NEW b, Sound(b), NEW id \in DOMAIN b.orders
  PROVE  LET c == DeleteLive(b, id)
             at == b.orders[id]
             f == FifoOf(b, id)
             h == RemoveAt(f, PosOf(f, id))
         IN  /\ Sound(c)
             /\ LevelChanged(b, c, at.side, at.px, h)
             /\ c.orders = Without(b.orders, id)
             /\ DOMAIN c.orders = DOMAIN b.orders \ {id}
             /\ LevelQty(h) = LevelQty(f) - Qty(b, id)
<1> DEFINE c == DeleteLive(b, id)
           at == b.orders[id]
           f == FifoOf(b, id)
           h == RemoveAt(f, PosOf(f, id))
           ids == Named(b, at.side, at.px)
<1>1. /\ at.side \in Sides /\ at.px \in Nat /\ at = At(at.side, at.px)
      /\ id \in ids /\ Lists(f, ids)
      /\ Qty(b, id) = f[PosOf(f, id)].qty
  BY Resting
<1>2. c = [b EXCEPT !.orders = Without(@, id), !.sides[at.side] = Changed(@, at.px, h)]
  BY DEF DeleteLive, Changed
<1>3. DOMAIN b = {"sides", "orders"} /\ DOMAIN b.sides = Sides
  BY DEF Sound, Shaped
<1> HIDE DEF c, h, f, at, ids
<1>4. Lists(h, ids \ {id}) /\ LevelQty(h) = LevelQty(f) - Qty(b, id)
  BY <1>1, RemovedLists DEF h
<1>5. LevelChanged(b, c, at.side, at.px, h) /\ c.orders = Without(b.orders, id)
  BY <1>1, <1>2, <1>3 DEF LevelChanged
<1>6. /\ DOMAIN c.orders = DOMAIN b.orders \ {id}
      /\ \A x \in DOMAIN c.orders : c.orders[x] = b.orders[x]
  BY <1>5 DEF Without
<1>7. /\ DOMAIN c.orders \in SUBSET Nat
      /\ \A x \in DOMAIN c.orders : c.orders[x] \in [side : Sides, px : Nat]
  BY <1>6 DEF Sound
<1>8. Named(c, at.side, at.px) = ids \ {id}
  BY <1>6 DEF Named, ids
<1>9. ASSUME NEW s \in Sides, NEW p \in Nat, ~(s = at.side /\ p = at.px)
      PROVE  Named(c, s, p) = Named(b, s, p)
  <2>1. At(s, p) # b.orders[id]
    BY <1>9 DEF At, at
  <2> QED BY <1>6, <2>1 DEF Named
<1>10. Lists(h, Named(c, at.side, at.px))
  BY <1>4, <1>8
<1>11. at.side \in Sides /\ at.px \in Nat
  BY <1>1
<1>12. Sound(c)
  BY <1>5, <1>7, <1>9, <1>10, <1>11, ChangedIsSound
<1> QED BY <1>4, <1>5, <1>6, <1>12 DEF c, h, f, at

\* reduce, by less than it has: it keeps its place.
LEMMA ReducedIsSound ==
  ASSUME NEW b, Sound(b), NEW id \in DOMAIN b.orders, NEW q \in 1 .. Qty(b, id) - 1
  PROVE  LET c == ReduceLive(b, id, q)
             at == b.orders[id]
             f == FifoOf(b, id)
             h == Reduced(f, PosOf(f, id), Qty(b, id) - q)
         IN  /\ Sound(c)
             /\ LevelChanged(b, c, at.side, at.px, h)
             /\ c.orders = b.orders
             /\ LevelQty(h) = LevelQty(f) - q
             /\ c = [b EXCEPT !.sides[at.side][at.px][PosOf(f, id)].qty = Qty(b, id) - q]
<1> DEFINE c == ReduceLive(b, id, q)
           at == b.orders[id]
           f == FifoOf(b, id)
           i == PosOf(f, id)
           left == Qty(b, id) - q
           h == Reduced(f, i, left)
           ids == Named(b, at.side, at.px)
<1>1. /\ at.side \in Sides /\ at.px \in Nat /\ at = At(at.side, at.px)
      /\ id \in ids /\ Lists(f, ids) /\ i \in 1 .. Len(f)
      /\ f = b.sides[at.side][at.px] /\ at.px \in DOMAIN b.sides[at.side]
      /\ Qty(b, id) = f[i].qty /\ Qty(b, id) \in Nat \ {0}
  BY Resting
<1>2. DOMAIN b = {"sides", "orders"} /\ DOMAIN b.sides = Sides
  BY DEF Sound, Shaped
<1>3. q # Qty(b, id) /\ left \in Nat \ {0} /\ q \in Int
  <2>1. Qty(b, id) \in Nat
    BY <1>1
  <2> QED BY <2>1
<1>4. c = [b EXCEPT !.sides[at.side][at.px][i].qty = @ - q]
  BY <1>3 DEF ReduceLive
<1> HIDE DEF c, h, f, at, ids, i
<1>5. f \in LotSeq /\ DOMAIN f = 1 .. Len(f)
  BY <1>1, LotSeqFacts DEF Lists
<1>6. /\ DOMAIN f[i] = {"id", "qty"} /\ f[i].qty - q = left
  <2>1. f[i] \in Lots
    BY <1>1, <1>5, LotSeqFacts
  <2> QED BY <1>1, <2>1 DEF Lots, OrdersOf
<1>7. b.sides[at.side][at.px][i].qty - q = left
  BY <1>1, <1>6
<1>8. c = [b EXCEPT !.sides[at.side][at.px][i].qty = left]
  BY <1>4, <1>7
<1> HIDE DEF left
<1>9. /\ Lists(h, ids) /\ h # <<>> /\ LevelQty(h) = LevelQty(f) - f[i].qty + left
  BY <1>1, <1>3, ReducedLists DEF h
<1>10. /\ DOMAIN c = {"sides", "orders"}
       /\ c.sides = [b.sides EXCEPT ![at.side][at.px][i].qty = left]
       /\ c.orders = b.orders
  BY <1>2, <1>8
<1>11. /\ DOMAIN c.sides = Sides
       /\ \A s \in Sides : s # at.side => c.sides[s] = b.sides[s]
       /\ c.sides[at.side] = [b.sides[at.side] EXCEPT ![at.px][i].qty = left]
  BY <1>1, <1>2, <1>10
<1>12. c.sides[at.side] = Changed(b.sides[at.side], at.px, h)
  <2>1. c.sides[at.side] = [b.sides[at.side] EXCEPT ![at.px] = h]
    BY <1>1, <1>11 DEF h, Reduced
  <2>2. [b.sides[at.side] EXCEPT ![at.px] = h] = With(b.sides[at.side], at.px, h)
    BY <1>1 DEF With
  <2> QED BY <1>9, <2>1, <2>2 DEF Changed
<1>13. LevelChanged(b, c, at.side, at.px, h)
  BY <1>1, <1>10, <1>11, <1>12 DEF LevelChanged
<1>14. \A s, p : Named(c, s, p) = Named(b, s, p)
  BY <1>10 DEF Named
<1>15. /\ DOMAIN c.orders \in SUBSET Nat
       /\ \A x \in DOMAIN c.orders : c.orders[x] \in [side : Sides, px : Nat]
  BY <1>10 DEF Sound
<1>16. Lists(h, Named(c, at.side, at.px))
  BY <1>9, <1>14 DEF ids
<1>17. Sound(c)
  BY <1>1, <1>13, <1>14, <1>15, <1>16, ChangedIsSound
<1>18. LevelQty(h) = LevelQty(f) - q
  <2>1. LevelQty(f) \in Nat
    BY <1>5, LotSeqFacts
  <2>2. LevelQty(h) = LevelQty(f) - f[i].qty + left /\ f[i].qty = Qty(b, id)
    BY <1>1, <1>9
  <2>3. Qty(b, id) \in Nat /\ q \in Int
    BY <1>1, <1>3
  <2> QED BY <2>1, <2>2, <2>3 DEF left
<1> QED BY <1>8, <1>10, <1>13, <1>17, <1>18 DEF c, h, f, at, i, left

-----------------------------------------------------------------------------
(* The list of live orders and the index into it                           *)

Listed(live, idx, ids) ==
  /\ live \in Seq(Nat)
  /\ DOMAIN idx = ids
  /\ \A i \in 1 .. Len(live) : live[i] \in ids /\ idx[live[i]] = i
  /\ \A id \in ids : idx[id] \in 1 .. Len(live) /\ live[idx[id]] = id

LEMMA ListedMore ==
  ASSUME NEW live, NEW idx, NEW ids, Listed(live, idx, ids), NEW id \in Nat, id \notin ids
  PROVE  Listed(Append(live, id), With(idx, id, Len(live) + 1), ids \cup {id})
<1> DEFINE more == Append(live, id)
           at == With(idx, id, Len(live) + 1)
<1>1. live \in Seq(Nat) /\ Len(live) \in Nat
  BY LenProperties DEF Listed
<1>2. /\ more \in Seq(Nat)
      /\ Len(more) = Len(live) + 1
      /\ \A i \in 1 .. Len(live) : more[i] = live[i]
      /\ more[Len(live) + 1] = id
  BY <1>1, AppendProperties
<1>3. /\ DOMAIN at = ids \cup {id}
      /\ at[id] = Len(live) + 1
      /\ \A x \in ids : at[x] = idx[x]
  BY DEF With, Listed
<1> HIDE DEF more, at
<1>4. \A i \in 1 .. Len(more) : i \in 1 .. Len(live) \/ i = Len(live) + 1
  BY <1>1, <1>2
<1>5. ASSUME NEW i \in 1 .. Len(more)
      PROVE  more[i] \in ids \cup {id} /\ at[more[i]] = i
  <2>1. CASE i \in 1 .. Len(live)
    <3>1. more[i] = live[i] /\ live[i] \in ids /\ idx[live[i]] = i
      BY <1>2, <2>1 DEF Listed
    <3> QED BY <1>3, <3>1
  <2>2. CASE i = Len(live) + 1
    BY <1>2, <1>3, <2>2
  <2> QED BY <1>4, <2>1, <2>2
<1>6. ASSUME NEW x \in ids \cup {id}
      PROVE  at[x] \in 1 .. Len(more) /\ more[at[x]] = x
  <2>1. CASE x = id
    <3>1. Len(live) + 1 \in 1 .. Len(more)
      BY <1>1, <1>2
    <3> QED BY <1>2, <1>3, <2>1, <3>1
  <2>2. CASE x # id
    <3>1. /\ x \in ids /\ at[x] = idx[x] /\ idx[x] \in 1 .. Len(live)
          /\ live[idx[x]] = x
      BY <1>3, <2>2 DEF Listed
    <3>2. idx[x] \in 1 .. Len(more)
      BY <1>1, <1>2, <3>1
    <3> QED BY <1>2, <3>1, <3>2
  <2> QED BY <2>1, <2>2
<1> QED BY <1>2, <1>3, <1>5, <1>6 DEF Listed, more, at

\* The last order of the list fills the gap, and its index follows.
LEMMA ListedLess ==
  ASSUME NEW live, NEW idx, NEW ids, Listed(live, idx, ids), NEW id \in ids
  PROVE  LET i == idx[id]
             shorter == Front(live)
             moves == i <= Len(shorter)
         IN  Listed(IF moves THEN [shorter EXCEPT ![i] = Last(live)] ELSE shorter,
                    IF moves THEN With(Without(idx, id), Last(live), i) ELSE Without(idx, id),
                    ids \ {id})
<1> DEFINE n == Len(live)
           i == idx[id]
           shorter == Front(live)
           last == Last(live)
<1>1. live \in Seq(Nat) /\ n \in Nat /\ i \in 1 .. n /\ live[i] = id
  BY LenProperties DEF Listed
<1>2. /\ shorter \in Seq(Nat) /\ Len(shorter) = n - 1
      /\ \A j \in 1 .. n - 1 : shorter[j] = live[j]
  <2>1. 1 \in 1 .. n + 1 /\ n - 1 \in 0 .. n
    BY <1>1
  <2>2. shorter = SubSeq(live, 1, n - 1)
    BY DEF Front
  <2> HIDE DEF shorter, n
  <2>3. /\ shorter \in Seq(Nat)
        /\ Len(shorter) = IF 1 <= n - 1 THEN n - 1 - 1 + 1 ELSE 0
        /\ \A j \in 1 .. (n - 1) - 1 + 1 : shorter[j] = live[1 + j - 1]
    BY <1>1, <2>1, <2>2, SubSeqProperties DEF n
  <2>4. Len(shorter) = n - 1
    BY <1>1, <2>3
  <2>5. ASSUME NEW j \in 1 .. n - 1 PROVE shorter[j] = live[j]
    <3>1. j \in 1 .. (n - 1) - 1 + 1 /\ 1 + j - 1 = j
      BY <1>1
    <3>2. shorter[j] = live[1 + j - 1]
      BY <2>3, <3>1
    <3> QED BY <3>1, <3>2
  <2> QED BY <2>3, <2>4, <2>5
<1>3. last = live[n] /\ n \in 1 .. n /\ last \in ids /\ idx[last] = n
  BY <1>1 DEF Last, Listed
<1>4. DOMAIN shorter = 1 .. n - 1
  BY <1>2, LenProperties
<1> HIDE DEF shorter, n, i, last
<1>5. CASE i <= n - 1
  <2> DEFINE less == [shorter EXCEPT ![i] = last]
             at == With(Without(idx, id), last, i)
  <2>1. last # id
    BY <1>1, <1>3, <1>5 DEF i
  <2>2. last \in Nat
    BY <1>1, <1>3, ElementOfSeq DEF n
  <2>3. /\ less \in Seq(Nat) /\ Len(less) = n - 1
        /\ \A j \in 1 .. n - 1 : less[j] = IF j = i THEN last ELSE live[j]
    <3>1. less \in Seq(Nat) /\ Len(less) = Len(shorter)
      BY <1>1, <1>2, <1>5, <2>2, ExceptSeq
    <3>2. \A j \in 1 .. n - 1 : less[j] = IF j = i THEN last ELSE shorter[j]
      BY <1>4
    <3> HIDE DEF less
    <3> QED BY <1>2, <3>1, <3>2
  <2>4. /\ DOMAIN at = ids \ {id}
        /\ at[last] = i
        /\ \A x \in ids \ {id} : x # last => at[x] = idx[x]
    <3>1. DOMAIN idx = ids
      BY DEF Listed
    <3> QED BY <1>3, <2>1, <3>1 DEF With, Without
  <2> HIDE DEF less, at
  <2>5. ASSUME NEW j \in 1 .. Len(less)
        PROVE  less[j] \in ids \ {id} /\ at[less[j]] = j
    <3>1. j \in 1 .. n - 1 /\ j \in 1 .. n /\ j # n
      BY <1>1, <2>3
    <3>2. CASE j = i
      BY <1>3, <2>1, <2>3, <2>4, <3>1, <3>2
    <3>3. CASE j # i
      <4>1. less[j] = live[j] /\ live[j] \in ids /\ idx[live[j]] = j
        BY <2>3, <3>1, <3>3 DEF Listed, n
      <4>2. live[j] # last /\ live[j] # id
        BY <1>3, <3>1, <3>3, <4>1 DEF i
      <4> QED BY <2>4, <4>1, <4>2
    <3> QED BY <3>2, <3>3
  <2>6. ASSUME NEW x \in ids \ {id}
        PROVE  at[x] \in 1 .. Len(less) /\ less[at[x]] = x
    <3>1. CASE x = last
      BY <1>1, <1>5, <2>3, <2>4, <3>1
    <3>2. CASE x # last
      <4>1. at[x] = idx[x] /\ idx[x] \in 1 .. n /\ live[idx[x]] = x
        BY <2>4, <3>2 DEF Listed, n
      <4>2. idx[x] # n /\ idx[x] # i
        BY <1>1, <1>3, <3>2, <4>1
      <4>3. idx[x] \in 1 .. n - 1
        BY <1>1, <4>1, <4>2
      <4> QED BY <2>3, <4>1, <4>2, <4>3
    <3> QED BY <3>1, <3>2
  <2>7. Listed(less, at, ids \ {id})
    BY <2>3, <2>4, <2>5, <2>6 DEF Listed
  <2> QED BY <1>2, <1>5, <2>7 DEF less, at, shorter, i, last
<1>6. CASE ~(i <= n - 1)
  <2> DEFINE at == Without(idx, id)
  <2>1. i = n
    BY <1>1, <1>6
  <2>2. /\ DOMAIN at = ids \ {id}
        /\ \A x \in ids \ {id} : at[x] = idx[x]
    BY DEF Without, Listed
  <2> HIDE DEF at
  <2>3. ASSUME NEW j \in 1 .. n - 1
        PROVE  shorter[j] \in ids \ {id} /\ at[shorter[j]] = j
    <3>1. j \in 1 .. n /\ j # n
      BY <1>1
    <3>2. shorter[j] = live[j] /\ live[j] \in ids /\ idx[live[j]] = j
      BY <1>2, <3>1 DEF Listed, n
    <3>3. live[j] # id
      BY <2>1, <3>1, <3>2 DEF i
    <3> QED BY <2>2, <3>2, <3>3
  <2>4. ASSUME NEW x \in ids \ {id}
        PROVE  at[x] \in 1 .. n - 1 /\ shorter[at[x]] = x
    <3>1. at[x] = idx[x] /\ idx[x] \in 1 .. n /\ live[idx[x]] = x
      BY <2>2 DEF Listed, n
    <3>2. idx[x] # n
      BY <1>1, <2>1, <3>1
    <3>3. idx[x] \in 1 .. n - 1
      BY <1>1, <3>1, <3>2
    <3> QED BY <1>2, <3>1, <3>3
  <2>5. Listed(shorter, at, ids \ {id})
    BY <1>2, <2>2, <2>3, <2>4 DEF Listed
  <2> QED BY <1>2, <1>6, <2>5 DEF at, shorter, i, last
<1> QED BY <1>5, <1>6

-----------------------------------------------------------------------------
(* A locate, when the order references below n have been given out         *)

\* No bid is above it.
MaxBid == MaxPrice \div 2 + 3 * Cent

PricesOf(loc, s) == DOMAIN loc.book.sides[s]

Kept(loc, n) ==
  /\ DOMAIN loc = {"tick", "mid", "book", "live", "liveIdx", "dead"}
  /\ loc.tick \in {1, Cent}
  /\ loc.mid \in 2 * loc.tick .. MaxPrice \div 2
  /\ Sound(loc.book)
  /\ DOMAIN loc.book.orders \in SUBSET (1 .. n - 1)
  /\ loc.dead \in SUBSET (1 .. n - 1)
  /\ loc.dead \cap DOMAIN loc.book.orders = {}
  /\ Listed(loc.live, loc.liveIdx, DOMAIN loc.book.orders)
  /\ \A p \in PricesOf(loc, "Bid") : p <= MaxBid

LEMMA PricesChanged ==
  ASSUME NEW b, NEW c, NEW side, NEW px, NEW h, LevelChanged(b, c, side, px, h)
  PROVE  \A s \in Sides : /\ DOMAIN c.sides[s] \in SUBSET (DOMAIN b.sides[s] \cup {px})
                          /\ s # side => c.sides[s] = b.sides[s]
BY DEF LevelChanged, Changed, With, Without

LEMMA KeptLonger ==
  ASSUME NEW loc, NEW n \in Nat, Kept(loc, n)
  PROVE  Kept(loc, n + 1)
<1>1. 1 .. n - 1 \subseteq 1 .. (n + 1) - 1
  OBVIOUS
<1> QED BY <1>1 DEF Kept

LEMMA KeptWalked ==
  ASSUME NEW loc, NEW n, Kept(loc, n), NEW mid \in 2 * loc.tick .. MaxPrice \div 2
  PROVE  LET after == [loc EXCEPT !.mid = mid]
         IN  Kept(after, n) /\ after.book = loc.book /\ after.tick = loc.tick
BY DEF Kept, PricesOf

LEMMA KeptAdded ==
  ASSUME NEW n \in Nat \ {0}, NEW loc, Kept(loc, n), NEW side \in Sides, NEW px \in Nat,
         side = "Bid" => px <= MaxBid, NEW qty \in Nat \ {0}
  PROVE  LET after == TrackAdd([loc EXCEPT !.book = AddTail(@, n, side, px, qty)], n)
         IN  /\ Kept(after, n + 1)
             /\ after.book = AddTail(loc.book, n, side, px, qty)
             /\ after.tick = loc.tick
             /\ \A s \in Sides :
                  /\ PricesOf(after, s) \in SUBSET (PricesOf(loc, s) \cup {px})
                  /\ s # side => after.book.sides[s] = loc.book.sides[s]
<1> DEFINE b == loc.book
           c == AddTail(b, n, side, px, qty)
           h == Append(Level(b, side, px), Order(n, qty))
           after == TrackAdd([loc EXCEPT !.book = AddTail(@, n, side, px, qty)], n)
           live == Append(loc.live, n)
           idx == With(loc.liveIdx, n, Len(loc.live) + 1)
<1>1. /\ DOMAIN loc = {"tick", "mid", "book", "live", "liveIdx", "dead"}
      /\ Sound(b) /\ n \notin DOMAIN b.orders /\ n \notin loc.dead
      /\ Listed(loc.live, loc.liveIdx, DOMAIN b.orders)
  BY DEF Kept
<1>2. Sound(c) /\ LevelChanged(b, c, side, px, h) /\ DOMAIN c.orders = DOMAIN b.orders \cup {n}
  <2>1. n \in Nat /\ Sound(b) /\ n \notin DOMAIN b.orders
    BY <1>1
  <2> HIDE DEF b
  <2>2. /\ Sound(AddTail(b, n, side, px, qty))
        /\ LevelChanged(b, AddTail(b, n, side, px, qty), side, px,
                        Append(Level(b, side, px), Order(n, qty)))
        /\ DOMAIN AddTail(b, n, side, px, qty).orders = DOMAIN b.orders \cup {n}
    BY ONLY <2>1, side \in Sides, px \in Nat, qty \in Nat \ {0}, AddedIsSound
  <2> QED BY <2>2
<1>3. Listed(live, idx, DOMAIN c.orders)
  BY <1>1, <1>2, ListedMore
<1>4. after = [[loc EXCEPT !.book = c] EXCEPT !.liveIdx = idx, !.live = live]
  <2>1. [loc EXCEPT !.book = AddTail(@, n, side, px, qty)] = [loc EXCEPT !.book = c]
    OBVIOUS
  <2> HIDE DEF c
  <2>2. /\ [loc EXCEPT !.book = c].liveIdx = loc.liveIdx
        /\ [loc EXCEPT !.book = c].live = loc.live
    BY <1>1
  <2> QED BY <2>1, <2>2 DEF TrackAdd
<1> HIDE DEF after, live, idx, c, h
<1>5. /\ DOMAIN after = {"tick", "mid", "book", "live", "liveIdx", "dead"}
      /\ after.tick = loc.tick /\ after.mid = loc.mid /\ after.book = c
      /\ after.live = live /\ after.liveIdx = idx /\ after.dead = loc.dead
  BY <1>1, <1>4
<1>6. \A s \in Sides : /\ DOMAIN c.sides[s] \in SUBSET (DOMAIN b.sides[s] \cup {px})
                       /\ s # side => c.sides[s] = b.sides[s]
  BY <1>2, PricesChanged
<1>7. \A s \in Sides : /\ PricesOf(after, s) \in SUBSET (PricesOf(loc, s) \cup {px})
                       /\ s # side => after.book.sides[s] = b.sides[s]
  BY <1>5, <1>6 DEF PricesOf
<1>8. \A p \in PricesOf(after, "Bid") : p <= MaxBid
  <2>1. "Bid" \in Sides
    BY DEF Sides
  <2>2. side = "Bid" \/ PricesOf(after, "Bid") = PricesOf(loc, "Bid")
    BY <1>7, <2>1 DEF PricesOf
  <2> QED BY <1>7, <2>1, <2>2 DEF Kept
<1>9. /\ DOMAIN c.orders \in SUBSET (1 .. (n + 1) - 1)
      /\ loc.dead \in SUBSET (1 .. (n + 1) - 1)
      /\ loc.dead \cap DOMAIN c.orders = {}
  <2>1. n \in 1 .. (n + 1) - 1 /\ 1 .. n - 1 \subseteq 1 .. (n + 1) - 1
    OBVIOUS
  <2>2. DOMAIN b.orders \in SUBSET (1 .. n - 1) /\ loc.dead \in SUBSET (1 .. n - 1)
    BY DEF Kept
  <2>3. loc.dead \cap DOMAIN b.orders = {}
    BY DEF Kept
  <2> QED BY <1>1, <1>2, <2>1, <2>2, <2>3
<1>10. Kept(after, n + 1)
  BY <1>2, <1>3, <1>5, <1>8, <1>9 DEF Kept
<1> QED BY <1>5, <1>7, <1>10 DEF after, c

LEMMA KeptRemoved ==
  ASSUME NEW n, NEW loc, Kept(loc, n), NEW id \in DOMAIN loc.book.orders
  PROVE  LET after == TrackRemove([loc EXCEPT !.book = DeleteLive(@, id)], id)
         IN  /\ Kept(after, n)
             /\ after.book = DeleteLive(loc.book, id)
             /\ after.tick = loc.tick
             /\ \A s \in Sides :
                  /\ PricesOf(after, s) \in SUBSET PricesOf(loc, s)
                  /\ s # loc.book.orders[id].side => after.book.sides[s] = loc.book.sides[s]
<1> DEFINE b == loc.book
           c == DeleteLive(b, id)
           at == b.orders[id]
           h == RemoveAt(FifoOf(b, id), PosOf(FifoOf(b, id), id))
           after == TrackRemove([loc EXCEPT !.book = DeleteLive(@, id)], id)
           i == loc.liveIdx[id]
           shorter == Front(loc.live)
           moves == i <= Len(shorter)
           live == IF moves THEN [shorter EXCEPT ![i] = Last(loc.live)] ELSE shorter
           idx == IF moves THEN With(Without(loc.liveIdx, id), Last(loc.live), i)
                  ELSE Without(loc.liveIdx, id)
           dead == IF config.keepDead THEN loc.dead \cup {id} ELSE loc.dead
<1>1. /\ DOMAIN loc = {"tick", "mid", "book", "live", "liveIdx", "dead"}
      /\ Sound(b) /\ Listed(loc.live, loc.liveIdx, DOMAIN b.orders)
  BY DEF Kept
<1>2. Sound(c) /\ LevelChanged(b, c, at.side, at.px, h) /\ DOMAIN c.orders = DOMAIN b.orders \ {id}
  BY <1>1, DeletedIsSound
<1>3. Listed(live, idx, DOMAIN c.orders)
  <2>1. Listed(live, idx, DOMAIN b.orders \ {id})
    BY <1>1, ListedLess
  <2> HIDE DEF live, idx, c
  <2> QED BY <1>2, <2>1
<1>4. after = [[loc EXCEPT !.book = c] EXCEPT !.live = live, !.liveIdx = idx, !.dead = dead]
  <2>1. [loc EXCEPT !.book = DeleteLive(@, id)] = [loc EXCEPT !.book = c]
    OBVIOUS
  <2> HIDE DEF c
  <2> DEFINE x == [loc EXCEPT !.book = c]
  <2>2. x.liveIdx = loc.liveIdx /\ x.live = loc.live /\ x.dead = loc.dead
    BY <1>1
  <2> HIDE DEF x
  <2>3. TrackRemove(x, id) = [x EXCEPT !.live = live, !.liveIdx = idx, !.dead = dead]
    BY <2>2 DEF TrackRemove
  <2>4. after = TrackRemove(x, id)
    BY <2>1 DEF x
  <2> HIDE DEF after, live, idx, dead
  <2> QED BY <2>3, <2>4 DEF x
<1>5. at.side \in Sides /\ at.px \in DOMAIN b.sides[at.side]
  BY <1>1, Resting
<1> HIDE DEF after, live, idx, dead, c, h, at
<1>6. /\ DOMAIN after = {"tick", "mid", "book", "live", "liveIdx", "dead"}
      /\ after.tick = loc.tick /\ after.mid = loc.mid /\ after.book = c
      /\ after.live = live /\ after.liveIdx = idx /\ after.dead = dead
  BY <1>1, <1>4
<1>7. \A s \in Sides : /\ DOMAIN c.sides[s] \in SUBSET (DOMAIN b.sides[s] \cup {at.px})
                       /\ s # at.side => c.sides[s] = b.sides[s]
  BY <1>2, <1>5, PricesChanged
<1>8. \A s \in Sides : /\ PricesOf(after, s) \in SUBSET PricesOf(loc, s)
                       /\ s # at.side => after.book.sides[s] = b.sides[s]
  BY <1>5, <1>6, <1>7 DEF PricesOf
<1>9. \A p \in PricesOf(after, "Bid") : p <= MaxBid
  BY <1>8 DEF Kept, Sides
<1>10. /\ DOMAIN c.orders \in SUBSET (1 .. n - 1)
       /\ dead \in SUBSET (1 .. n - 1)
       /\ dead \cap DOMAIN c.orders = {}
  BY <1>2 DEF Kept, dead
<1>11. Kept(after, n)
  BY <1>2, <1>3, <1>6, <1>9, <1>10 DEF Kept
<1> QED BY <1>6, <1>8, <1>11 DEF after, c, at

LEMMA KeptReduced ==
  ASSUME NEW n, NEW loc, Kept(loc, n), NEW id \in DOMAIN loc.book.orders,
         NEW q \in 1 .. Qty(loc.book, id) - 1
  PROVE  LET after == [loc EXCEPT !.book = ReduceLive(@, id, q)]
         IN  /\ Kept(after, n)
             /\ after.book = ReduceLive(loc.book, id, q)
             /\ after.tick = loc.tick
             /\ \A s \in Sides :
                  /\ PricesOf(after, s) \in SUBSET PricesOf(loc, s)
                  /\ s # loc.book.orders[id].side => after.book.sides[s] = loc.book.sides[s]
<1> DEFINE b == loc.book
           c == ReduceLive(b, id, q)
           at == b.orders[id]
           h == Reduced(FifoOf(b, id), PosOf(FifoOf(b, id), id), Qty(b, id) - q)
           after == [loc EXCEPT !.book = ReduceLive(@, id, q)]
<1>1. /\ DOMAIN loc = {"tick", "mid", "book", "live", "liveIdx", "dead"}
      /\ Sound(b)
  BY DEF Kept
<1>2. Sound(c) /\ LevelChanged(b, c, at.side, at.px, h) /\ c.orders = b.orders
  BY <1>1, ReducedIsSound
<1>3. at.side \in Sides /\ at.px \in DOMAIN b.sides[at.side]
  BY <1>1, Resting
<1>4. after = [loc EXCEPT !.book = c]
  OBVIOUS
<1> HIDE DEF after, c, h, at
<1>5. /\ DOMAIN after = {"tick", "mid", "book", "live", "liveIdx", "dead"}
      /\ after.tick = loc.tick /\ after.mid = loc.mid /\ after.book = c
      /\ after.live = loc.live /\ after.liveIdx = loc.liveIdx /\ after.dead = loc.dead
  BY <1>1, <1>4
<1>6. \A s \in Sides : /\ DOMAIN c.sides[s] \in SUBSET (DOMAIN b.sides[s] \cup {at.px})
                       /\ s # at.side => c.sides[s] = b.sides[s]
  BY <1>2, <1>3, PricesChanged
<1>7. \A s \in Sides : /\ PricesOf(after, s) \in SUBSET PricesOf(loc, s)
                       /\ s # at.side => after.book.sides[s] = b.sides[s]
  BY <1>3, <1>5, <1>6 DEF PricesOf
<1>8. \A p \in PricesOf(after, "Bid") : p <= MaxBid
  BY <1>7 DEF Kept, Sides
<1>9. Kept(after, n)
  BY <1>2, <1>5, <1>8 DEF Kept
<1> QED BY <1>5, <1>7, <1>9 DEF after, c, at

-----------------------------------------------------------------------------
(* Prices                                                                  *)

\* A price that meets nothing on the other side, unless an ask is at the floor.
Clear(loc, side, px) ==
  IF side = "Bid" THEN \A q \in PricesOf(loc, "Ask") : px < q \/ q <= loc.tick
  ELSE \A p \in PricesOf(loc, "Bid") : p < px

\* Price draws cross by at most three ticks, before the open only.
Crosses == IF CrossingAllowed THEN {0} \cup config.crossTicks ELSE {0}

\* Two ticks are what the floor of the mid leaves of a crossing ask.
Shallow == \A c \in Configs : c.crossedPreopen => c.crossTicks \subseteq {1, 2}

LEMMA BestIsExtreme ==
  ASSUME NEW b, Sound(b), NEW s \in Sides, ~IsEmpty(b, s)
  PROVE  /\ BestPx(b, s) \in DOMAIN b.sides[s]
         /\ BestPx(b, s) \in Nat
         /\ s = "Bid" => \A p \in DOMAIN b.sides[s] : p <= BestPx(b, s)
         /\ s # "Bid" => \A p \in DOMAIN b.sides[s] : p >= BestPx(b, s)
<1> DEFINE S == DOMAIN b.sides[s]
<1>1. S \in SUBSET Nat /\ IsFiniteSet(S) /\ S # {}
  BY DEF Sound, Shaped, IsEmpty
<1>2. S \in SUBSET Int
  BY <1>1
<1> HIDE DEF S
<1>3. Max(S) \in S /\ \A p \in S : p <= Max(S)
  BY <1>1, <1>2, MaxIsGreatest
<1>4. Min(S) \in S /\ \A p \in S : Min(S) <= p
  BY <1>1, <1>2, MinIsLeast
<1>5. BestPx(b, s) = IF s = "Bid" THEN Max(S) ELSE Min(S)
  BY DEF BestPx, S
<1>6. /\ BestPx(b, s) \in S
      /\ s = "Bid" => \A p \in S : p <= BestPx(b, s)
      /\ s # "Bid" => \A p \in S : p >= BestPx(b, s)
  BY <1>1, <1>3, <1>4, <1>5
<1> QED BY <1>1, <1>6 DEF S

LEMMA PriceIsFair ==
  ASSUME config \in Configs, NEW n, NEW loc, Kept(loc, n), NEW side \in Sides,
         NEW px \in PriceDraws(loc, side)
  PROVE  /\ px \in Nat
         /\ side = "Bid" => px <= MaxBid
         /\ ~CrossingAllowed => Clear(loc, side, px)
         /\ Shallow => px > 0
<1>1. PICK offset \in 0 .. config.maxOffset, cross \in Crosses :
        px = PriceFor(loc, side, offset, cross)
  BY DEF PriceDraws, Crosses
<1> DEFINE b == loc.book
           t == loc.tick
           m == loc.mid
           x == cross * t
           y == offset * t
           opposite == IF side = "Bid" THEN "Ask" ELSE "Bid"
           capped == ~CrossingAllowed /\ ~IsEmpty(b, opposite)
           other == BestPx(b, opposite)
           bid == IF capped THEN Smaller(m + x, other - t) ELSE m + x
           ask == IF capped THEN Larger(m + t - x, other + t) ELSE m + t - x
<1>2. px = IF side = "Bid" THEN Larger(bid - y, t) ELSE Smaller(ask + y, MaxPrice)
  BY <1>1 DEF PriceFor
<1>3. /\ t \in Nat \ {0} /\ t <= Cent /\ Cent \in Nat /\ MaxPrice \in Nat
      /\ MaxPrice \div 2 \in Nat /\ MaxPrice \div 2 <= MaxPrice
      /\ m \in Nat /\ 2 * t <= m /\ m <= MaxPrice \div 2
      /\ MaxPrice \div 2 + 3 * Cent < MaxPrice
  BY PricesAreValid DEF Kept
<1>4. /\ cross \in 0 .. 3
      /\ ~CrossingAllowed => cross = 0
      /\ Shallow => cross \in 0 .. 2
  BY ConfigIsValid DEF Crosses, Shallow, CrossingAllowed
<1>5. offset \in Nat
  BY ConfigIsValid
<1>6. /\ x \in Nat /\ x <= 3 * t /\ x <= 3 * Cent
      /\ ~CrossingAllowed => x = 0
      /\ Shallow => x <= 2 * t
  <2>1. /\ cross = 0 => x = 0
        /\ cross = 1 => x = t
        /\ cross = 2 => x = 2 * t
        /\ cross = 3 => x = 3 * t
    BY <1>3
  <2> HIDE DEF x, t
  <2> QED BY <1>3, <1>4, <2>1
<1>7. y \in Nat
  BY <1>3, <1>5
<1>8. capped => /\ other \in Nat
                /\ opposite = "Bid" => \A p \in PricesOf(loc, "Bid") : p \in Nat /\ p <= other
                /\ opposite = "Ask" => \A p \in PricesOf(loc, "Ask") : p \in Nat /\ p >= other
  <2> SUFFICES ASSUME capped
               PROVE  /\ other \in Nat
                      /\ opposite = "Bid" => \A p \in PricesOf(loc, "Bid") : p \in Nat /\ p <= other
                      /\ opposite = "Ask" => \A p \in PricesOf(loc, "Ask") : p \in Nat /\ p >= other
    OBVIOUS
  <2>1. Sound(b) /\ opposite \in Sides /\ ~IsEmpty(b, opposite)
    BY DEF Kept, Sides
  <2> HIDE DEF capped, opposite, b
  <2>2. /\ other \in Nat
        /\ opposite = "Bid" => \A p \in DOMAIN b.sides[opposite] : p <= other
        /\ opposite # "Bid" => \A p \in DOMAIN b.sides[opposite] : p >= other
    BY <2>1, BestIsExtreme
  <2>3. \A p \in DOMAIN b.sides[opposite] : p \in Nat
    BY <2>1 DEF Sound, Shaped
  <2> QED BY <2>2, <2>3 DEF PricesOf, b
<1>9. ~CrossingAllowed /\ ~capped => PricesOf(loc, opposite) = {}
  BY DEF IsEmpty, PricesOf
<1>10. \A p \in PricesOf(loc, "Bid") : p \in Nat /\ p <= MaxBid
  BY DEF Kept, Sound, Shaped, PricesOf, Sides
<1> HIDE DEF b, t, m, x, y, capped, other
<1>11. CASE side = "Bid"
  <2>1. opposite = "Ask" /\ px = Larger(bid - y, t)
    BY <1>2, <1>11
  <2>2. bid \in Int /\ bid <= m + x /\ (capped => bid <= other - t)
    BY <1>3, <1>6, <1>8 DEF Smaller
  <2> HIDE DEF bid, opposite
  <2>3. px \in Nat /\ px > 0 /\ (px = t \/ px <= bid)
    BY <1>3, <1>7, <2>1, <2>2 DEF Larger
  <2>4. px <= MaxBid
    BY <1>3, <1>6, <2>2, <2>3 DEF MaxBid
  <2>5. ASSUME ~CrossingAllowed, NEW q \in PricesOf(loc, "Ask")
        PROVE  px < q \/ q <= loc.tick
    <3>1. capped
      BY <1>9, <2>1, <2>5
    <3>2. q \in Nat /\ q >= other /\ other \in Nat
      BY <1>8, <2>1, <3>1
    <3> QED BY <1>3, <2>2, <2>3, <3>1, <3>2 DEF t
  <2> QED BY <1>11, <2>3, <2>4, <2>5 DEF Clear
<1>12. CASE side # "Bid"
  <2>1. opposite = "Bid" /\ px = Smaller(ask + y, MaxPrice)
    BY <1>2, <1>12
  <2>2. ask \in Nat /\ (capped => ask >= other + t) /\ (Shallow => ask > 0)
    BY <1>3, <1>6, <1>8 DEF Larger
  <2> HIDE DEF ask, opposite
  <2>3. px \in Nat /\ (px = MaxPrice \/ px >= ask) /\ (Shallow => px > 0)
    BY <1>3, <1>7, <2>1, <2>2 DEF Smaller
  <2>4. ASSUME ~CrossingAllowed, NEW p \in PricesOf(loc, "Bid")
        PROVE  p < px
    <3>1. capped
      BY <1>9, <2>1, <2>4
    <3>2. p \in Nat /\ p <= other /\ other \in Nat
      BY <1>8, <2>1, <3>1
    <3>3. p < MaxPrice
      BY <1>3, <1>10 DEF MaxBid
    <3> QED BY <1>3, <2>2, <2>3, <3>1, <3>2, <3>3
  <2> QED BY <1>12, <2>3, <2>4 DEF Clear
<1> QED BY <1>11, <1>12

\* What a new order's price may be: on the other side it meets nothing but the floor, or
\* a placeholder of a cent an ask of less, unless crossing is allowed.
Fits(loc, side, px) ==
  IF side = "Bid"
  THEN \A q \in PricesOf(loc, "Ask") : \/ px < q \/ q <= loc.tick
                                       \/ px = Cent /\ loc.tick < Cent
  ELSE \A p \in PricesOf(loc, "Bid") : p < px

FairPrice(loc, side, px) ==
  /\ px \in Nat
  /\ side = "Bid" => px <= MaxBid
  /\ ~CrossingAllowed => Fits(loc, side, px)
  /\ Shallow => px > 0

LEMMA DrawnIsFair ==
  ASSUME config \in Configs, NEW n, NEW loc, Kept(loc, n), NEW side \in Sides,
         NEW px \in PriceDraws(loc, side)
  PROVE  FairPrice(loc, side, px)
BY PriceIsFair DEF FairPrice, Fits, Clear

LEMMA PlaceholderIsFair ==
  ASSUME NEW n, NEW loc, Kept(loc, n), NEW side \in Sides
  PROVE  FairPrice(loc, side, PlaceholderPx[side])
<1>1. /\ Cent \in Nat \ {0} /\ MaxPrice \in Nat /\ MaxPrice \div 2 \in Nat
      /\ 4 * Cent <= MaxPrice
      /\ PlaceholderPx["Bid"] = Cent
      /\ PlaceholderPx["Ask"] \in MaxPrice \div 2 + 3 * Cent + 1 .. MaxPrice
      /\ loc.tick \in {1, Cent}
  BY PricesAreValid DEF Kept
<1>2. CASE side = "Bid"
  <2>1. \A q \in PricesOf(loc, "Ask") : q \in Nat
    BY DEF Kept, Sound, Shaped, PricesOf, Sides
  <2> QED BY <1>1, <1>2, <2>1 DEF FairPrice, Fits, MaxBid
<1>3. CASE side = "Ask"
  <2>1. \A p \in PricesOf(loc, "Bid") : p \in Nat /\ p <= MaxBid
    BY DEF Kept, Sound, Shaped, PricesOf, Sides
  <2> QED BY <1>1, <1>3, <2>1 DEF FairPrice, Fits, MaxBid
<1> QED BY <1>2, <1>3 DEF Sides

-----------------------------------------------------------------------------
(* A message of the mix or of the open: what it does to its locate, which  *)
(* goes from locs[l] to `after'.                                           *)

Stays(l, type, o, after, next) ==
  /\ after = locs[l] /\ o = NoOp /\ type \in {"P", "L"} /\ next = nextRef

\* About an order that has left.
Misses(l, type, o, after, next) ==
  /\ after = locs[l]
  /\ \E id \in locs[l].dead, qty \in Nat \ {0} :
       \/ type = "D" /\ o = DeleteOp(id) /\ next = nextRef
       \/ type = "X" /\ o = CancelOp(id, qty) /\ next = nextRef
       \/ type = "U" /\ o = ReplaceOp(id, nextRef, locs[l].mid, qty) /\ next = nextRef + 1
       \/ type \in {"E", "C"} /\ o = ExecuteOp(id, qty) /\ next = nextRef

\* A new order, when the mid has walked to that of loc.
RestsAt(l, o, after, loc, side, px, qty) ==
  /\ Kept(loc, nextRef) /\ loc.book = locs[l].book /\ loc.tick = locs[l].tick
  /\ FairPrice(locs[l], side, px)
  /\ o = AddOp(nextRef, side, px, qty)
  /\ after = TrackAdd([loc EXCEPT !.book = AddTail(@, nextRef, side, px, qty)], nextRef)

Rests(l, type, o, after, next) ==
  /\ type \in {"A", "F"} /\ next = nextRef + 1
  /\ \E loc : \E side \in Sides, px \in Nat, qty \in Nat \ {0} :
       RestsAt(l, o, after, loc, side, px, qty)

Leaves(l, type, o, after, next) ==
  /\ type = "D" /\ next = nextRef
  /\ \E id \in DOMAIN locs[l].book.orders :
       /\ o = DeleteOp(id)
       /\ after = TrackRemove([locs[l] EXCEPT !.book = DeleteLive(@, id)], id)

Shrinks(l, type, o, after, next) ==
  /\ type = "X" /\ next = nextRef
  /\ \E id \in DOMAIN locs[l].book.orders : \E k \in 1 .. Qty(locs[l].book, id) - 1 :
       /\ o = CancelOp(id, k)
       /\ after = [locs[l] EXCEPT !.book = ReduceLive(@, id, k)]

Moves(l, type, o, after, next) ==
  /\ type = "U" /\ next = nextRef + 1
  /\ \E old \in DOMAIN locs[l].book.orders, px \in Nat, qty \in Nat \ {0} :
       /\ FairPrice(locs[l], locs[l].book.orders[old].side, px)
       /\ o = ReplaceOp(old, nextRef, px, qty)
       /\ after = TrackAdd(TrackRemove(
                    [locs[l] EXCEPT !.book = ReplaceLive(@, old, nextRef, px, qty)], old), nextRef)

IsHead(b, s, id) == ~IsEmpty(b, s) /\ HeadOfBest(b, s).id = id

Fills(l, type, o, after, next) ==
  /\ type \in {"E", "C"} /\ next = nextRef
  /\ \E id \in DOMAIN locs[l].book.orders : \E q \in 1 .. Qty(locs[l].book, id) :
       /\ \E s \in Sides : IsHead(locs[l].book, s, id)
       /\ o = ExecuteOp(id, q)
       /\ after = Executed(locs[l], id, q)

Writes(l, type, o, after, next) ==
  \/ Stays(l, type, o, after, next)
  \/ Misses(l, type, o, after, next)
  \/ Rests(l, type, o, after, next)
  \/ Leaves(l, type, o, after, next)
  \/ Shrinks(l, type, o, after, next)
  \/ Moves(l, type, o, after, next)
  \/ Fills(l, type, o, after, next)

\* The head of a best level is a live order.
LEMMA HeadIsLive ==
  ASSUME NEW b, Sound(b), NEW s \in Sides, ~IsEmpty(b, s)
  PROVE  LET id == HeadOfBest(b, s).id
         IN  /\ id \in DOMAIN b.orders
             /\ b.orders[id].side = s
             /\ HeadOfBest(b, s).qty = Qty(b, id)
             /\ Qty(b, id) \in Nat \ {0}
<1> DEFINE px == BestPx(b, s)
           f == Level(b, s, px)
           ids == Named(b, s, px)
           id == f[1].id
<1>1. px \in Nat /\ px \in DOMAIN b.sides[s]
  BY BestIsExtreme
<1>2. f = b.sides[s][px] /\ f # <<>> /\ Lists(f, ids)
  BY <1>1 DEF Level, Sound, Shaped
<1>3. HeadOfBest(b, s) = f[1]
  BY <1>2 DEF HeadOfBest
<1> HIDE DEF px, f, ids
<1>4. 1 \in 1 .. Len(f)
  <2>1. f \in LotSeq
    BY <1>2 DEF Lists
  <2> QED BY <1>2, <2>1, LotSeqFacts
<1>5. id \in ids /\ PosOf(f, id) = 1
  BY <1>2, <1>4, PlaceIs
<1> HIDE DEF id
<1>6. id \in DOMAIN b.orders /\ b.orders[id] = At(s, px)
  BY <1>5 DEF ids, Named
<1>7. FifoOf(b, id) = f
  BY <1>1, <1>2, <1>6 DEF FifoOf, At, Level, f
<1>8. Qty(b, id) = f[1].qty
  BY <1>5, <1>7 DEF Qty
<1>9. Qty(b, id) \in Nat \ {0}
  BY <1>6, Resting
<1> QED BY <1>3, <1>6, <1>8, <1>9 DEF At, id

\* A replacement is a removal and a new order.
LEMMA MovedIsBoth ==
  ASSUME NEW n, NEW loc, Kept(loc, n), NEW old \in DOMAIN loc.book.orders, NEW px, NEW qty
  PROVE  TrackAdd(TrackRemove([loc EXCEPT !.book = ReplaceLive(@, old, n, px, qty)], old), n)
           = TrackAdd([TrackRemove([loc EXCEPT !.book = DeleteLive(@, old)], old)
                         EXCEPT !.book = AddTail(@, n, loc.book.orders[old].side, px, qty)], n)
<1> DEFINE c == DeleteLive(loc.book, old)
           d == AddTail(c, n, loc.book.orders[old].side, px, qty)
           x == [loc EXCEPT !.book = c]
           y == [loc EXCEPT !.book = d]
           less == TrackRemove(x, old)
<1>1. /\ [loc EXCEPT !.book = DeleteLive(@, old)] = x
      /\ [loc EXCEPT !.book = ReplaceLive(@, old, n, px, qty)] = y
  BY DEF ReplaceLive
<1> HIDE DEF c, d
<1>2. /\ DOMAIN x = DOMAIN loc /\ DOMAIN y = DOMAIN loc
      /\ x.live = y.live /\ x.liveIdx = y.liveIdx /\ x.dead = y.dead
      /\ x.book = c /\ y.book = d
      /\ \A k \in DOMAIN loc : k # "book" => x[k] = y[k]
      /\ DOMAIN loc = {"tick", "mid", "book", "live", "liveIdx", "dead"}
  BY DEF Kept
<1>3. y = [x EXCEPT !.book = d]
  OBVIOUS
<1> HIDE DEF x, y
<1> DEFINE i == x.liveIdx[old]
           shorter == Front(x.live)
           moves == i <= Len(shorter)
           live == IF moves THEN [shorter EXCEPT ![i] = Last(x.live)] ELSE shorter
           idx == IF moves THEN With(Without(x.liveIdx, old), Last(x.live), i)
                  ELSE Without(x.liveIdx, old)
           dead == IF config.keepDead THEN x.dead \cup {old} ELSE x.dead
<1>4. less = [x EXCEPT !.live = live, !.liveIdx = idx, !.dead = dead]
  BY DEF TrackRemove
<1>5. TrackRemove(y, old) = [y EXCEPT !.live = live, !.liveIdx = idx, !.dead = dead]
  BY <1>2 DEF TrackRemove
<1> HIDE DEF less, i, shorter, moves, live, idx, dead
<1>6. less.book = c
  BY <1>2, <1>4
<1>7. TrackRemove(y, old) = [less EXCEPT !.book = d]
  BY <1>2, <1>3, <1>4, <1>5
<1>8. [less EXCEPT !.book = AddTail(@, n, loc.book.orders[old].side, px, qty)]
        = [less EXCEPT !.book = d]
  BY <1>6 DEF d
<1> QED BY <1>1, <1>7, <1>8 DEF less

\* An execution reduces its order or takes it out.
LEMMA ExecutedIs ==
  ASSUME NEW n, NEW loc, Kept(loc, n), NEW id \in DOMAIN loc.book.orders,
         NEW q \in 1 .. Qty(loc.book, id)
  PROVE  Executed(loc, id, q) =
           IF q = Qty(loc.book, id)
           THEN TrackRemove([loc EXCEPT !.book = DeleteLive(@, id)], id)
           ELSE [loc EXCEPT !.book = ReduceLive(@, id, q)]
<1> DEFINE b == loc.book
           after == [loc EXCEPT !.book = ReduceLive(b, id, q)]
<1>1. Sound(b) /\ after.book = ReduceLive(b, id, q)
  BY DEF Kept
<1>2. Qty(b, id) \in Nat
  BY <1>1, Resting
<1>3. CASE q = Qty(b, id)
  <2>1. ReduceLive(b, id, q) = DeleteLive(b, id)
    BY <1>3 DEF ReduceLive
  <2>2. DOMAIN DeleteLive(b, id).orders = DOMAIN b.orders \ {id}
    BY <1>1, DeletedIsSound
  <2>3. ~Knows(after.book, id)
    BY <1>1, <2>1, <2>2 DEF Knows
  <2> QED BY <1>3, <2>1, <2>3 DEF Executed
<1>4. CASE q # Qty(b, id)
  <2>1. q \in 1 .. Qty(b, id) - 1
    BY <1>2, <1>4
  <2>2. ReduceLive(b, id, q).orders = b.orders
    BY <1>1, <2>1, ReducedIsSound
  <2>3. Knows(after.book, id)
    BY <1>1, <2>2 DEF Knows
  <2> QED BY <1>4, <2>3 DEF Executed
<1> QED BY <1>3, <1>4

\* What a message does to the prices of its locate: none but one, which is fair, is new.
NoNewPrice(loc, after) == \A s \in Sides : PricesOf(after, s) \in SUBSET PricesOf(loc, s)

NewPrice(loc, after, side, px) ==
  \A s \in Sides :
    PricesOf(after, s) \in SUBSET (PricesOf(loc, s) \cup (IF s = side THEN {px} ELSE {}))

PricesWritten(loc, after) ==
  \/ NoNewPrice(loc, after)
  \/ \E side \in Sides, px \in Nat : FairPrice(loc, side, px) /\ NewPrice(loc, after, side, px)

LEMMA WritesKept ==
  ASSUME nextRef \in Nat \ {0}, NEW l, Kept(locs[l], nextRef),
         NEW type, NEW o, NEW after, NEW next, Writes(l, type, o, after, next)
  PROVE  /\ next \in {nextRef, nextRef + 1}
         /\ Kept(after, next)
         /\ after.tick = locs[l].tick
         /\ PricesWritten(locs[l], after)
<1> DEFINE was == locs[l]
<1>0. Kept(was, nextRef) /\ Kept(was, nextRef + 1)
  BY KeptLonger
<1>1. CASE Stays(l, type, o, after, next)
  BY <1>0, <1>1 DEF Stays, PricesWritten, NoNewPrice
<1>2. CASE Misses(l, type, o, after, next)
  <2>1. after = was /\ next \in {nextRef, nextRef + 1}
    BY <1>2 DEF Misses
  <2> QED BY <1>0, <2>1 DEF PricesWritten, NoNewPrice
<1>3. CASE Rests(l, type, o, after, next)
  <2>1. next = nextRef + 1
    BY <1>3 DEF Rests
  <2>0. PICK loc : \E side \in Sides, px \in Nat, qty \in Nat \ {0} :
          RestsAt(l, o, after, loc, side, px, qty)
    BY <1>3 DEF Rests
  <2>2. PICK side \in Sides, px \in Nat, qty \in Nat \ {0} :
          RestsAt(l, o, after, loc, side, px, qty)
    BY <2>0
  <2>3. side = "Bid" => px <= MaxBid
    BY <2>2 DEF RestsAt, FairPrice
  <2>4. /\ Kept(after, nextRef + 1)
        /\ after.tick = loc.tick
        /\ \A s \in Sides :
             /\ PricesOf(after, s) \in SUBSET (PricesOf(loc, s) \cup {px})
             /\ s # side => after.book.sides[s] = loc.book.sides[s]
    BY <2>2, <2>3, KeptAdded DEF RestsAt
  <2>5. NewPrice(was, after, side, px)
    BY <2>2, <2>4 DEF RestsAt, NewPrice, PricesOf
  <2> QED BY <2>1, <2>2, <2>4, <2>5 DEF RestsAt, PricesWritten
<1>4. CASE Leaves(l, type, o, after, next)
  <2>1. next = nextRef
    BY <1>4 DEF Leaves
  <2>2. PICK id \in DOMAIN was.book.orders :
          after = TrackRemove([was EXCEPT !.book = DeleteLive(@, id)], id)
    BY <1>4 DEF Leaves
  <2>3. /\ Kept(after, nextRef) /\ after.tick = was.tick
        /\ \A s \in Sides : PricesOf(after, s) \in SUBSET PricesOf(was, s)
    BY <1>0, <2>2, KeptRemoved
  <2> QED BY <2>1, <2>3 DEF PricesWritten, NoNewPrice
<1>5. CASE Shrinks(l, type, o, after, next)
  <2>1. next = nextRef
    BY <1>5 DEF Shrinks
  <2>2. PICK id \in DOMAIN was.book.orders : \E k \in 1 .. Qty(was.book, id) - 1 :
          after = [was EXCEPT !.book = ReduceLive(@, id, k)]
    BY <1>5 DEF Shrinks
  <2>3. PICK k \in 1 .. Qty(was.book, id) - 1 :
          after = [was EXCEPT !.book = ReduceLive(@, id, k)]
    BY <2>2
  <2>4. /\ Kept(after, nextRef) /\ after.tick = was.tick
        /\ \A s \in Sides : PricesOf(after, s) \in SUBSET PricesOf(was, s)
    BY <1>0, <2>3, KeptReduced
  <2> QED BY <2>1, <2>4 DEF PricesWritten, NoNewPrice
<1>6. CASE Moves(l, type, o, after, next)
  <2>1. next = nextRef + 1
    BY <1>6 DEF Moves
  <2>2. PICK old \in DOMAIN was.book.orders, px \in Nat, qty \in Nat \ {0} :
          /\ FairPrice(was, was.book.orders[old].side, px)
          /\ after = TrackAdd(TrackRemove(
                       [was EXCEPT !.book = ReplaceLive(@, old, nextRef, px, qty)], old), nextRef)
    BY <1>6 DEF Moves
  <2> DEFINE side == was.book.orders[old].side
             less == TrackRemove([was EXCEPT !.book = DeleteLive(@, old)], old)
  <2>3. after = TrackAdd([less EXCEPT !.book = AddTail(@, nextRef, side, px, qty)], nextRef)
    BY <1>0, <2>2, MovedIsBoth
  <2>4. /\ Kept(less, nextRef) /\ less.tick = was.tick
        /\ \A s \in Sides : PricesOf(less, s) \in SUBSET PricesOf(was, s)
    BY <1>0, KeptRemoved
  <2>5. side \in Sides
    BY <1>0, Resting DEF Kept
  <2> HIDE DEF less, side
  <2>6. side = "Bid" => px <= MaxBid
    BY <2>2 DEF FairPrice, side
  <2>7. /\ Kept(after, nextRef + 1) /\ after.tick = less.tick
        /\ \A s \in Sides :
             /\ PricesOf(after, s) \in SUBSET (PricesOf(less, s) \cup {px})
             /\ s # side => after.book.sides[s] = less.book.sides[s]
    BY <2>3, <2>4, <2>5, <2>6, KeptAdded
  <2>8. NewPrice(was, after, side, px)
    BY <2>4, <2>7 DEF NewPrice, PricesOf
  <2>9. FairPrice(was, side, px)
    BY <2>2 DEF side
  <2> QED BY <2>1, <2>4, <2>5, <2>7, <2>8, <2>9 DEF PricesWritten
<1>7. CASE Fills(l, type, o, after, next)
  <2>1. next = nextRef
    BY <1>7 DEF Fills
  <2>2. PICK id \in DOMAIN was.book.orders : \E q \in 1 .. Qty(was.book, id) :
          after = Executed(was, id, q)
    BY <1>7 DEF Fills
  <2>3. PICK q \in 1 .. Qty(was.book, id) : after = Executed(was, id, q)
    BY <2>2
  <2>4. Qty(was.book, id) \in Nat
    BY <1>0, Resting DEF Kept
  <2>5. /\ Kept(after, nextRef) /\ after.tick = was.tick
        /\ \A s \in Sides : PricesOf(after, s) \in SUBSET PricesOf(was, s)
    <3>1. CASE q = Qty(was.book, id)
      <4>1. after = TrackRemove([was EXCEPT !.book = DeleteLive(@, id)], id)
        BY <1>0, <2>3, <3>1, ExecutedIs
      <4> QED BY <1>0, <4>1, KeptRemoved
    <3>2. CASE q # Qty(was.book, id)
      <4>1. after = [was EXCEPT !.book = ReduceLive(@, id, q)]
        BY <1>0, <2>3, <3>2, ExecutedIs
      <4>2. q \in 1 .. Qty(was.book, id) - 1
        BY <2>4, <3>2
      <4> QED BY <1>0, <4>1, <4>2, KeptReduced
    <3> QED BY <3>1, <3>2
  <2> QED BY <2>1, <2>5 DEF PricesWritten, NoNewPrice
<1> QED BY <1>1, <1>2, <1>3, <1>4, <1>5, <1>6, <1>7 DEF Writes

-----------------------------------------------------------------------------
(* The actions of the mix and of the open each write one message           *)

Written(l, type, o, after) ==
  /\ Writes(l, type, o, after, nextRef')
  /\ locs' = [locs EXCEPT ![l] = after] /\ row' = RowOf(l, after.book)
  /\ msg' = [locate |-> l, type |-> type, op |-> o]
  /\ emitted' = emitted + 1 /\ sent' = sent + 1
  /\ nextMatch' \in {nextMatch, nextMatch + 1}
  /\ UNCHANGED <<ts, resume, qDone, events>>

Wrote(l) == \E type, o, after : Written(l, type, o, after)

\* The locates are kept, and a configuration is chosen.
AllKept ==
  /\ config \in Configs /\ nextRef \in Nat \ {0}
  /\ DOMAIN locs = Locates
  /\ \A l \in Locates : Kept(locs[l], nextRef)

LEMMA EmitWrites ==
  ASSUME NEW l, NEW after, NEW type, NEW o, Emit(l, after, type, o),
         Writes(l, type, o, after, nextRef'), nextMatch' \in {nextMatch, nextMatch + 1}
  PROVE  Wrote(l)
BY DEF Emit, Wrote, Written, clock

LEMMA EmitStepWrites ==
  ASSUME NEW l, NEW after, NEW type, NEW o, EmitStep(l, after, type, o),
         Writes(l, type, o, after, nextRef'), nextMatch' \in {nextMatch, nextMatch + 1}
  PROVE  Wrote(l) /\ pc' = "mix" /\ pair' = pair
BY EmitWrites DEF EmitStep

\* The list of live orders has those of the book.
LEMMA LiveAreListed ==
  ASSUME NEW n, NEW loc, Kept(loc, n)
  PROVE  ToSet(loc.live) = DOMAIN loc.book.orders
<1>1. Listed(loc.live, loc.liveIdx, DOMAIN loc.book.orders)
  BY DEF Kept
<1>2. DOMAIN loc.live = 1 .. Len(loc.live)
  BY <1>1, LenProperties DEF Listed
<1> QED BY <1>1, <1>2 DEF Listed, ToSet

LEMMA RestWrites ==
  ASSUME AllKept, NEW l \in Locates, NEW loc, Kept(loc, nextRef),
         loc.book = locs[l].book, loc.tick = locs[l].tick,
         NEW type \in {"A", "F"}, NEW side \in Sides, NEW px, NEW qty \in config.shares,
         FairPrice(locs[l], side, px), Rest(l, loc, type, side, px, qty)
  PROVE  Wrote(l) /\ pc' = "mix" /\ pair' = pair
<1> DEFINE o == AddOp(nextRef, side, px, qty)
           after == TrackAdd([loc EXCEPT !.book = AddTail(@, nextRef, side, px, qty)], nextRef)
<1>1. qty \in Nat \ {0} /\ nextRef \in Nat
  BY ConfigIsValid DEF AllKept
<1>2. px \in Nat
  BY DEF FairPrice
<1>3. AddLegal(loc.book, nextRef, qty)
  <2>1. nextRef \notin 1 .. nextRef - 1
    BY <1>1
  <2> QED BY <1>1, <2>1 DEF AddLegal, Knows, Kept
<1>4. EmitStep(l, after, type, o) /\ NewRef
  BY <1>2, <1>3 DEF Rest
<1>5. Rests(l, type, o, after, nextRef + 1)
  <2>1. RestsAt(l, o, after, loc, side, px, qty)
    BY DEF RestsAt
  <2> HIDE DEF o, after
  <2> QED BY <1>1, <1>2, <2>1 DEF Rests
<1>6. nextRef' = nextRef + 1 /\ nextMatch' = nextMatch
  BY <1>4 DEF NewRef
<1> QED BY <1>4, <1>5, <1>6, EmitStepWrites DEF Writes

LEMMA MidIsKept ==
  ASSUME NEW n, NEW loc, Kept(loc, n), NEW mid \in MidDraws(loc)
  PROVE  mid \in 2 * loc.tick .. MaxPrice \div 2
<1> DEFINE half == MaxPrice \div 2
<1>1. /\ loc.tick \in Nat \ {0} /\ loc.mid \in 2 * loc.tick .. half
      /\ half \in Nat
  BY PricesAreValid DEF Kept
<1>2. PICK step \in {-1, 0, 1} :
        mid = Smaller(Larger(loc.mid + step * loc.tick, 2 * loc.tick), half)
  BY DEF MidDraws
<1>3. step * loc.tick \in {-loc.tick, 0, loc.tick}
  BY <1>1
<1> HIDE DEF half
<1>4. mid \in 2 * loc.tick .. half
  BY <1>1, <1>2, <1>3 DEF Smaller, Larger
<1> QED BY <1>4 DEF half

LEMMA AddWrites ==
  ASSUME AllKept, NEW l \in Locates, NEW type \in {"A", "F"}, Add(l, type)
  PROVE  Wrote(l) /\ pc' = "mix" /\ pair' = pair
<1>0. Kept(locs[l], nextRef) /\ config \in Configs
  BY DEF AllKept
<1>1. PICK side \in Sides, qty \in config.shares, placeholder \in config.placeholders :
        \/ placeholder /\ Rest(l, locs[l], type, side, PlaceholderPx[side], qty)
        \/ /\ ~placeholder
           /\ \E mid \in MidDraws(locs[l]) :
                LET loc == [locs[l] EXCEPT !.mid = mid]
                IN  \E px \in PriceDraws(loc, side) : Rest(l, loc, type, side, px, qty)
  BY DEF Add
<1>2. CASE Rest(l, locs[l], type, side, PlaceholderPx[side], qty)
  <2>1. FairPrice(locs[l], side, PlaceholderPx[side])
    BY <1>0, PlaceholderIsFair
  <2> QED BY <1>0, <1>2, <2>1, RestWrites
<1>3. CASE \E mid \in MidDraws(locs[l]) :
             LET loc == [locs[l] EXCEPT !.mid = mid]
             IN  \E px \in PriceDraws(loc, side) : Rest(l, loc, type, side, px, qty)
  <2>1. PICK mid \in MidDraws(locs[l]) :
             \E px \in PriceDraws([locs[l] EXCEPT !.mid = mid], side) :
                Rest(l, [locs[l] EXCEPT !.mid = mid], type, side, px, qty)
    BY <1>3
  <2> DEFINE loc == [locs[l] EXCEPT !.mid = mid]
  <2>2. Kept(loc, nextRef) /\ loc.book = locs[l].book /\ loc.tick = locs[l].tick
    BY <1>0, MidIsKept, KeptWalked
  <2>3. PICK px \in PriceDraws(loc, side) : Rest(l, loc, type, side, px, qty)
    BY <2>1
  <2> HIDE DEF loc
  <2>4. FairPrice(loc, side, px)
    BY <1>0, <2>2, DrawnIsFair
  <2>5. FairPrice(locs[l], side, px)
    BY <2>2, <2>4 DEF FairPrice, Fits, PricesOf
  <2> QED BY <2>2, <2>3, <2>5, RestWrites
<1> QED BY <1>1, <1>2, <1>3

LEMMA UnknownWrites ==
  ASSUME AllKept, NEW l \in Locates, NEW type, Unknown(l, type)
  PROVE  Wrote(l) /\ pc' = "mix" /\ pair' = pair
<1>1. PICK id \in locs[l].dead, qty \in config.shares :
        \/ type = "D" /\ EmitStep(l, locs[l], "D", DeleteOp(id)) /\ UNCHANGED counters
        \/ type = "X" /\ EmitStep(l, locs[l], "X", CancelOp(id, qty)) /\ UNCHANGED counters
        \/ type = "U" /\ EmitStep(l, locs[l], "U", ReplaceOp(id, nextRef, locs[l].mid, qty)) /\ NewRef
        \/ type \in {"E", "C"} /\ EmitStep(l, locs[l], type, ExecuteOp(id, qty)) /\ NewMatch
  BY DEF Unknown
<1>2. qty \in Nat \ {0}
  BY ConfigIsValid DEF AllKept
<1> DEFINE was == locs[l]
           Wanted == Wrote(l) /\ pc' = "mix" /\ pair' = pair
<1>3. CASE type = "D" /\ EmitStep(l, was, "D", DeleteOp(id)) /\ UNCHANGED counters
  <2>1. Misses(l, "D", DeleteOp(id), was, nextRef)
    BY <1>2 DEF Misses
  <2> QED BY <1>3, <2>1, EmitStepWrites DEF Writes, counters
<1>4. CASE type = "X" /\ EmitStep(l, was, "X", CancelOp(id, qty)) /\ UNCHANGED counters
  <2>1. Misses(l, "X", CancelOp(id, qty), was, nextRef)
    BY <1>2 DEF Misses
  <2> QED BY <1>4, <2>1, EmitStepWrites DEF Writes, counters
<1>5. CASE type = "U" /\ EmitStep(l, was, "U", ReplaceOp(id, nextRef, was.mid, qty)) /\ NewRef
  <2>1. Misses(l, "U", ReplaceOp(id, nextRef, was.mid, qty), was, nextRef + 1)
    BY <1>2 DEF Misses
  <2>2. nextRef' = nextRef + 1 /\ nextMatch' = nextMatch
    BY <1>5 DEF NewRef
  <2> QED BY <1>5, <2>1, <2>2, EmitStepWrites DEF Writes
<1>6. CASE type \in {"E", "C"} /\ EmitStep(l, was, type, ExecuteOp(id, qty)) /\ NewMatch
  <2>1. Misses(l, type, ExecuteOp(id, qty), was, nextRef)
    BY <1>2, <1>6 DEF Misses
  <2>2. nextRef' = nextRef /\ nextMatch' = nextMatch + 1
    BY <1>6 DEF NewMatch
  <2> QED BY <1>6, <2>1, <2>2, EmitStepWrites DEF Writes
<1> QED BY <1>1, <1>3, <1>4, <1>5, <1>6

\* No assertion fails: what is removed is there.
LEMMA RemoveWrites ==
  ASSUME AllKept, NEW l \in Locates, NEW id \in DOMAIN locs[l].book.orders, RemoveLive(l, id)
  PROVE  Wrote(l) /\ pc' = "mix" /\ pair' = pair
<1> DEFINE after == TrackRemove([locs[l] EXCEPT !.book = DeleteLive(@, id)], id)
<1>1. Knows(locs[l].book, id)
  BY DEF Knows
<1>2. EmitStep(l, after, "D", DeleteOp(id)) /\ nextRef' = nextRef /\ nextMatch' = nextMatch
  BY <1>1 DEF RemoveLive, counters
<1>3. Leaves(l, "D", DeleteOp(id), after, nextRef)
  BY DEF Leaves
<1> HIDE DEF after
<1> QED BY <1>2, <1>3, EmitStepWrites DEF Writes

LEMMA CancelWrites ==
  ASSUME AllKept, NEW l \in Locates, Cancel(l)
  PROVE  Wrote(l) /\ pc' = "mix" /\ pair' = pair
<1>1. PICK id \in Picks(l) :
        LET rem == Qty(locs[l].book, id)
        IN  \/ rem <= 1 /\ RemoveLive(l, id)
            \/ \E k \in 1 .. rem - 1 :
                 /\ EmitStep(l, [locs[l] EXCEPT !.book = ReduceLive(@, id, k)], "X", CancelOp(id, k))
                 /\ UNCHANGED counters
  BY DEF Cancel
<1>2. id \in DOMAIN locs[l].book.orders
  BY LiveAreListed DEF Picks, AllKept
<1>3. CASE RemoveLive(l, id)
  BY <1>2, <1>3, RemoveWrites
<1>4. ASSUME NEW k \in 1 .. Qty(locs[l].book, id) - 1,
             EmitStep(l, [locs[l] EXCEPT !.book = ReduceLive(@, id, k)], "X", CancelOp(id, k)),
             UNCHANGED counters
      PROVE  Wrote(l) /\ pc' = "mix" /\ pair' = pair
  <2> DEFINE after == [locs[l] EXCEPT !.book = ReduceLive(@, id, k)]
  <2>1. EmitStep(l, after, "X", CancelOp(id, k)) /\ nextRef' = nextRef /\ nextMatch' = nextMatch
    BY <1>4 DEF counters
  <2>2. Shrinks(l, "X", CancelOp(id, k), after, nextRef)
    BY <1>2 DEF Shrinks
  <2> HIDE DEF after
  <2> QED BY <2>1, <2>2, EmitStepWrites DEF Writes
<1> QED BY <1>1, <1>3, <1>4

LEMMA ReplaceWrites ==
  ASSUME AllKept, NEW l \in Locates, Replace(l)
  PROVE  Wrote(l) /\ pc' = "mix" /\ pair' = pair
<1>1. PICK old \in Picks(l), qty \in config.shares :
        \E px \in PriceDraws(locs[l], locs[l].book.orders[old].side) :
          IF px < 0 \/ Knows(locs[l].book, nextRef) THEN Panic
          ELSE /\ EmitStep(l, TrackAdd(TrackRemove(
                                [locs[l] EXCEPT !.book = ReplaceLive(@, old, nextRef, px, qty)], old), nextRef),
                           "U", ReplaceOp(old, nextRef, px, qty))
               /\ NewRef
  BY DEF Replace
<1> DEFINE side == locs[l].book.orders[old].side
<1>2. PICK px \in PriceDraws(locs[l], side) :
          IF px < 0 \/ Knows(locs[l].book, nextRef) THEN Panic
          ELSE /\ EmitStep(l, TrackAdd(TrackRemove(
                                [locs[l] EXCEPT !.book = ReplaceLive(@, old, nextRef, px, qty)], old), nextRef),
                           "U", ReplaceOp(old, nextRef, px, qty))
               /\ NewRef
  BY <1>1
<1> DEFINE after == TrackAdd(TrackRemove(
                      [locs[l] EXCEPT !.book = ReplaceLive(@, old, nextRef, px, qty)], old), nextRef)
<1>3. Kept(locs[l], nextRef) /\ config \in Configs /\ nextRef \in Nat
  BY DEF AllKept
<1>4. old \in DOMAIN locs[l].book.orders
  BY <1>3, LiveAreListed DEF Picks
<1>5. side \in Sides
  BY <1>3, <1>4, Resting DEF Kept
<1>6. FairPrice(locs[l], side, px)
  BY <1>3, <1>5, DrawnIsFair
<1>7. px \in Nat /\ qty \in Nat \ {0}
  BY <1>3, <1>6, ConfigIsValid DEF FairPrice
<1>8. ~Knows(locs[l].book, nextRef)
  <2>1. nextRef \notin 1 .. nextRef - 1
    BY <1>3
  <2> QED BY <1>3, <2>1 DEF Kept, Knows
<1>9. EmitStep(l, after, "U", ReplaceOp(old, nextRef, px, qty)) /\ NewRef
  BY <1>2, <1>7, <1>8
<1>10. Moves(l, "U", ReplaceOp(old, nextRef, px, qty), after, nextRef + 1)
  BY <1>4, <1>6, <1>7 DEF Moves
<1>11. nextRef' = nextRef + 1 /\ nextMatch' = nextMatch
  BY <1>9 DEF NewRef
<1> HIDE DEF after, side
<1> QED BY <1>9, <1>10, <1>11, EmitStepWrites DEF Writes

\* An execution of the head of a best level.
LEMMA FillIsWritten ==
  ASSUME AllKept, NEW l \in Locates, NEW s \in Sides, ~IsEmpty(locs[l].book, s),
         NEW q \in 1 .. HeadOfBest(locs[l].book, s).qty, NEW type \in {"E", "C"}
  PROVE  LET id == HeadOfBest(locs[l].book, s).id
         IN  Writes(l, type, ExecuteOp(id, q), Executed(locs[l], id, q), nextRef)
<1> DEFINE id == HeadOfBest(locs[l].book, s).id
<1>1. Sound(locs[l].book)
  BY DEF AllKept, Kept
<1>2. id \in DOMAIN locs[l].book.orders /\ q \in 1 .. Qty(locs[l].book, id)
  BY <1>1, HeadIsLive
<1>3. IsHead(locs[l].book, s, id)
  BY DEF IsHead
<1> HIDE DEF id
<1>4. Fills(l, type, ExecuteOp(id, q), Executed(locs[l], id, q), nextRef)
  BY <1>2, <1>3 DEF Fills
<1> QED BY <1>4 DEF Writes, id

LEMMA ExecuteWrites ==
  ASSUME AllKept, NEW l \in Locates, NEW type \in {"E", "C"}, Execute(l, type)
  PROVE  Wrote(l) /\ pc' = "mix" /\ pair' = pair
<1> DEFINE b == locs[l].book
<1>1. PICK s \in Sides :
        /\ ~IsEmpty(b, s)
        /\ \E q \in 1 .. HeadOfBest(b, s).qty :
             /\ EmitStep(l, Executed(locs[l], HeadOfBest(b, s).id, q), type,
                         ExecuteOp(HeadOfBest(b, s).id, q))
             /\ NewMatch
  BY DEF Execute, Sides
<1>2. PICK q \in 1 .. HeadOfBest(b, s).qty :
        /\ EmitStep(l, Executed(locs[l], HeadOfBest(b, s).id, q), type,
                    ExecuteOp(HeadOfBest(b, s).id, q))
        /\ NewMatch
  BY <1>1
<1>3. Writes(l, type, ExecuteOp(HeadOfBest(b, s).id, q),
             Executed(locs[l], HeadOfBest(b, s).id, q), nextRef)
  BY <1>1, FillIsWritten
<1>4. nextRef' = nextRef /\ nextMatch' = nextMatch + 1
  BY <1>2 DEF NewMatch
<1> QED BY <1>2, <1>3, <1>4, EmitStepWrites

LEMMA StepWrites ==
  ASSUME AllKept, NEW l \in Locates, NEW type, Step(l, type)
  PROVE  Wrote(l) /\ pc' = "mix" /\ pair' = pair
<1>1. CASE type \in {"A", "F"} /\ Add(l, type)
  BY <1>1, AddWrites
<1>2. CASE Unknown(l, type)
  BY <1>2, UnknownWrites
<1>3. CASE Add(l, "A")
  BY <1>3, AddWrites
<1>4. CASE OnLive(l, type)
  <2>1. CASE Delete(l)
    <3>1. PICK id \in Picks(l) : RemoveLive(l, id)
      BY <2>1 DEF Delete
    <3>2. id \in DOMAIN locs[l].book.orders
      BY LiveAreListed DEF Picks, AllKept
    <3> QED BY <3>1, <3>2, RemoveWrites
  <2> QED BY <1>4, <2>1, CancelWrites, ReplaceWrites, ExecuteWrites DEF OnLive
<1>5. CASE type = "P" /\ EmitStep(l, locs[l], "P", NoOp) /\ NewMatch
  <2>1. Writes(l, "P", NoOp, locs[l], nextRef)
    BY DEF Writes, Stays
  <2>2. nextRef' = nextRef /\ nextMatch' = nextMatch + 1
    BY <1>5 DEF NewMatch
  <2> QED BY <1>5, <2>1, <2>2, EmitStepWrites
<1>6. CASE type = "L" /\ EmitStep(l, locs[l], "L", NoOp) /\ UNCHANGED counters
  <2>1. Writes(l, "L", NoOp, locs[l], nextRef)
    BY DEF Writes, Stays
  <2>2. nextRef' = nextRef /\ nextMatch' = nextMatch
    BY <1>6 DEF counters
  <2> QED BY <1>6, <2>1, <2>2, EmitStepWrites
<1> QED BY <1>1, <1>2, <1>3, <1>4, <1>5, <1>6 DEF Step

-----------------------------------------------------------------------------
(* The day: its clock, its counters and its system events                  *)

LEMMA Calendar ==
  ASSUME config \in Configs
  PROVE  /\ NLocates \in Nat \ {0}
         /\ NMsgs \in Nat /\ MixBudget \in Nat /\ NMsgs = MixBudget + 2 * NLocates + 6
         /\ StartTs \in Nat /\ OpenTs \in Nat /\ CloseTs \in Nat
         /\ StartTs <= OpenTs /\ OpenTs < CloseTs
<1>1. /\ NLocates \in Nat \ {0} /\ LeadShare \in Nat \ {0}
      /\ NMsgs \in Nat /\ NMsgs >= 2 * NLocates + 6
      /\ OpenTs \in Nat /\ CloseTs \in Nat /\ OpenTs < CloseTs
  BY ConfigIsValid DEF NMsgs, OpenTs, CloseTs
<1>2. MixBudget \in Nat /\ NMsgs = MixBudget + 2 * NLocates + 6
  BY <1>1 DEF MixBudget
<1> DEFINE lead == (CloseTs - OpenTs) \div LeadShare
<1>3. CloseTs - OpenTs \in Nat
  BY <1>1
<1>4. lead \in Nat
  BY <1>1, <1>3
<1> HIDE DEF lead
<1>5. StartTs = Larger(0, OpenTs - lead)
  BY DEF StartTs, lead
<1>6. StartTs \in Nat /\ StartTs <= OpenTs
  BY <1>1, <1>4, <1>5 DEF Larger
<1> QED BY <1>1, <1>2, <1>6

Codes == {"O", "S", "Q", "M", "E", "C"}

DayEvent == [code : Codes, ts : Nat]

\* The system events written by the end of the header, and by the end of the open.
Logged(e, q) ==
  /\ e \in Seq(DayEvent) /\ Len(e) = IF q THEN 3 ELSE 2
  /\ e[1].code = "O" /\ e[1].ts = StartTs
  /\ e[2].code = "S" /\ e[2].ts = StartTs
  /\ q => e[3].code = "Q" /\ e[3].ts \in OpenTs .. CloseTs

\* All six.
LoggedAll(e) ==
  /\ e \in Seq(DayEvent) /\ Len(e) = 6
  /\ e[1].code = "O" /\ e[1].ts = StartTs
  /\ e[2].code = "S" /\ e[2].ts = StartTs
  /\ e[3].code = "Q" /\ e[3].ts \in OpenTs .. CloseTs
  /\ e[4].code = "M" /\ e[4].ts = CloseTs
  /\ e[5].code = "E" /\ e[5].ts = CloseTs
  /\ e[6].code = "C" /\ e[6].ts = CloseTs

Clock ==
  /\ ts \in StartTs .. CloseTs /\ resume \in StartTs .. CloseTs - 1
  /\ qDone \in BOOLEAN
  /\ qDone => ts >= OpenTs
  /\ pc = "open" => ~qDone /\ ts = OpenTs /\ resume >= OpenTs

Counts ==
  /\ emitted \in 0 .. MixBudget /\ (pc = "step" => emitted < MixBudget)
  /\ nextRef \in 1 .. emitted + 1 /\ nextMatch \in 1 .. emitted + 1

Log ==
  /\ pc \in {"header", "mix", "step", "open", "done"}
  /\ pc = "header" =>
       ts = StartTs /\ sent = 0 /\ events = <<>> /\ emitted = 0 /\ ~qDone
  /\ pc \in {"mix", "step", "open"} =>
       /\ sent = 2 + 2 * NLocates + emitted + (IF qDone THEN 1 ELSE 0)
       /\ Logged(events, qDone)
  /\ pc = "done" => sent = NMsgs /\ LoggedAll(events)

\* The second half of an uncrossing pair is still the head of the best ask.
Paired(l, q) ==
  /\ ~IsEmpty(locs[l].book, "Ask")
  /\ q \in 1 .. HeadOfBest(locs[l].book, "Ask").qty
  /\ pair = <<[l |-> l, id |-> HeadOfBest(locs[l].book, "Ask").id, q |-> q]>>

PairKept == pair = <<>> \/ (pc = "open" /\ \E l \in Locates, q \in Nat : Paired(l, q))

DayInv == AllKept /\ Clock /\ Counts /\ Log /\ PairKept

\* Events after others.
LEMMA LogGrows ==
  ASSUME NEW e \in Seq(DayEvent), NEW m \in Nat, NEW f \in [1 .. m -> DayEvent]
  PROVE  /\ e \o f \in Seq(DayEvent)
         /\ Len(e) \in Nat
         /\ Len(e \o f) = Len(e) + m
         /\ \A k \in 1 .. Len(e) : (e \o f)[k] = e[k]
         /\ \A k \in 1 .. m : (e \o f)[Len(e) + k] = f[k]
<1>1. f \in Seq(DayEvent) /\ Len(f) = m /\ Len(e) \in Nat
  <2>1. f \in Seq(DayEvent)
    BY SeqDef
  <2> QED BY <2>1, LenProperties
<1>2. /\ e \o f \in Seq(DayEvent)
      /\ Len(e \o f) = Len(e) + m
      /\ \A k \in 1 .. Len(e) + m : (e \o f)[k] = IF k <= Len(e) THEN e[k] ELSE f[k - Len(e)]
  BY <1>1, ConcatProperties
<1>3. ASSUME NEW k \in 1 .. Len(e) PROVE (e \o f)[k] = e[k]
  <2>1. k \in 1 .. Len(e) + m /\ k <= Len(e)
    BY <1>1
  <2> QED BY <1>2, <2>1
<1>4. ASSUME NEW k \in 1 .. m PROVE (e \o f)[Len(e) + k] = f[k]
  <2>1. Len(e) + k \in 1 .. Len(e) + m /\ ~(Len(e) + k <= Len(e)) /\ Len(e) + k - Len(e) = k
    BY <1>1
  <2> QED BY <1>2, <2>1
<1> QED BY <1>1, <1>2, <1>3, <1>4

LEMMA HeaderLogged ==
  ASSUME config \in Configs
  PROVE  LET e == <<>> \o [k \in DOMAIN <<"O", "S">> |-> [code |-> <<"O", "S">>[k], ts |-> StartTs]]
         IN  Logged(e, FALSE)
<1> DEFINE f == [k \in DOMAIN <<"O", "S">> |-> [code |-> <<"O", "S">>[k], ts |-> StartTs]]
<1>1. /\ f \in [1 .. 2 -> DayEvent] /\ f[1].code = "O" /\ f[2].code = "S"
      /\ f[1].ts = StartTs /\ f[2].ts = StartTs
  BY Calendar DEF DayEvent, Codes
<1> HIDE DEF f
<1>2. <<>> \in Seq(DayEvent) /\ Len(<<>>) = 0
  BY EmptySeq
<1> DEFINE z == <<>>
           e == z \o f
<1>3. /\ e \in Seq(DayEvent) /\ Len(e) = Len(z) + 2
      /\ \A k \in 1 .. 2 : e[Len(z) + k] = f[k]
  <2>1. z \in Seq(DayEvent) /\ f \in [1 .. 2 -> DayEvent] /\ 2 \in Nat
    BY <1>1, <1>2
  <2> HIDE DEF z
  <2> QED BY ONLY <2>1, LogGrows
<1>4. Len(e) = 2 /\ e[1] = f[1] /\ e[2] = f[2]
  BY <1>2, <1>3
<1> QED BY <1>1, <1>3, <1>4 DEF Logged, f

LEMMA OpenLogged ==
  ASSUME config \in Configs, NEW e, Logged(e, FALSE), NEW at \in OpenTs .. CloseTs
  PROVE  Logged(e \o [k \in DOMAIN <<"Q">> |-> [code |-> <<"Q">>[k], ts |-> at]], TRUE)
<1> DEFINE f == [k \in DOMAIN <<"Q">> |-> [code |-> <<"Q">>[k], ts |-> at]]
           g == e \o f
<1>1. f \in [1 .. 1 -> DayEvent] /\ f[1].code = "Q" /\ f[1].ts = at
  BY Calendar DEF DayEvent, Codes
<1>2. e \in Seq(DayEvent) /\ Len(e) = 2
  BY DEF Logged
<1> HIDE DEF f
<1>3. /\ g \in Seq(DayEvent) /\ Len(g) = Len(e) + 1
      /\ \A k \in 1 .. Len(e) : g[k] = e[k]
      /\ \A k \in 1 .. 1 : g[Len(e) + k] = f[k]
  <2>1. e \in Seq(DayEvent) /\ f \in [1 .. 1 -> DayEvent] /\ 1 \in Nat
    BY <1>1, <1>2
  <2> QED BY ONLY <2>1, LogGrows
<1> HIDE DEF g
<1>4. Len(g) = 3 /\ g[1] = e[1] /\ g[2] = e[2] /\ g[3] = f[1]
  <2>1. 1 \in 1 .. Len(e) /\ 2 \in 1 .. Len(e) /\ Len(e) + 1 = 3 /\ 1 \in 1 .. 1
    BY <1>2
  <2> QED BY <1>3, <2>1
<1>5. Logged(g, TRUE)
  BY <1>1, <1>3, <1>4 DEF Logged
<1> QED BY <1>5 DEF g, f

LEMMA CloseLogged ==
  ASSUME config \in Configs, NEW e, Logged(e, TRUE)
  PROVE  LoggedAll(e \o [k \in 1 .. 3 |-> [code |-> <<"M", "E", "C">>[k], ts |-> CloseTs]])
<1> DEFINE f == [k \in 1 .. 3 |-> [code |-> <<"M", "E", "C">>[k], ts |-> CloseTs]]
           g == e \o f
<1>1. /\ f \in [1 .. 3 -> DayEvent] /\ f[1].code = "M" /\ f[2].code = "E" /\ f[3].code = "C"
      /\ f[1].ts = CloseTs /\ f[2].ts = CloseTs /\ f[3].ts = CloseTs
  BY Calendar DEF DayEvent, Codes
<1>2. e \in Seq(DayEvent) /\ Len(e) = 3
  BY DEF Logged
<1> HIDE DEF f
<1>3. /\ g \in Seq(DayEvent) /\ Len(g) = Len(e) + 3
      /\ \A k \in 1 .. Len(e) : g[k] = e[k]
      /\ \A k \in 1 .. 3 : g[Len(e) + k] = f[k]
  <2>1. e \in Seq(DayEvent) /\ f \in [1 .. 3 -> DayEvent] /\ 3 \in Nat
    BY <1>1, <1>2
  <2> QED BY ONLY <2>1, LogGrows
<1> HIDE DEF g
<1>4. /\ Len(g) = 6 /\ g[1] = e[1] /\ g[2] = e[2] /\ g[3] = e[3]
      /\ g[4] = f[1] /\ g[5] = f[2] /\ g[6] = f[3]
  <2>1. /\ 1 \in 1 .. Len(e) /\ 2 \in 1 .. Len(e) /\ 3 \in 1 .. Len(e)
        /\ Len(e) + 1 = 4 /\ Len(e) + 2 = 5 /\ Len(e) + 3 = 6
        /\ 1 \in 1 .. 3 /\ 2 \in 1 .. 3 /\ 3 \in 1 .. 3
    BY <1>2
  <2> QED BY <1>3, <2>1
<1>5. LoggedAll(g)
  BY <1>1, <1>3, <1>4 DEF Logged, LoggedAll
<1> QED BY <1>5 DEF g, f

-----------------------------------------------------------------------------
(* Every action keeps the day                                              *)

LEMMA NewIsKept ==
  ASSUME NEW base, NEW subPenny, base \in Bases
  PROVE  LET loc == NewLocate(base, subPenny)
         IN  Kept(loc, 1) /\ \A s \in Sides : PricesOf(loc, s) = {}
<1> DEFINE tick == IF base < Dollar /\ subPenny THEN 1 ELSE Cent
           floor == (base \div tick) * tick
           mid == Larger(floor, 2 * tick)
           half == MaxPrice \div 2
           none == <<>>
           loc == [tick |-> tick, mid |-> mid, book |-> EmptyTruth, live |-> none,
                   liveIdx |-> EmptyMap, dead |-> {}]
<1>1. NewLocate(base, subPenny) = loc
  BY DEF NewLocate
<1>2. /\ tick \in {1, Cent} /\ tick \in Nat \ {0} /\ Cent \in Nat \ {0} /\ tick <= Cent
      /\ MaxPrice \in Nat /\ 4 * Cent <= MaxPrice /\ half \in Nat /\ 2 * Cent <= half
      /\ base \in Nat /\ base <= half
  BY PricesAreValid
<1> HIDE DEF tick, half
<1>3. floor \in Nat /\ floor <= base
  <2>1. base \div tick \in Nat /\ tick * (base \div tick) <= base
    BY <1>2
  <2>2. floor = tick * (base \div tick)
    BY <1>2, <2>1
  <2>3. floor \in Nat
    BY <1>2, <2>1
  <2> QED BY <2>1, <2>2, <2>3
<1> HIDE DEF floor
<1>4. mid \in 2 * tick .. half
  BY <1>2, <1>3 DEF Larger
<1> HIDE DEF mid
<1>5. DOMAIN EmptyMap = {}
  BY DEF EmptyMap
<1>6. /\ DOMAIN EmptyTruth = {"sides", "orders"} /\ DOMAIN EmptyTruth.sides = Sides
      /\ \A s \in Sides : EmptyTruth.sides[s] = EmptyMap
      /\ EmptyTruth.orders = EmptyMap
  BY DEF EmptyTruth
<1>7. Sound(EmptyTruth)
  <2>1. \A s \in Sides, p \in Nat : /\ Level(EmptyTruth, s, p) = <<>>
                                     /\ Named(EmptyTruth, s, p) = {}
    BY <1>5, <1>6 DEF Level, Named
  <2>2. Lists(<<>>, {})
    <3>1. <<>> \in LotSeq /\ Len(<<>>) = 0
      BY EmptySeq DEF LotSeq
    <3> QED BY <3>1 DEF Lists
  <2>3. IsFiniteSet({})
    BY FS_EmptySet
  <2>4. Shaped(EmptyTruth)
    BY <1>5, <1>6, <2>3 DEF Shaped
  <2>5. \A s \in Sides, p \in Nat :
          Lists(Level(EmptyTruth, s, p), Named(EmptyTruth, s, p))
    BY <2>1, <2>2
  <2>6. /\ DOMAIN EmptyTruth.orders \in SUBSET Nat
        /\ \A id \in DOMAIN EmptyTruth.orders :
             EmptyTruth.orders[id] \in [side : Sides, px : Nat]
    BY <1>5, <1>6
  <2> QED BY <2>4, <2>5, <2>6 DEF Sound
<1>8. Listed(none, EmptyMap, {})
  <2>1. none \in Seq(Nat) /\ Len(none) = 0
    BY EmptySeq
  <2> QED BY <1>5, <2>1 DEF Listed
<1> HIDE DEF none
<1>9. /\ DOMAIN loc = {"tick", "mid", "book", "live", "liveIdx", "dead"}
      /\ loc.tick = tick /\ loc.mid = mid /\ loc.book = EmptyTruth /\ loc.live = none
      /\ loc.liveIdx = EmptyMap /\ loc.dead = {}
  OBVIOUS
<1> HIDE DEF loc
<1>10. \A s \in Sides : PricesOf(loc, s) = {}
  BY <1>5, <1>6, <1>9 DEF PricesOf
<1>11. Kept(loc, 1)
  <2>1. loc.book.orders = EmptyMap
    BY <1>6, <1>9
  <2>2. PricesOf(loc, "Bid") = {}
    BY <1>10 DEF Sides
  <2> QED BY <1>2, <1>4, <1>5, <1>7, <1>8, <1>9, <2>1, <2>2 DEF Kept, half
<1> QED BY <1>1, <1>10, <1>11

LEMMA DayBegins == Init => DayInv
<1> SUFFICES ASSUME Init PROVE DayInv
  OBVIOUS
<1>1. config \in Configs /\ nextRef = 1 /\ nextMatch = 1
  BY DEF Init
<1>2. PICK base \in [Locates -> Bases] :
        locs = [l \in Locates |-> NewLocate(base[l], config.subPenny)]
  BY DEF Init
<1>3. AllKept
  <2>1. ASSUME NEW l \in Locates PROVE Kept(locs[l], 1)
    <3>1. base[l] \in Bases /\ locs[l] = NewLocate(base[l], config.subPenny)
      BY <1>2
    <3> QED BY <3>1, NewIsKept
  <2> QED BY <1>1, <1>2, <2>1 DEF AllKept
<1>4. Clock
  <2>1. ts = StartTs /\ resume = StartTs /\ qDone = FALSE /\ pc = "header"
    BY DEF Init
  <2>2. /\ StartTs \in Nat /\ OpenTs \in Nat /\ CloseTs \in Nat
        /\ StartTs <= OpenTs /\ OpenTs < CloseTs
    BY <1>1, Calendar
  <2>3. ts \in StartTs .. CloseTs /\ resume \in StartTs .. CloseTs - 1
    BY ONLY <2>1, <2>2
  <2>4. qDone \in BOOLEAN /\ ~qDone
    BY ONLY <2>1
  <2>5. pc # "open"
    BY <2>1
  <2> QED BY ONLY <2>3, <2>4, <2>5 DEF Clock
<1>5. Counts /\ Log
  BY <1>1, Calendar DEF Init, Counts, Log
<1> QED BY <1>3, <1>4, <1>5 DEF Init, DayInv, PairKept

LEMMA WroteKeeps ==
  ASSUME DayInv, config' = config, NEW l \in Locates, Wrote(l), emitted < MixBudget,
         \/ pc = "step" /\ pc' = "mix"
         \/ pc = "open" /\ pc' = "open"
  PROVE  AllKept' /\ Clock' /\ Counts' /\ Log'
<1>1. PICK type, o, after : Written(l, type, o, after)
  BY DEF Wrote
<1>2. AllKept
  BY DEF DayInv
<1>3. /\ nextRef' \in {nextRef, nextRef + 1} /\ Kept(after, nextRef')
  BY <1>1, <1>2, WritesKept DEF Written, AllKept
<1>4. AllKept'
  <2>1. ASSUME NEW k \in Locates PROVE Kept(locs'[k], nextRef')
    <3>1. CASE k = l
      BY <1>1, <1>2, <1>3, <3>1 DEF Written, AllKept
    <3>2. CASE k # l
      <4>1. locs'[k] = locs[k] /\ Kept(locs[k], nextRef)
        BY <1>1, <1>2, <3>2 DEF Written, AllKept
      <4> QED BY <1>2, <1>3, <4>1, KeptLonger DEF AllKept
    <3> QED BY <3>1, <3>2
  <2>2. DOMAIN locs' = Locates
    BY <1>1, <1>2 DEF Written, AllKept
  <2>3. nextRef' \in Nat \ {0}
    BY <1>2, <1>3 DEF AllKept
  <2> QED BY <1>2, <2>1, <2>2, <2>3 DEF AllKept
<1>5. /\ MixBudget \in Nat /\ MixBudget' = MixBudget /\ StartTs' = StartTs
      /\ OpenTs' = OpenTs /\ CloseTs' = CloseTs /\ NMsgs' = NMsgs
      /\ NLocates \in Nat
  BY <1>2, Calendar DEF AllKept, MixBudget, StartTs, OpenTs, CloseTs, NMsgs
<1>6. Clock'
  BY <1>1, <1>5 DEF Written, DayInv, Clock
<1>7. Counts'
  BY <1>1, <1>3, <1>5 DEF Written, DayInv, Counts
<1>8. Log'
  <2>1. Logged(events, qDone)' <=> Logged(events, qDone)
    BY <1>1, <1>5 DEF Written, Logged
  <2>2. /\ sent = 2 + 2 * NLocates + emitted + (IF qDone THEN 1 ELSE 0)
        /\ Logged(events, qDone)
    BY DEF DayInv, Log
  <2>3. sent' = sent + 1 /\ emitted' = emitted + 1 /\ qDone' = qDone
    BY <1>1 DEF Written
  <2>4. emitted \in Nat /\ qDone \in BOOLEAN
    BY <1>5 DEF DayInv, Counts, Clock
  <2>5. sent' = 2 + 2 * NLocates + emitted' + (IF qDone' THEN 1 ELSE 0)
    <3>1. CASE qDone
      BY <1>5, <2>2, <2>3, <2>4, <3>1
    <3>2. CASE ~qDone
      BY <1>5, <2>2, <2>3, <2>4, <3>2
    <3> QED BY <3>1, <3>2
  <2> QED BY <2>1, <2>2, <2>5 DEF Log
<1> QED BY <1>4, <1>6, <1>7, <1>8

\* The execution of a bid leaves the asks alone.
LEMMA AsksUntouched ==
  ASSUME NEW n, NEW loc, Kept(loc, n), ~IsEmpty(loc.book, "Bid"),
         NEW q \in 1 .. HeadOfBest(loc.book, "Bid").qty
  PROVE  Executed(loc, HeadOfBest(loc.book, "Bid").id, q).book.sides["Ask"]
           = loc.book.sides["Ask"]
<1> DEFINE id == HeadOfBest(loc.book, "Bid").id
<1>1. /\ id \in DOMAIN loc.book.orders /\ loc.book.orders[id].side = "Bid"
      /\ HeadOfBest(loc.book, "Bid").qty = Qty(loc.book, id)
      /\ Qty(loc.book, id) \in Nat
  BY HeadIsLive DEF Kept, Sides
<1>2. q \in 1 .. Qty(loc.book, id)
  BY <1>1
<1>3. "Ask" \in Sides /\ "Ask" # "Bid"
  BY DEF Sides
<1> HIDE DEF id
<1>4. CASE q = Qty(loc.book, id)
  <2>1. Executed(loc, id, q) = TrackRemove([loc EXCEPT !.book = DeleteLive(@, id)], id)
    BY <1>1, <1>2, <1>4, ExecutedIs
  <2> QED BY <1>1, <1>3, <2>1, KeptRemoved DEF id
<1>5. CASE q # Qty(loc.book, id)
  <2>1. Executed(loc, id, q) = [loc EXCEPT !.book = ReduceLive(@, id, q)]
    BY <1>1, <1>2, <1>5, ExecutedIs
  <2>2. q \in 1 .. Qty(loc.book, id) - 1
    BY <1>1, <1>2, <1>5
  <2>3. Executed(loc, id, q).book.sides["Ask"] = loc.book.sides["Ask"]
    BY <1>1, <1>3, <2>1, <2>2, KeptReduced
  <2> QED BY <2>3 DEF id
<1> QED BY <1>4, <1>5

\* No assertion fails at the open either: the heads are live and have the quantity.
LEMMA HalfWrites ==
  ASSUME AllKept, NEW l \in Locates, NEW s \in Sides, ~IsEmpty(locs[l].book, s),
         NEW q \in 1 .. HeadOfBest(locs[l].book, s).qty,
         ExecuteKnown(l, HeadOfBest(locs[l].book, s).id, q)
  PROVE  /\ Wrote(l) /\ pc' = "open"
         /\ locs' = [locs EXCEPT ![l] = Executed(locs[l], HeadOfBest(locs[l].book, s).id, q)]
<1> DEFINE b == locs[l].book
           id == HeadOfBest(b, s).id
<1>1. Sound(b)
  BY DEF AllKept, Kept
<1>2. /\ id \in DOMAIN b.orders /\ HeadOfBest(b, s).qty = Qty(b, id) /\ Qty(b, id) \in Nat
  BY <1>1, HeadIsLive
<1>3. ReduceLegal(b, id, q)
  BY <1>2 DEF ReduceLegal, Knows
<1>4. Writes(l, "E", ExecuteOp(id, q), Executed(locs[l], id, q), nextRef)
  BY FillIsWritten
<1> HIDE DEF id
<1>5. /\ Emit(l, Executed(locs[l], id, q), "E", ExecuteOp(id, q))
      /\ pc' = "open" /\ NewMatch
  BY <1>3 DEF ExecuteKnown, id
<1>6. nextRef' = nextRef /\ nextMatch' = nextMatch + 1
  BY <1>5 DEF NewMatch
<1>7. Wrote(l)
  BY <1>4, <1>5, <1>6, EmitWrites
<1>8. locs' = [locs EXCEPT ![l] = Executed(locs[l], id, q)]
  BY <1>5 DEF Emit
<1> QED BY <1>5, <1>7, <1>8 DEF id

LEMMA FirstCrossed ==
  ASSUME NLocates \in Nat, CrossedLocates # {}
  PROVE  Min(CrossedLocates) \in CrossedLocates
<1>1. CrossedLocates \in SUBSET (1 .. NLocates) /\ IsFiniteSet(1 .. NLocates)
  BY FS_Interval DEF CrossedLocates, Locates
<1>2. IsFiniteSet(CrossedLocates)
  BY <1>1, FS_Subset
<1>3. CrossedLocates \in SUBSET Int
  BY <1>1
<1> QED BY <1>2, <1>3, MinIsLeast

LEMMA BidWrites ==
  ASSUME DayInv, UncrossBid
  PROVE  \E l \in Locates : Wrote(l) /\ pc' = "open" /\ PairKept'
<1>0. AllKept /\ "Bid" \in Sides /\ "Ask" \in Sides
  BY DEF DayInv, Sides
<1> DEFINE first == Min(CrossedLocates)
<1>1. first \in Locates /\ first \in CrossedLocates
  BY <1>0, FirstCrossed, Calendar DEF AllKept, UncrossBid, CrossedLocates
<1>2. PICK l \in Locates : l = first
  BY <1>1
<1>3. ~IsEmpty(locs[l].book, "Bid") /\ ~IsEmpty(locs[l].book, "Ask")
  BY <1>0, <1>1, <1>2 DEF CrossedLocates, CrossedLoc
<1>4. /\ Kept(locs[l], nextRef) /\ Sound(locs[l].book) /\ DOMAIN locs = Locates
  BY <1>0 DEF AllKept, Kept
<1> DEFINE b == locs[l].book
           bid == HeadOfBest(b, "Bid")
           ask == HeadOfBest(b, "Ask")
<1>5. bid.qty \in Nat \ {0} /\ ask.qty \in Nat \ {0}
  <2>1. /\ HeadOfBest(b, "Bid").qty = Qty(b, HeadOfBest(b, "Bid").id)
        /\ Qty(b, HeadOfBest(b, "Bid").id) \in Nat \ {0}
    BY <1>0, <1>3, <1>4, HeadIsLive
  <2>2. /\ HeadOfBest(b, "Ask").qty = Qty(b, HeadOfBest(b, "Ask").id)
        /\ Qty(b, HeadOfBest(b, "Ask").id) \in Nat \ {0}
    BY <1>0, <1>3, <1>4, HeadIsLive
  <2> QED BY <2>1, <2>2
<1>6. PICK q \in Nat : /\ q = Smaller(bid.qty, ask.qty)
                       /\ q \in 1 .. bid.qty /\ q \in 1 .. ask.qty
  <2> HIDE DEF bid, ask
  <2> QED BY <1>5 DEF Smaller
<1>7. /\ ExecuteKnown(l, bid.id, q)
      /\ pair' = <<[l |-> l, id |-> ask.id, q |-> q]>>
  BY <1>2, <1>6 DEF UncrossBid
<1>8. /\ Wrote(l) /\ pc' = "open"
      /\ locs' = [locs EXCEPT ![l] = Executed(locs[l], bid.id, q)]
  BY <1>0, <1>3, <1>6, <1>7, HalfWrites
<1>9. Executed(locs[l], bid.id, q).book.sides["Ask"] = b.sides["Ask"]
  BY <1>3, <1>4, <1>6, AsksUntouched
<1>10. locs'[l].book.sides["Ask"] = b.sides["Ask"]
  BY <1>4, <1>8, <1>9
<1>11. /\ IsEmpty(locs'[l].book, "Ask") <=> IsEmpty(b, "Ask")
       /\ HeadOfBest(locs'[l].book, "Ask") = ask
  BY <1>10 DEF IsEmpty, HeadOfBest, BestPx
<1>12. Paired(l, q)'
  BY <1>3, <1>6, <1>7, <1>11 DEF Paired
<1>13. PairKept'
  BY <1>8, <1>12 DEF PairKept
<1> QED BY <1>8, <1>13

LEMMA AskWrites ==
  ASSUME DayInv, UncrossAsk
  PROVE  \E l \in Locates : Wrote(l) /\ pc' = "open" /\ PairKept'
<1>0. AllKept
  BY DEF DayInv
<1>1. PICK l \in Locates, q \in Nat : Paired(l, q)
  BY DEF DayInv, PairKept, UncrossAsk
<1>2. /\ ~IsEmpty(locs[l].book, "Ask") /\ q \in 1 .. HeadOfBest(locs[l].book, "Ask").qty
      /\ pair[1].l = l /\ pair[1].id = HeadOfBest(locs[l].book, "Ask").id /\ pair[1].q = q
  BY <1>1 DEF Paired
<1>3. ExecuteKnown(l, HeadOfBest(locs[l].book, "Ask").id, q) /\ pair' = <<>>
  BY <1>2 DEF UncrossAsk
<1>4. "Ask" \in Sides
  BY DEF Sides
<1>5. Wrote(l) /\ pc' = "open"
  BY <1>0, <1>2, <1>3, <1>4, HalfWrites
<1> QED BY <1>3, <1>5 DEF PairKept

\* Each step of the day writes one message about a locate, or changes no book.
Quiet ==
  /\ pc' # "panicked"
  /\ UNCHANGED <<locs, nextRef, nextMatch, emitted, msg, row>>

LEMMA Steps ==
  ASSUME DayInv, [Next]_vars
  PROVE  /\ config' = config
         /\ \/ UNCHANGED vars
            \/ Header /\ Quiet
            \/ Tick /\ Quiet
            \/ OpenEvent /\ Quiet
            \/ Close /\ Quiet
            \/ /\ emitted < MixBudget
               /\ PairKept'
               /\ \/ pc = "step" /\ pc' = "mix"
                  \/ pc = "open" /\ pc' = "open"
               /\ \E l \in Locates : Wrote(l)
<1>0. AllKept /\ pc \in {"header", "mix", "step", "open", "done"}
  BY DEF DayInv, Log
<1>1. CASE UNCHANGED vars
  BY <1>1 DEF vars
<1>2. CASE Over
  BY <1>2 DEF Over, vars
<1>3. CASE config' = config /\ Header
  BY <1>3 DEF Header, Quiet, counters
<1>4. CASE config' = config /\ Tick
  BY <1>4 DEF Tick, Quiet, counters
<1>5. CASE config' = config /\ OpenEvent
  BY <1>5 DEF OpenEvent, Quiet, counters
<1>6. CASE config' = config /\ Close
  BY <1>6 DEF Close, Quiet, counters
<1>7. ASSUME config' = config, NEW l \in Locates, NEW type, Step(l, type)
      PROVE  /\ config' = config
             /\ emitted < MixBudget
             /\ PairKept'
             /\ \/ pc = "step" /\ pc' = "mix"
                \/ pc = "open" /\ pc' = "open"
             /\ \E k \in Locates : Wrote(k)
  <2>1. Wrote(l) /\ pc' = "mix" /\ pair' = pair
    BY <1>0, <1>7, StepWrites
  <2>2. pc = "step"
    BY <1>7 DEF Step
  <2>3. emitted < MixBudget /\ pair = <<>>
    BY <2>2 DEF DayInv, Counts, PairKept
  <2> QED BY <1>7, <2>1, <2>2, <2>3 DEF PairKept
<1>8. CASE config' = config /\ UncrossBid
  BY <1>8, BidWrites DEF UncrossBid
<1>9. CASE config' = config /\ UncrossAsk
  BY <1>9, AskWrites DEF UncrossAsk
<1> QED BY <1>1, <1>2, <1>3, <1>4, <1>5, <1>6, <1>7, <1>8, <1>9 DEF Next

LEMMA SameDay ==
  ASSUME config' = config
  PROVE  /\ MixBudget' = MixBudget /\ StartTs' = StartTs /\ OpenTs' = OpenTs
         /\ CloseTs' = CloseTs /\ NMsgs' = NMsgs /\ GapMax' = GapMax
         /\ \A e, q : /\ Logged(e, q)' <=> Logged(e, q)
                      /\ LoggedAll(e)' <=> LoggedAll(e)
BY DEF MixBudget, StartTs, OpenTs, CloseTs, NMsgs, GapMax, Logged, LoggedAll

LEMMA QuietKeeps ==
  ASSUME DayInv, config' = config, Quiet
  PROVE  /\ AllKept'
         /\ emitted' = emitted /\ emitted \in Nat /\ MixBudget' = MixBudget
         /\ (pc' = "step" => emitted < MixBudget) => Counts'
<1>1. MixBudget' = MixBudget
  BY SameDay
<1>2. AllKept' /\ emitted' = emitted /\ emitted \in Nat
  BY Calendar DEF DayInv, AllKept, Quiet, Counts
<1>3. (pc' = "step" => emitted < MixBudget) => Counts'
  BY <1>1 DEF DayInv, Quiet, Counts
<1> QED BY <1>1, <1>2, <1>3

LEMMA HeaderKeeps ==
  ASSUME DayInv, config' = config, Header, Quiet
  PROVE  DayInv'
<1>0. config \in Configs
  BY DEF DayInv, AllKept
<1>1. /\ pc = "header" /\ ts = StartTs /\ sent = 0 /\ emitted = 0 /\ ~qDone /\ events = <<>>
  BY DEF DayInv, Log, Header
<1>2. /\ pc' = "mix" /\ sent' = 2 + 2 * NLocates
      /\ events' = SystemEvents(<<"O", "S">>, ts)
      /\ ts' = ts /\ resume' = resume /\ qDone' = qDone /\ pair' = pair
  <2>1. sent' = sent + 2 + 2 * NLocates
    BY DEF Header
  <2>2. NLocates \in Nat
    BY <1>0, Calendar
  <2> QED BY <1>1, <2>1, <2>2 DEF Header, clock
<1>3. AllKept' /\ Counts' /\ emitted' = 0
  BY <1>1, <1>2, QuietKeeps
<1>4. Clock'
  <2>1. StartTs' = StartTs /\ OpenTs' = OpenTs /\ CloseTs' = CloseTs
    BY SameDay
  <2> QED BY <1>1, <1>2, <2>1 DEF DayInv, Clock
<1>5. Logged(events', FALSE)
  BY <1>0, <1>1, <1>2, HeaderLogged DEF SystemEvents
<1>6. Log'
  <2>1. Logged(events, FALSE)'
    BY <1>5, SameDay DEF Logged
  <2>2. Logged(events, qDone)'
    BY <1>1, <1>2, <2>1 DEF Logged
  <2>3. sent' = 2 + 2 * NLocates + emitted' + (IF qDone' THEN 1 ELSE 0)
    <3>1. NLocates \in Nat
      BY <1>0, Calendar
    <3> QED BY <1>1, <1>2, <1>3, <3>1
  <2> QED BY <1>2, <2>2, <2>3 DEF Log
<1>7. PairKept'
  BY <1>1, <1>2 DEF DayInv, PairKept
<1> QED BY <1>3, <1>4, <1>6, <1>7 DEF DayInv

LEMMA TickKeeps ==
  ASSUME DayInv, config' = config, Tick, Quiet
  PROVE  DayInv'
<1>0. config \in Configs
  BY DEF DayInv, AllKept
<1>1. PICK gap \in 0 .. GapMax :
        LET now == Smaller(ts + gap, CloseTs - 1)
            opens == ~qDone /\ now >= OpenTs
        IN  /\ ts' = IF opens THEN OpenTs ELSE now
            /\ resume' = now
            /\ pc' = IF opens THEN "open" ELSE "step"
  BY DEF Tick
<1> DEFINE now == Smaller(ts + gap, CloseTs - 1)
           opens == ~qDone /\ now >= OpenTs
<1>2. /\ ts' = IF opens THEN OpenTs ELSE now
      /\ resume' = now
      /\ pc' = IF opens THEN "open" ELSE "step"
  BY <1>1
<1>3. /\ pc = "mix" /\ emitted < MixBudget
      /\ qDone' = qDone /\ pair' = pair /\ sent' = sent /\ events' = events /\ emitted' = emitted
  BY DEF Tick
<1>4. /\ StartTs \in Nat /\ OpenTs \in Nat /\ CloseTs \in Nat
      /\ StartTs <= OpenTs /\ OpenTs < CloseTs
  BY <1>0, Calendar
<1>5. /\ ts \in StartTs .. CloseTs /\ qDone \in BOOLEAN /\ (qDone => ts >= OpenTs)
  BY DEF DayInv, Clock
<1>6. gap \in Nat
  <2>1. ASSUME NEW top, NEW g \in 0 .. top PROVE g \in Int /\ g >= 0
    BY <2>1
  <2>2. gap \in Int /\ gap >= 0
    BY <2>1
  <2> QED BY <2>2
<1>7. /\ now \in StartTs .. CloseTs - 1
      /\ qDone => now >= OpenTs
  BY <1>4, <1>5, <1>6 DEF Smaller
<1> HIDE DEF now
<1>8. Clock'
  <2>1. StartTs' = StartTs /\ OpenTs' = OpenTs /\ CloseTs' = CloseTs
    BY SameDay
  <2>2. CASE opens
    BY <1>2, <1>3, <1>4, <1>5, <1>7, <2>1, <2>2 DEF Clock
  <2>3. CASE ~opens
    BY <1>2, <1>3, <1>4, <1>5, <1>7, <2>1, <2>3 DEF Clock
  <2> QED BY <2>2, <2>3
<1>9. AllKept' /\ Counts'
  BY <1>3, QuietKeeps
<1>10. Log'
  <2>1. Logged(events, qDone)' <=> Logged(events, qDone)
    BY <1>3, SameDay DEF Logged
  <2> QED BY <1>2, <1>3, <2>1 DEF DayInv, Log
<1>11. PairKept'
  BY <1>3 DEF DayInv, PairKept
<1> QED BY <1>8, <1>9, <1>10, <1>11 DEF DayInv

LEMMA OpenKeeps ==
  ASSUME DayInv, config' = config, OpenEvent, Quiet
  PROVE  DayInv'
<1>0. config \in Configs
  BY DEF DayInv, AllKept
<1>1. /\ pc = "open" /\ ~qDone /\ ts = OpenTs
      /\ resume \in StartTs .. CloseTs - 1 /\ resume >= OpenTs
      /\ sent = 2 + 2 * NLocates + emitted + (IF qDone THEN 1 ELSE 0)
      /\ Logged(events, qDone)
  BY DEF DayInv, Log, Clock, OpenEvent
<1>2. /\ pc' = IF emitted < MixBudget THEN "step" ELSE "mix"
      /\ events' = SystemEvents(<<"Q">>, ts)
      /\ sent' = sent + 1 /\ qDone' = TRUE /\ ts' = resume /\ resume' = resume
      /\ pair' = <<>>
  BY DEF OpenEvent
<1>3. AllKept' /\ Counts' /\ emitted' = emitted /\ emitted \in Nat
  BY <1>2, QuietKeeps
<1>4. /\ StartTs \in Nat /\ OpenTs \in Nat /\ CloseTs \in Nat
      /\ StartTs <= OpenTs /\ OpenTs < CloseTs /\ NLocates \in Nat
  BY <1>0, Calendar
<1>5. Clock'
  <2>1. StartTs' = StartTs /\ OpenTs' = OpenTs /\ CloseTs' = CloseTs
    BY SameDay
  <2>2. pc' # "open"
    BY <1>2
  <2>3. qDone' \in BOOLEAN
    BY <1>2
  <2>4. ts' \in StartTs .. CloseTs /\ resume' \in StartTs .. CloseTs - 1 /\ ts' >= OpenTs
    BY <1>1, <1>2, <1>4
  <2> QED BY <2>1, <2>2, <2>3, <2>4 DEF Clock
<1>6. Logged(events', TRUE)
  <2>1. OpenTs \in OpenTs .. CloseTs
    BY <1>4
  <2>2. Logged(events, FALSE)
    BY <1>1 DEF Logged
  <2> QED BY <1>0, <1>1, <1>2, <2>1, <2>2, OpenLogged DEF SystemEvents
<1>7. Log'
  <2>1. Logged(events, qDone)'
    BY <1>2, <1>6, SameDay DEF Logged
  <2>2. sent' = 2 + 2 * NLocates + emitted' + (IF qDone' THEN 1 ELSE 0)
    <3>1. sent = 2 + 2 * NLocates + emitted
      BY <1>1, <1>3, <1>4
    <3> QED BY <1>2, <1>3, <1>4, <3>1
  <2> QED BY <1>2, <2>1, <2>2 DEF Log
<1>8. PairKept'
  BY <1>2 DEF PairKept
<1> QED BY <1>3, <1>5, <1>7, <1>8 DEF DayInv

LEMMA CloseKeeps ==
  ASSUME DayInv, config' = config, Close, Quiet
  PROVE  DayInv'
<1>0. config \in Configs
  BY DEF DayInv, AllKept
<1> DEFINE at == Larger(ts, OpenTs)
           open == SystemEvents(IF Len(Trailer) = 4 THEN <<"Q">> ELSE <<>>, at)
<1>1. /\ pc = "mix" /\ emitted >= MixBudget
      /\ events' = open \o [k \in 1 .. 3 |-> [code |-> <<"M", "E", "C">>[k], ts |-> CloseTs]]
      /\ sent' = sent + Len(Trailer) /\ ts' = CloseTs /\ pc' = "done"
      /\ resume' = resume /\ qDone' = qDone /\ pair' = pair
  BY DEF Close
<1>2. /\ sent = 2 + 2 * NLocates + emitted + (IF qDone THEN 1 ELSE 0)
      /\ Logged(events, qDone)
      /\ emitted \in 0 .. MixBudget
      /\ ts \in StartTs .. CloseTs /\ resume \in StartTs .. CloseTs - 1 /\ qDone \in BOOLEAN
      /\ qDone => ts >= OpenTs
  BY <1>1 DEF DayInv, Log, Clock, Counts
<1>3. /\ StartTs \in Nat /\ OpenTs \in Nat /\ CloseTs \in Nat
      /\ StartTs <= OpenTs /\ OpenTs < CloseTs /\ NLocates \in Nat
      /\ MixBudget \in Nat /\ NMsgs = MixBudget + 2 * NLocates + 6
  BY <1>0, Calendar
<1>4. emitted = MixBudget
  BY <1>1, <1>2, <1>3
<1>5. AllKept' /\ Counts'
  BY <1>1, QuietKeeps
<1>6. Clock'
  <2>1. StartTs' = StartTs /\ OpenTs' = OpenTs /\ CloseTs' = CloseTs
    BY SameDay
  <2>2. pc' # "open"
    BY <1>1
  <2>3. qDone' \in BOOLEAN
    BY <1>1, <1>2
  <2>4. /\ ts' \in StartTs .. CloseTs /\ resume' \in StartTs .. CloseTs - 1 /\ ts' >= OpenTs
    BY <1>1, <1>2, <1>3
  <2> QED BY <2>1, <2>2, <2>3, <2>4 DEF Clock
<1>7. at \in OpenTs .. CloseTs
  BY <1>2, <1>3 DEF Larger
<1>8. Len(<<"M", "E", "C">>) = 3 /\ Len(<<"Q", "M", "E", "C">>) = 4
  OBVIOUS
<1>9. Logged(open, TRUE) /\ sent' = NMsgs
  <2>1. CASE qDone
    <3>1. Len(Trailer) = 3
      BY <1>8, <2>1 DEF Trailer
    <3>2. open = events \o [k \in DOMAIN <<>> |-> [code |-> <<>>[k], ts |-> at]]
      BY <3>1 DEF SystemEvents
    <3>3. [k \in DOMAIN <<>> |-> [code |-> <<>>[k], ts |-> at]] = <<>>
      OBVIOUS
    <3>4. events \in Seq(DayEvent)
      BY <1>2 DEF Logged
    <3>5. open = events
      BY <3>2, <3>3, <3>4, ConcatEmptySeq
    <3>6. Logged(open, TRUE)
      BY <1>2, <2>1, <3>5 DEF Logged
    <3>7. sent' = sent + 3 /\ sent = 2 + 2 * NLocates + MixBudget + 1
      BY <1>1, <1>2, <1>4, <2>1, <3>1
    <3>8. sent' = NMsgs
      BY ONLY <1>3, <3>7
    <3> QED BY <3>6, <3>8
  <2>2. CASE ~qDone
    <3>1. Len(Trailer) = 4
      BY <1>8, <2>2 DEF Trailer
    <3>2. open = events \o [k \in DOMAIN <<"Q">> |-> [code |-> <<"Q">>[k], ts |-> at]]
      BY <3>1 DEF SystemEvents
    <3>3. Logged(events, FALSE)
      BY <1>2, <2>2 DEF Logged
    <3>4. Logged(open, TRUE)
      BY <1>0, <1>7, <3>2, <3>3, OpenLogged
    <3>5. sent' = sent + 4 /\ sent = 2 + 2 * NLocates + MixBudget
      BY <1>1, <1>2, <1>3, <1>4, <2>2, <3>1
    <3>6. sent' = NMsgs
      BY ONLY <1>3, <3>5
    <3> QED BY <3>4, <3>6
  <2> QED BY <2>1, <2>2
<1> HIDE DEF open
<1>10. LoggedAll(events')
  BY <1>0, <1>1, <1>9, CloseLogged
<1>11. Log'
  <2>1. LoggedAll(events)'
    BY <1>10, SameDay DEF LoggedAll
  <2> QED BY <1>1, <1>9, <2>1, SameDay DEF Log
<1>12. PairKept'
  BY <1>1 DEF DayInv, PairKept
<1> QED BY <1>5, <1>6, <1>11, <1>12 DEF DayInv

LEMMA DayGoesOn ==
  ASSUME DayInv, [Next]_vars
  PROVE  DayInv'
<1>1. CASE UNCHANGED vars
  <2>1. AllKept' /\ Clock' /\ Counts' /\ Log' /\ PairKept'
    BY <1>1, SameDay DEF vars, clock, counters, DayInv, AllKept, Clock, Counts, Log, PairKept,
                         Paired, Logged, LoggedAll
  <2> QED BY <2>1 DEF DayInv
<1>2. ASSUME NEW l \in Locates, Wrote(l), emitted < MixBudget, config' = config, PairKept',
             \/ pc = "step" /\ pc' = "mix"
             \/ pc = "open" /\ pc' = "open"
      PROVE  DayInv'
  BY <1>2, WroteKeeps DEF DayInv
<1> QED BY <1>1, <1>2, Steps, HeaderKeeps, TickKeeps, OpenKeeps, CloseKeeps

LEMMA DayHolds == Spec => []DayInv
<1>1. Init => DayInv
  BY DayBegins
<1>2. DayInv /\ [Next]_vars => DayInv'
  BY DayGoesOn
<1> QED BY <1>1, <1>2, PTL DEF Spec

-----------------------------------------------------------------------------
(* The ledgers and the day                                                 *)

\* What the inductive invariant says of a locate, in the words of the properties.
LEMMA KeptLists ==
  ASSUME NEW n, NEW loc, Kept(loc, n)
  PROVE  /\ ToSet(loc.live) = DOMAIN loc.book.orders
         /\ DOMAIN loc.liveIdx = ToSet(loc.live)
         /\ \A i \in DOMAIN loc.live : loc.liveIdx[loc.live[i]] = i
         /\ ToSet(loc.live) \cap loc.dead = {}
<1>1. /\ Listed(loc.live, loc.liveIdx, DOMAIN loc.book.orders)
      /\ loc.dead \cap DOMAIN loc.book.orders = {}
  BY DEF Kept
<1>2. DOMAIN loc.live = 1 .. Len(loc.live)
  BY <1>1, LenProperties DEF Listed
<1>3. ToSet(loc.live) = DOMAIN loc.book.orders
  BY LiveAreListed
<1> QED BY <1>1, <1>2, <1>3 DEF Listed

LEMMA SoundInStep ==
  ASSUME NEW b, Sound(b)
  PROVE  /\ \A s \in Sides : \A px \in DOMAIN b.sides[s] :
              LET fifo == b.sides[s][px]
              IN  /\ fifo # <<>>
                  /\ \A i \in DOMAIN fifo :
                       /\ fifo[i].qty > 0
                       /\ PosOf(fifo, fifo[i].id) = i
                       /\ Knows(b, fifo[i].id)
                       /\ b.orders[fifo[i].id] = [side |-> s, px |-> px]
         /\ \A id \in DOMAIN b.orders : PosOf(FifoOf(b, id), id) # 0
<1>1. ASSUME NEW s \in Sides, NEW px \in DOMAIN b.sides[s]
      PROVE  LET fifo == b.sides[s][px]
             IN  /\ fifo # <<>>
                 /\ \A i \in DOMAIN fifo :
                      /\ fifo[i].qty > 0
                      /\ PosOf(fifo, fifo[i].id) = i
                      /\ Knows(b, fifo[i].id)
                      /\ b.orders[fifo[i].id] = [side |-> s, px |-> px]
  <2> DEFINE fifo == b.sides[s][px]
             ids == Named(b, s, px)
  <2>1. px \in Nat /\ fifo # <<>> /\ fifo = Level(b, s, px)
    BY DEF Sound, Shaped, Level
  <2>2. Lists(fifo, ids)
    BY <2>1 DEF Sound
  <2> HIDE DEF fifo, ids
  <2>3. fifo \in LotSeq
    BY <2>2 DEF Lists
  <2>4. /\ DOMAIN fifo = 1 .. Len(fifo)
        /\ \A i \in 1 .. Len(fifo) : fifo[i].qty \in Nat \ {0}
    BY <2>3, LotSeqFacts
  <2>5. ASSUME NEW i \in DOMAIN fifo
        PROVE  /\ fifo[i].qty > 0
               /\ PosOf(fifo, fifo[i].id) = i
               /\ Knows(b, fifo[i].id)
               /\ b.orders[fifo[i].id] = [side |-> s, px |-> px]
    <3>1. fifo[i].id \in ids /\ PosOf(fifo, fifo[i].id) = i
      BY <2>2, <2>4, PlaceIs
    <3>2. fifo[i].qty > 0
      BY <2>4
    <3> QED BY <3>1, <3>2 DEF ids, Named, Knows, At
  <2> QED BY <2>1, <2>5 DEF fifo
<1>2. ASSUME NEW id \in DOMAIN b.orders PROVE PosOf(FifoOf(b, id), id) # 0
  BY Resting
<1> QED BY <1>1, <1>2

LEMMA DayTells ==
  ASSUME DayInv
  PROVE  LedgersAgree /\ DayComplete
<1>0. config \in Configs /\ AllKept
  BY DEF DayInv, AllKept
<1>1. /\ MixBudget \in Nat /\ NMsgs = MixBudget + 2 * NLocates + 6 /\ NLocates \in Nat
      /\ StartTs \in Nat /\ OpenTs \in Nat /\ CloseTs \in Nat
      /\ StartTs <= OpenTs /\ OpenTs < CloseTs
  BY <1>0, Calendar
<1>2. TypeOK
  <2>1. pc \in {"header", "mix", "step", "open", "done", "panicked"}
    BY DEF DayInv, Log
  <2>2. ts \in StartTs .. CloseTs /\ resume \in StartTs .. CloseTs - 1
    BY DEF DayInv, Clock
  <2>3. /\ emitted \in 0 .. MixBudget
        /\ nextRef \in 1 .. emitted + 1 /\ nextMatch \in 1 .. emitted + 1
    BY DEF DayInv, Counts
  <2>4. nextRef \in 1 .. MixBudget + 1 /\ nextMatch \in 1 .. MixBudget + 1
    BY <1>1, <2>3
  <2>5. sent \in 0 .. NMsgs
    <3>1. pc = "header" => sent = 0
      BY DEF DayInv, Log
    <3>2. pc = "done" => sent = NMsgs
      BY DEF DayInv, Log
    <3>3. pc \in {"mix", "step", "open"} =>
            sent = 2 + 2 * NLocates + emitted + (IF qDone THEN 1 ELSE 0)
      BY DEF DayInv, Log
    <3>4. pc \in {"header", "mix", "step", "open", "done"}
      BY DEF DayInv, Log
    <3>5. (IF qDone THEN 1 ELSE 0) \in 0 .. 1
      OBVIOUS
    <3> DEFINE q == IF qDone THEN 1 ELSE 0
    <3> HIDE DEF q
    <3>6. pc \in {"mix", "step", "open"} => sent = 2 + 2 * NLocates + emitted + q
      BY <3>3 DEF q
    <3>7. q \in 0 .. 1
      BY <3>5 DEF q
    <3>8. CASE pc \in {"mix", "step", "open"}
      BY <1>1, <2>3, <3>6, <3>7, <3>8
    <3>9. CASE pc \in {"header", "done"}
      BY <1>1, <3>1, <3>2, <3>9
    <3> QED BY <3>4, <3>8, <3>9
  <2>6. ASSUME NEW l \in Locates
        PROVE  /\ locs[l].mid \in 2 * locs[l].tick .. MaxPrice \div 2
               /\ DOMAIN locs[l].book.orders \subseteq 1 .. nextRef - 1
               /\ locs[l].dead \subseteq 1 .. nextRef - 1
    BY <1>0 DEF AllKept, Kept
  <2> QED BY <2>1, <2>2, <2>3, <2>4, <2>5, <2>6 DEF TypeOK
<1>3. LiveListExact
  <2>1. pc # "panicked"
    BY DEF DayInv, Log
  <2>2. \A l \in Locates : Kept(locs[l], nextRef)
    BY <1>0 DEF AllKept
  <2> QED BY <2>1, <2>2, KeptLists DEF LiveListExact
<1>4. OrdersInStep
  <2>1. \A l \in Locates : Sound(locs[l].book)
    BY <1>0 DEF AllKept, Kept
  <2> QED BY <2>1, SoundInStep DEF OrdersInStep
<1>5. DayComplete
  <2> SUFFICES ASSUME pc = "done"
               PROVE  /\ sent = NMsgs
                      /\ [k \in DOMAIN events |-> events[k].code]
                           = <<"O", "S", "Q", "M", "E", "C">>
                      /\ \A k \in 1 .. 5 : events[k].ts <= events[k+1].ts
                      /\ events[3].ts >= OpenTs
    BY DEF DayComplete
  <2>1. sent = NMsgs /\ LoggedAll(events)
    BY DEF DayInv, Log
  <2>2. DOMAIN events = 1 .. 6
    BY <2>1, LenProperties DEF LoggedAll
  <2>3. [k \in DOMAIN events |-> events[k].code] = <<"O", "S", "Q", "M", "E", "C">>
    <3> DEFINE f == [k \in 1 .. 6 |-> events[k].code]
               g == <<"O", "S", "Q", "M", "E", "C">>
    <3>1. DOMAIN g = 1 .. 6
      OBVIOUS
    <3>2. ASSUME NEW k \in 1 .. 6 PROVE f[k] = g[k]
      <4>1. k \in {1, 2, 3, 4, 5, 6}
        OBVIOUS
      <4> QED BY <2>1, <4>1 DEF LoggedAll
    <3>3. g = [k \in 1 .. 6 |-> g[k]]
      BY <3>1
    <3> HIDE DEF g
    <3>4. f = [k \in 1 .. 6 |-> g[k]]
      BY <3>2
    <3> QED BY <2>2, <3>3, <3>4 DEF g
  <2>4. ASSUME NEW k \in 1 .. 5 PROVE events[k].ts <= events[k+1].ts
    <3>1. k \in {1, 2, 3, 4, 5}
      OBVIOUS
    <3>2. /\ events[1].ts = StartTs /\ events[2].ts = StartTs
          /\ events[3].ts \in OpenTs .. CloseTs
          /\ events[4].ts = CloseTs /\ events[5].ts = CloseTs /\ events[6].ts = CloseTs
      BY <2>1 DEF LoggedAll
    <3>3. CASE k = 1
      BY <1>1, <3>2, <3>3
    <3>4. CASE k = 2
      BY <1>1, <3>2, <3>4
    <3>5. CASE k = 3
      BY <1>1, <3>2, <3>5
    <3>6. CASE k \in {4, 5}
      BY <1>1, <3>2, <3>6
    <3> QED BY <3>1, <3>3, <3>4, <3>5, <3>6
  <2>5. events[3].ts >= OpenTs
    BY <1>1, <2>1 DEF LoggedAll
  <2> QED BY <2>1, <2>3, <2>4, <2>5
<1> QED BY <1>2, <1>3, <1>4, <1>5 DEF LedgersAgree

\* The clock, the counters, the list of live orders with its index, the id map and the
\* FIFOs of every locate tell one story after every message, whatever is drawn; so no
\* assertion of the generator or of its book fails (generator.rs, truth.rs).
THEOREM LedgersStayTogether == Spec => []LedgersAgree
<1>1. DayInv => LedgersAgree
  BY DayTells
<1> QED BY <1>1, DayHolds, PTL

\* A finished day has exactly the messages asked for and its six system events in order
\* at rising times (generator.rs: run, header, open_market).
THEOREM DaysAreComplete == Spec => []DayComplete
<1>1. DayInv => DayComplete
  BY DayTells
<1> QED BY <1>1, DayHolds, PTL

\* The replay only watches the day.
LEMMA ReplayIsADay == ReplaySpec => Spec
<1>1. ReplayInit => Init
  BY DEF ReplayInit
<1>2. [ReplayNext]_replayVars => [Next]_vars
  BY DEF ReplayNext, replayVars
<1> QED BY <1>1, <1>2, PTL DEF ReplaySpec, Spec

-----------------------------------------------------------------------------
(* Which orders are executed                                               *)

LEMMA ExecutedAreHeads ==
  ASSUME DayInv, [Next]_vars, emitted' # emitted, msg'.type \in {"E", "C"}
  PROVE  LET b == locs[msg'.locate].book
             id == msg'.op.id
         IN  \/ id \in locs[msg'.locate].dead
             \/ \E s \in Sides : ~IsEmpty(b, s) /\ b.sides[s][BestPx(b, s)][1].id = id
<1>1. PICK l \in Locates : Wrote(l)
  BY Steps DEF Quiet, vars
<1>2. PICK type, o, after : Written(l, type, o, after)
  BY <1>1 DEF Wrote
<1>3. msg'.locate = l /\ msg'.type = type /\ msg'.op = o
  BY <1>2 DEF Written
<1>4. type \in {"E", "C"} /\ Writes(l, type, o, after, nextRef')
  BY <1>2, <1>3 DEF Written
<1>5. CASE Misses(l, type, o, after, nextRef')
  <2>1. PICK id \in locs[l].dead, qty \in Nat \ {0} : o = ExecuteOp(id, qty)
    BY <1>4, <1>5 DEF Misses
  <2> QED BY <1>3, <2>1 DEF ExecuteOp
<1>6. CASE Fills(l, type, o, after, nextRef')
  <2>1. PICK id \in DOMAIN locs[l].book.orders : \E q \in 1 .. Qty(locs[l].book, id) :
          /\ \E s \in Sides : IsHead(locs[l].book, s, id)
          /\ o = ExecuteOp(id, q)
    BY <1>6 DEF Fills
  <2> QED BY <1>3, <2>1 DEF ExecuteOp, IsHead, HeadOfBest
<1> QED BY <1>4, <1>5, <1>6 DEF Writes, Stays, Rests, Leaves, Shrinks, Moves

\* An execution of a live order is one of the head of a best level, at the open too,
\* when the other half of its pair has just emptied the level of the other side
\* (generator.rs: execute, open_market).
THEOREM OnlyHeadsExecuted == Spec => HeadsExecuted
<1>1. DayInv /\ [Next]_vars =>
        [emitted' # emitted /\ msg'.type \in {"E", "C"} =>
           LET b == locs[msg'.locate].book
               id == msg'.op.id
           IN  \/ id \in locs[msg'.locate].dead
               \/ \E s \in Sides : ~IsEmpty(b, s) /\ b.sides[s][BestPx(b, s)][1].id = id]_vars
  BY ExecutedAreHeads
<1> QED BY <1>1, DayHolds, PTL DEF Spec, HeadsExecuted

-----------------------------------------------------------------------------
(* Where quotes may cross                                                  *)

\* A bid stands below an ask, unless that ask is at the floor or the bid is the
\* placeholder of a cent over a finer tick.
Apart(loc) ==
  \A p \in PricesOf(loc, "Bid"), q \in PricesOf(loc, "Ask") :
    p < q \/ q <= loc.tick \/ (p = Cent /\ loc.tick < Cent)

\* After the open, or in a day that never crosses, as long as messages are written.
Uncrossed ==
  (qDone \/ ~config.crossedPreopen) /\ emitted < MixBudget => \A l \in Locates : Apart(locs[l])

LEMMA ApartWritten ==
  ASSUME NEW loc, NEW after, NEW n, Kept(loc, n), Apart(loc), after.tick = loc.tick,
         ~CrossingAllowed, PricesWritten(loc, after)
  PROVE  Apart(after)
<1>1. CASE NoNewPrice(loc, after)
  BY <1>1 DEF NoNewPrice, Apart, Sides
<1>2. ASSUME NEW side \in Sides, NEW px \in Nat, FairPrice(loc, side, px),
             NewPrice(loc, after, side, px)
      PROVE  Apart(after)
  <2>1. Fits(loc, side, px)
    BY <1>2 DEF FairPrice
  <2>2. CASE side = "Bid"
    <3>1. /\ PricesOf(after, "Bid") \in SUBSET (PricesOf(loc, "Bid") \cup {px})
          /\ PricesOf(after, "Ask") \in SUBSET PricesOf(loc, "Ask")
      BY <1>2, <2>2 DEF NewPrice, Sides
    <3> QED BY <2>1, <2>2, <3>1 DEF Fits, Apart
  <2>3. CASE side = "Ask"
    <3>1. /\ PricesOf(after, "Bid") \in SUBSET PricesOf(loc, "Bid")
          /\ PricesOf(after, "Ask") \in SUBSET (PricesOf(loc, "Ask") \cup {px})
      BY <1>2, <2>3 DEF NewPrice, Sides
    <3> QED BY <2>1, <2>3, <3>1 DEF Fits, Apart
  <2> QED BY <2>2, <2>3 DEF Sides
<1> QED BY <1>1, <1>2 DEF PricesWritten

\* Two books that are not crossed in their best prices are not crossed at all.
LEMMA NotCrossedIsApart ==
  ASSUME NEW n, NEW loc, Kept(loc, n), ~CrossedLoc(loc)
  PROVE  Apart(loc)
<1> DEFINE b == loc.book
<1>0. Sound(b) /\ "Bid" \in Sides /\ "Ask" \in Sides /\ "Ask" # "Bid"
  BY DEF Kept, Sides
<1> SUFFICES ASSUME NEW p \in PricesOf(loc, "Bid"), NEW q \in PricesOf(loc, "Ask")
             PROVE  p < q
  BY DEF Apart
<1>1. ~IsEmpty(b, "Bid") /\ ~IsEmpty(b, "Ask")
  BY DEF IsEmpty, PricesOf
<1>2. p \in Nat /\ q \in Nat
  BY <1>0 DEF PricesOf, Sound, Shaped
<1>3. BestPx(b, "Bid") \in Nat /\ p <= BestPx(b, "Bid")
  BY <1>0, <1>1, BestIsExtreme DEF PricesOf
<1>4. BestPx(b, "Ask") \in Nat /\ q >= BestPx(b, "Ask")
  BY <1>0, <1>1, BestIsExtreme DEF PricesOf
<1>5. ~(BestPx(b, "Bid") >= BestPx(b, "Ask"))
  BY <1>1 DEF CrossedLoc, Sides
<1> QED BY <1>2, <1>3, <1>4, <1>5

LEMMA ApartIsNotCrossed ==
  ASSUME NEW n, NEW loc, Kept(loc, n), Apart(loc), CrossedLoc(loc)
  PROVE  \/ BestPx(loc.book, "Ask") <= loc.tick
         \/ BestPx(loc.book, "Bid") = PlaceholderPx["Bid"] /\ loc.tick < Cent
<1> DEFINE b == loc.book
           p == BestPx(b, "Bid")
           q == BestPx(b, "Ask")
<1>0. Sound(b) /\ "Bid" \in Sides /\ "Ask" \in Sides
  BY DEF Kept, Sides
<1>1. ~IsEmpty(b, "Bid") /\ ~IsEmpty(b, "Ask") /\ p >= q
  BY DEF CrossedLoc, Sides
<1>2. p \in PricesOf(loc, "Bid") /\ q \in PricesOf(loc, "Ask") /\ p \in Nat /\ q \in Nat
  BY <1>0, <1>1, BestIsExtreme DEF PricesOf
<1>3. p < q \/ q <= loc.tick \/ (p = Cent /\ loc.tick < Cent)
  BY <1>2 DEF Apart
<1>4. PlaceholderPx["Bid"] = Cent
  BY PricesAreValid
<1> QED BY <1>1, <1>2, <1>3, <1>4

\* A message written when nothing may cross leaves every locate apart.
LEMMA WroteApart ==
  ASSUME DayInv, Uncrossed, config' = config, NEW l \in Locates, Wrote(l), emitted < MixBudget,
         qDone \/ ~config.crossedPreopen
  PROVE  \A k \in Locates : /\ Apart(locs'[k]) /\ locs'[k].tick = locs[k].tick
                            /\ qDone' = qDone
<1>1. PICK type, o, after : Written(l, type, o, after)
  BY DEF Wrote
<1>2. AllKept /\ \A k \in Locates : Apart(locs[k])
  BY DEF DayInv, Uncrossed
<1>3. after.tick = locs[l].tick /\ PricesWritten(locs[l], after)
  BY <1>1, <1>2, WritesKept DEF Written, AllKept
<1>4. ~CrossingAllowed
  <2>1. CASE qDone
    <3>1. ts >= OpenTs /\ ts \in Int /\ OpenTs \in Int
      BY <1>2, <2>1, Calendar DEF DayInv, Clock, AllKept
    <3> QED BY <3>1 DEF CrossingAllowed
  <2>2. CASE ~config.crossedPreopen
    BY <2>2 DEF CrossingAllowed
  <2> QED BY <2>1, <2>2
<1>5. Apart(after)
  BY <1>2, <1>3, <1>4, ApartWritten DEF AllKept
<1> QED BY <1>1, <1>2, <1>3, <1>5 DEF Written, AllKept

LEMMA BeginsApart == Init => Uncrossed
<1> SUFFICES ASSUME Init, NEW l \in Locates PROVE Apart(locs[l])
  BY DEF Uncrossed
<1>1. PICK base \in [Locates -> Bases] :
        locs = [k \in Locates |-> NewLocate(base[k], config.subPenny)]
  BY DEF Init
<1>2. base[l] \in Bases /\ locs[l] = NewLocate(base[l], config.subPenny)
  BY <1>1
<1>3. \A s \in Sides : PricesOf(locs[l], s) = {}
  BY <1>2, NewIsKept
<1> QED BY <1>3 DEF Apart, Sides

LEMMA StaysApart ==
  ASSUME DayInv, Uncrossed, [Next]_vars
  PROVE  Uncrossed'
<1>0. config' = config /\ MixBudget' = MixBudget
  BY Steps, SameDay
<1>1. CASE UNCHANGED <<locs, emitted, qDone>>
  BY <1>0, <1>1 DEF Uncrossed, Apart, PricesOf
<1>2. ASSUME NEW l \in Locates, Wrote(l), emitted < MixBudget
      PROVE  Uncrossed'
  <2>1. PICK type, o, after : Written(l, type, o, after)
    BY <1>2 DEF Wrote
  <2>2. qDone' = qDone
    BY <2>1 DEF Written
  <2>3. qDone \/ ~config.crossedPreopen => \A k \in Locates : Apart(locs'[k])
    BY <1>0, <1>2, WroteApart
  <2>4. qDone \/ ~config.crossedPreopen => (\A k \in Locates : Apart(locs[k]))'
    BY <2>3 DEF Apart, PricesOf
  <2> QED BY <1>0, <2>2, <2>4 DEF Uncrossed
<1>3. CASE OpenEvent /\ Quiet
  <2>1. locs' = locs /\ emitted' = emitted
    BY <1>3 DEF Quiet
  <2>2. SUFFICES ASSUME emitted < MixBudget, NEW l \in Locates
                 PROVE  Apart(locs[l])
    BY <1>0, <2>1 DEF Uncrossed, Apart, PricesOf
  <2>3. emitted \in Nat /\ MixBudget \in Nat /\ Kept(locs[l], nextRef)
    BY Calendar DEF DayInv, AllKept, Counts
  <2>4. CrossedLocates = {}
    BY <1>3, <2>2, <2>3 DEF OpenEvent, OpenEnds
  <2>5. ~CrossedLoc(locs[l])
    BY <2>4 DEF CrossedLocates
  <2> QED BY <2>3, <2>5, NotCrossedIsApart
<1>4. Header \/ Tick \/ Close => qDone' = qDone
  BY DEF Header, Tick, Close
<1>5. UNCHANGED vars => UNCHANGED <<locs, emitted, qDone>>
  BY DEF vars
<1>6. Quiet => locs' = locs /\ emitted' = emitted
  BY DEF Quiet
<1> QED BY <1>1, <1>2, <1>3, <1>4, <1>5, <1>6, Steps

LEMMA UncrossedHolds == Spec => []Uncrossed
<1>1. Init => Uncrossed
  BY BeginsApart
<1>2. DayInv /\ Uncrossed /\ [Next]_vars => Uncrossed'
  BY StaysApart
<1> QED BY <1>1, <1>2, DayHolds, PTL DEF Spec

LEMMA CrossedOnlyThere ==
  ASSUME DayInv, Uncrossed, [Next]_vars, emitted' # emitted, qDone \/ ~config.crossedPreopen,
         NEW k \in Locates, CrossedLoc(locs'[k])
  PROVE  \/ BestPx(locs'[k].book, "Ask") <= locs[k].tick
         \/ BestPx(locs'[k].book, "Bid") = PlaceholderPx["Bid"] /\ locs[k].tick < Cent
<1>1. PICK l \in Locates :
        /\ Wrote(l) /\ emitted < MixBudget /\ config' = config
        /\ \/ pc = "step" /\ pc' = "mix"
           \/ pc = "open" /\ pc' = "open"
  BY Steps DEF Quiet, vars
<1>2. Apart(locs'[k]) /\ locs'[k].tick = locs[k].tick
  BY <1>1, WroteApart
<1>3. Kept(locs'[k], nextRef')
  BY <1>1, WroteKeeps DEF AllKept
<1> QED BY <1>2, <1>3, ApartIsNotCrossed

\* A message written after the open, or in a day without crossed_preopen, leaves no book
\* locked or crossed, except over an ask at the floor or under a placeholder bid
\* (generator.rs: price_for, open_market).
THEOREM NoQuoteCrosses == Spec => CrossedOnlyAtFloor
<1>1. DayInv /\ Uncrossed /\ [Next]_vars =>
        [emitted' # emitted /\ (qDone \/ ~config.crossedPreopen) =>
           \A l \in Locates :
             CrossedLoc(locs'[l]) =>
               \/ BestPx(locs'[l].book, "Ask") <= locs[l].tick
               \/ BestPx(locs'[l].book, "Bid") = PlaceholderPx["Bid"] /\ locs[l].tick < Cent]_vars
  BY CrossedOnlyThere
<1> QED BY <1>1, DayHolds, UncrossedHolds, PTL DEF Spec, CrossedOnlyAtFloor

-----------------------------------------------------------------------------
(* Which prices are positive                                               *)


LEMMA StaysPositive ==
  ASSUME DayInv, Shallow, PricesPositive, [Next]_vars
  PROVE  PricesPositive'
<1>1. CASE locs' = locs
  BY <1>1 DEF PricesPositive
<1>2. ASSUME NEW l \in Locates, Wrote(l)
      PROVE  PricesPositive'
  <2>1. PICK type, o, after : Written(l, type, o, after)
    BY <1>2 DEF Wrote
  <2>2. AllKept
    BY DEF DayInv
  <2>3. PricesWritten(locs[l], after)
    BY <2>1, <2>2, WritesKept DEF Written, AllKept
  <2>4. \A s \in Sides : \A p \in PricesOf(locs[l], s) : p > 0
    BY DEF PricesPositive, PricesOf
  <2>5. \A s \in Sides : \A p \in PricesOf(after, s) : p > 0
    <3>1. CASE NoNewPrice(locs[l], after)
      BY <2>4, <3>1 DEF NoNewPrice
    <3>2. ASSUME NEW side \in Sides, NEW px \in Nat, FairPrice(locs[l], side, px),
                 NewPrice(locs[l], after, side, px)
          PROVE  \A s \in Sides : \A p \in PricesOf(after, s) : p > 0
      <4>1. px > 0
        BY <3>2 DEF FairPrice
      <4> QED BY <2>4, <3>2, <4>1 DEF NewPrice
    <3> QED BY <2>3, <3>1, <3>2 DEF PricesWritten
  <2>6. ASSUME NEW k \in Locates, NEW s \in Sides, NEW p \in DOMAIN locs'[k].book.sides[s]
        PROVE  p > 0
    <3>1. CASE k = l
      <4>1. locs'[k] = after
        BY <2>1, <2>2, <3>1 DEF Written, AllKept
      <4> QED BY <2>5, <4>1 DEF PricesOf
    <3>2. CASE k # l
      <4>1. locs'[k] = locs[k]
        BY <2>1, <2>2, <3>2 DEF Written, AllKept
      <4> QED BY <4>1 DEF PricesPositive
    <3> QED BY <3>1, <3>2
  <2> QED BY <2>6 DEF PricesPositive
<1> QED BY <1>1, <1>2, Steps DEF Quiet, vars

LEMMA BeginsPositive == Init => PricesPositive
<1> SUFFICES ASSUME Init, NEW l \in Locates PROVE \A s \in Sides : DOMAIN locs[l].book.sides[s] = {}
  BY DEF PricesPositive
<1>1. PICK base \in [Locates -> Bases] :
        locs = [k \in Locates |-> NewLocate(base[k], config.subPenny)]
  BY DEF Init
<1>2. base[l] \in Bases /\ locs[l] = NewLocate(base[l], config.subPenny)
  BY <1>1
<1> QED BY <1>2, NewIsKept DEF PricesOf

\* Every price of a generated book is positive, as lib.rs:28-29 promises, if a pre-open
\* order crosses by no more than two ticks, in particular in every day without
\* crossed_preopen; price_for draws up to three, and then the promise can fail.
THEOREM PositiveIfShallow == Spec => [](Shallow => PricesPositive)
<1>1. Init => (Shallow => PricesPositive)
  BY BeginsPositive
<1>2. DayInv /\ (Shallow => PricesPositive) /\ [Next]_vars => (Shallow => PricesPositive)'
  <2>1. Shallow' <=> Shallow
    BY DEF Shallow
  <2> QED BY <2>1, StaysPositive
<1> QED BY <1>1, <1>2, DayHolds, PTL DEF Spec

-----------------------------------------------------------------------------
(* The replay.  A reference book mirrors the truth; what its module says   *)
(* of sequences, orders and errors is what ours says.                      *)

Mirror(b) == [levels |-> b.sides, ids |-> b.orders]

LEMMA SameWords ==
  /\ Ref!Sides = Sides /\ Ref!EmptyMap = EmptyMap
  /\ \A m, k, v : Ref!With(m, k, v) = With(m, k, v) /\ Ref!Without(m, k) = Without(m, k)
  /\ \A id, qty : Ref!Order(id, qty) = Order(id, qty)
  /\ \A f, i : Ref!RemoveAt(f, i) = RemoveAt(f, i)
BY DEF Sides, Ref!Sides, EmptyMap, Ref!EmptyMap, With, Ref!With, Without, Ref!Without,
       Order, Ref!Order, RemoveAt, Ref!RemoveAt

LEMMA SameFifos ==
  ASSUME NEW f, NEW id
  PROVE  /\ Ref!PosOf(f, id) = PosOf(f, id)
         /\ Ref!LevelQty(f) = LevelQty(f)
<1>1. Ref!PosOf(f, id) = PosOf(f, id)
  BY DEF PosOf, Ref!PosOf, SelectInSeq, Ref!SelectInSeq, Min, Ref!Min
<1>2. Ref!LevelQty(f) = LevelQty(f)
  BY DEF LevelQty, Ref!LevelQty, QtyOfFirst, Ref!QtyOfFirst
<1> QED BY <1>1, <1>2

LEMMA SameOrders ==
  /\ \A S, side : Ref!InPriority(S, side) = InPriority(S, side)
  /\ \A S : Ref!Ascending(S) = Ascending(S)
  /\ \A S : Ref!Max(S) = Max(S) /\ Ref!Min(S) = Min(S)
<1>1. \A S, side : Ref!InPriority(S, side) = InPriority(S, side)
  <2>1. \A S : Ref!Cardinality(S) = Cardinality(S)
    BY DEF Cardinality, Ref!Cardinality
  <2>2. \A side, p, q : Ref!Better(side, p, q) = Better(side, p, q)
    BY DEF Better, Ref!Better
  <2> DEFINE RefAhead(S, side, p) == Ref!Cardinality({q \in S : Ref!Better(side, q, p)})
  <2>3. ASSUME NEW S, NEW side, NEW p PROVE RefAhead(S, side, p) = Ahead(S, side, p)
    <3>1. {q \in S : Ref!Better(side, q, p)} = {q \in S : Better(side, q, p)}
      BY <2>2
    <3> QED BY <2>1, <3>1 DEF Ahead
  <2>4. ASSUME NEW S, NEW side PROVE Ref!InPriority(S, side) = InPriority(S, side)
    <3>1. Ref!InPriority(S, side)
            = [k \in 1 .. Ref!Cardinality(S) |-> CHOOSE p \in S : RefAhead(S, side, p) = k - 1]
      BY DEF Ref!InPriority
    <3>2. InPriority(S, side)
            = [k \in 1 .. Cardinality(S) |-> CHOOSE p \in S : Ahead(S, side, p) = k - 1]
      BY DEF InPriority, Ahead
    <3> HIDE DEF RefAhead
    <3> QED BY <2>1, <2>3, <3>1, <3>2
  <2> QED BY <2>4
<1>2. \A S : Ref!Ascending(S) = Ascending(S)
  BY <1>1 DEF Ascending, Ref!Ascending
<1>3. \A S : Ref!Max(S) = Max(S) /\ Ref!Min(S) = Min(S)
  BY DEF Max, Ref!Max, Min, Ref!Min
<1> QED BY <1>1, <1>2, <1>3

LEMMA SameReads ==
  /\ \A px, f : Ref!LevelTuple(px, f) = LevelTuple(px, f)
  /\ \A px, f : Ref!HashRecords(px, f) = HashRecords(px, f)
  /\ \A s : Ref!FlattenSeq(s) = FlattenSeq(s)
<1>1. \A px, f : Ref!LevelTuple(px, f) = LevelTuple(px, f)
  BY SameFifos DEF LevelTuple, Ref!LevelTuple
<1>2. \A px, f : Ref!HashRecords(px, f) = HashRecords(px, f)
  BY DEF HashRecords, Ref!HashRecords
<1>3. \A s : Ref!FlattenSeq(s) = FlattenSeq(s)
  BY DEF FlattenSeq, Ref!FlattenSeq
<1> QED BY <1>1, <1>2, <1>3

\* No error is the absence of one.
LEMMA ErrorsDiffer ==
  /\ Ref!BadQty # Ref!NoError /\ Ref!BadPrice # Ref!NoError
  /\ \A id : Ref!DuplicateId(id) # Ref!NoError
  /\ \A kind, id : Ref!UnknownId(kind, id) # Ref!NoError
  /\ \A id, have, want : Ref!OverExecute(id, have, want) # Ref!NoError
<1> DEFINE E(e) == e.error
<1>1. E(Ref!NoError) = "None" /\ E(Ref!BadQty) = "BadQty" /\ E(Ref!BadPrice) = "BadPrice"
  BY DEF Ref!NoError, Ref!BadQty, Ref!BadPrice
<1>2. /\ \A id : E(Ref!DuplicateId(id)) = "DuplicateId"
      /\ \A kind, id : E(Ref!UnknownId(kind, id)) = "UnknownId"
      /\ \A id, have, want : E(Ref!OverExecute(id, have, want)) = "OverExecute"
  BY DEF Ref!DuplicateId, Ref!UnknownId, Ref!OverExecute
<1> HIDE DEF E
<1> QED BY <1>1, <1>2

LEMMA MirrorFifo ==
  ASSUME NEW b, NEW s, NEW p
  PROVE  Ref!Fifo(Mirror(b), s, p) = Level(b, s, p)
BY DEF Ref!Fifo, Mirror, Level

LEMMA MirrorFind ==
  ASSUME NEW b, Sound(b), NEW id \in DOMAIN b.orders
  PROVE  LET f == Ref!Find(Mirror(b), id)
         IN  /\ Ref!Found(Mirror(b), id)
             /\ f.side = b.orders[id].side /\ f.px = b.orders[id].px
             /\ f.pos = PosOf(FifoOf(b, id), id)
             /\ f.qty = Qty(b, id)
<1> DEFINE at == b.orders[id]
           g == FifoOf(b, id)
<1>1. g = Level(b, at.side, at.px) /\ PosOf(g, id) # 0 /\ Qty(b, id) = g[PosOf(g, id)].qty
  BY Resting
<1>2. Mirror(b).ids = b.orders
  BY DEF Mirror
<1>3. Ref!Fifo(Mirror(b), at.side, at.px) = g
  BY <1>1, MirrorFifo
<1>4. Ref!PosOf(g, id) = PosOf(g, id)
  BY SameFifos
<1> HIDE DEF g, at
<1>5. Ref!Found(Mirror(b), id)
  BY <1>1, <1>2, <1>3, <1>4 DEF Ref!Found, at
<1>6. Ref!Find(Mirror(b), id) =
        [side |-> at.side, px |-> at.px, pos |-> PosOf(g, id), qty |-> g[PosOf(g, id)].qty]
  BY <1>2, <1>3, <1>4 DEF Ref!Find, at
<1> QED BY <1>1, <1>5, <1>6 DEF at, g

LEMMA MirrorLost ==
  ASSUME NEW b, NEW id, id \notin DOMAIN b.orders
  PROVE  ~Ref!Found(Mirror(b), id)
BY DEF Ref!Found, Mirror

LEMMA MirrorPush ==
  ASSUME NEW b, Sound(b), NEW id, NEW side \in Sides, NEW px, NEW qty
  PROVE  Ref!PushTail(Mirror(b), id, side, px, qty) = Mirror(AddTail(b, id, side, px, qty))
<1> DEFINE h == Append(Level(b, side, px), Order(id, qty))
           sides == [b.sides EXCEPT ![side] = With(@, px, h)]
           orders == With(b.orders, id, At(side, px))
           c == AddTail(b, id, side, px, qty)
<1>0. DOMAIN b = {"sides", "orders"}
  BY DEF Sound, Shaped
<1>1. c = [b EXCEPT !.orders = orders, !.sides = sides]
  BY <1>0 DEF AddTail, Level, At
<1>2. Mirror(b).levels = b.sides /\ Mirror(b).ids = b.orders
      /\ DOMAIN Mirror(b) = {"levels", "ids"}
  BY DEF Mirror
<1>3. Append(Ref!Fifo(Mirror(b), side, px), Ref!Order(id, qty)) = h
  BY MirrorFifo, SameWords
<1>4. Ref!PushTail(Mirror(b), id, side, px, qty)
        = [Mirror(b) EXCEPT !.levels = sides, !.ids = orders]
  BY <1>2, <1>3, SameWords DEF Ref!PushTail, At
<1> HIDE DEF sides, orders, c
<1>5. c.sides = sides /\ c.orders = orders
  BY <1>0, <1>1
<1> QED BY <1>4, <1>5 DEF Mirror, c

LEMMA MirrorTakeAll ==
  ASSUME NEW b, Sound(b), NEW id \in DOMAIN b.orders
  PROVE  Ref!Take(Mirror(b), id, Ref!Find(Mirror(b), id), Qty(b, id)) = Mirror(DeleteLive(b, id))
<1> DEFINE at == b.orders[id]
           f == Ref!Find(Mirror(b), id)
           g == FifoOf(b, id)
           h == RemoveAt(g, PosOf(g, id))
           c == DeleteLive(b, id)
<1>0. /\ f.side = at.side /\ f.px = at.px /\ f.pos = PosOf(g, id) /\ f.qty = Qty(b, id)
      /\ DOMAIN b = {"sides", "orders"} /\ DOMAIN b.sides = Sides
      /\ at.side \in Sides /\ at.px \in DOMAIN b.sides[at.side]
      /\ g = b.sides[at.side][at.px]
  BY MirrorFind, Resting DEF Sound, Shaped
<1> DEFINE m == b.sides[at.side]
           n == Changed(m, at.px, h)
           sides == [b.sides EXCEPT ![at.side] = n]
           orders == Without(b.orders, id)
<1>1. c = [b EXCEPT !.orders = orders, !.sides = sides]
  BY <1>0 DEF DeleteLive, Changed
<1>2. Mirror(b).levels = b.sides /\ Mirror(b).ids = b.orders
      /\ DOMAIN Mirror(b) = {"levels", "ids"}
  BY DEF Mirror
<1>3. (IF h = <<>> THEN Without(m, at.px) ELSE [m EXCEPT ![at.px] = h]) = n
  <2>1. [m EXCEPT ![at.px] = h] = With(m, at.px, h)
    BY <1>0 DEF With
  <2> HIDE DEF h, m
  <2> QED BY <2>1 DEF Changed
<1> HIDE DEF f, c, n, h, g
<1>4. Ref!RemoveAt(Mirror(b).levels[f.side][f.px], f.pos) = h
  BY <1>0, <1>2, SameWords DEF h
<1>5. Ref!Without(Mirror(b).levels[f.side], f.px) = Without(m, at.px)
      /\ Ref!Without(Mirror(b).ids, id) = orders
  BY <1>0, <1>2, SameWords
<1>6. Ref!Take(Mirror(b), id, f, f.qty)
        = [Mirror(b) EXCEPT
             !.levels[f.side] = IF Ref!RemoveAt(Mirror(b).levels[f.side][f.px], f.pos) = <<>>
                                THEN Ref!Without(Mirror(b).levels[f.side], f.px)
                                ELSE [Mirror(b).levels[f.side] EXCEPT
                                        ![f.px] = Ref!RemoveAt(Mirror(b).levels[f.side][f.px], f.pos)],
             !.ids = Ref!Without(Mirror(b).ids, id)]
  BY DEF Ref!Take
<1>7. Ref!Take(Mirror(b), id, f, f.qty)
        = [Mirror(b) EXCEPT !.levels[at.side] = n, !.ids = orders]
  <2> HIDE DEF orders
  <2> QED BY <1>0, <1>2, <1>3, <1>4, <1>5, <1>6
<1>8. [Mirror(b) EXCEPT !.levels[at.side] = n, !.ids = orders]
        = [Mirror(b) EXCEPT !.levels = sides, !.ids = orders]
  BY <1>2
<1> HIDE DEF sides, orders
<1>9. c.sides = sides /\ c.orders = orders
  BY <1>0, <1>1
<1> QED BY <1>0, <1>7, <1>8, <1>9 DEF Mirror, c, f

LEMMA MirrorTakePart ==
  ASSUME NEW b, Sound(b), NEW id \in DOMAIN b.orders, NEW q \in 1 .. Qty(b, id) - 1
  PROVE  Ref!Take(Mirror(b), id, Ref!Find(Mirror(b), id), q) = Mirror(ReduceLive(b, id, q))
<1>1. PICK at, f, i, n, c :
        /\ at = b.orders[id] /\ f = Ref!Find(Mirror(b), id) /\ i = PosOf(FifoOf(b, id), id)
        /\ n = Qty(b, id) /\ c = ReduceLive(b, id, q)
  OBVIOUS
<1>2. f.side = at.side /\ f.px = at.px /\ f.pos = i /\ f.qty = n
  BY <1>1, MirrorFind
<1>3. n \in Nat
  BY <1>1, Resting
<1>4. DOMAIN b = {"sides", "orders"}
  BY DEF Sound, Shaped
<1>5. PICK left : left = n - q
  OBVIOUS
<1>6. c = [b EXCEPT !.sides[at.side][at.px][i].qty = left]
  <2>1. q # Qty(b, id)
    <3>1. Qty(b, id) \in Nat
      BY Resting
    <3> QED BY <3>1
  <2>2. c = [b EXCEPT !.sides[at.side][at.px][i].qty = @ - q]
    BY <1>1, <2>1 DEF ReduceLive
  <2>3. FifoOf(b, id) = b.sides[at.side][at.px] /\ Qty(b, id) = FifoOf(b, id)[i].qty
    BY <1>1, Resting
  <2>4. b.sides[at.side][at.px][i].qty - q = left
    BY ONLY <1>1, <1>5, <2>3
  <2> QED BY ONLY <2>2, <2>4
<1>7. PICK sides : sides = [b.sides EXCEPT ![at.side][at.px][i].qty = left]
  OBVIOUS
<1>8. c.sides = sides /\ c.orders = b.orders
  BY ONLY <1>4, <1>6, <1>7
<1>9. q # f.qty
  <2>1. q \in 1 .. n - 1
    BY <1>1
  <2> QED BY ONLY <1>2, <1>3, <2>1
<1>10. PICK m : m = Mirror(b)
  OBVIOUS
<1>11. Ref!Take(m, id, f, q) = [m EXCEPT !.levels[f.side][f.px][f.pos].qty = f.qty - q]
  BY ONLY <1>9 DEF Ref!Take
<1>12. Ref!Take(m, id, f, q) = [m EXCEPT !.levels[at.side][at.px][i].qty = left]
  BY ONLY <1>2, <1>5, <1>11
<1>13. m.levels = b.sides /\ m.ids = b.orders /\ DOMAIN m = {"levels", "ids"}
  BY ONLY <1>10 DEF Mirror
<1>14. [m EXCEPT !.levels[at.side][at.px][i].qty = left] = [m EXCEPT !.levels = sides]
  BY ONLY <1>7, <1>13
<1>15. [m EXCEPT !.levels = sides] = [levels |-> sides, ids |-> b.orders]
  BY ONLY <1>10 DEF Mirror
<1>16. Mirror(c) = [levels |-> sides, ids |-> b.orders]
  BY ONLY <1>8 DEF Mirror
<1> QED BY <1>1, <1>10, <1>12, <1>14, <1>15, <1>16

\* What the replay answers to each kind of message.
Accepts(p, c) == p.book = c /\ p.result.ok = TRUE

Rejects(p, b) == p.book = b /\ p.result.ok = FALSE

Answers(p, b, e, c) ==
  /\ e = Ref!NoError => Accepts(p, c)
  /\ e # Ref!NoError => Rejects(p, b)

LEMMA OutcomeAnswers ==
  ASSUME NEW b, NEW e, NEW c, NEW event
  PROVE  Answers(Ref!Outcome(b, e, c, event), b, e, c)
<1>1. ASSUME e = Ref!NoError PROVE Accepts(Ref!Outcome(b, e, c, event), c)
  BY <1>1 DEF Ref!Outcome, Ref!Ok, Accepts
<1>2. ASSUME e # Ref!NoError PROVE Rejects(Ref!Outcome(b, e, c, event), b)
  BY <1>2 DEF Ref!Outcome, Ref!Err, Rejects
<1> QED BY <1>1, <1>2 DEF Answers

LEMMA PlaysCalled ==
  ASSUME NEW b, NEW o, o.kind # "None"
  PROVE  Play(b, o) = Ref!Called(b, o)
BY DEF Play, NoOp

LEMMA PlaysAdd ==
  ASSUME NEW b, NEW id, NEW side, NEW px, NEW qty
  PROVE  Answers(Play(b, AddOp(id, side, px, qty)), b, Ref!AddError(b, id, side, px, qty),
                 Ref!PushTail(b, id, side, px, qty))
<1>1. PICK o : o = AddOp(id, side, px, qty)
  OBVIOUS
<1>2. o.kind = "Add" /\ o.id = id /\ o.side = side /\ o.px = px /\ o.qty = qty
  BY <1>1 DEF AddOp
<1>3. Play(b, o) = Ref!Added(b, o)
  BY <1>2, PlaysCalled DEF Ref!Called
<1>4. Answers(Ref!Added(b, o), b, Ref!AddError(b, id, side, px, qty),
              Ref!PushTail(b, id, side, px, qty))
  BY <1>2, OutcomeAnswers DEF Ref!Added
<1> QED BY <1>1, <1>3, <1>4

LEMMA PlaysDelete ==
  ASSUME NEW b, NEW id
  PROVE  LET f == Ref!Find(b, id)
         IN  Answers(Play(b, DeleteOp(id)), b, Ref!DeleteError(b, id), Ref!Take(b, id, f, f.qty))
<1>1. PICK o : o = DeleteOp(id)
  OBVIOUS
<1>2. o.kind = "Delete" /\ o.id = id
  BY <1>1 DEF DeleteOp
<1>3. Play(b, o) = Ref!Deleted(b, o)
  BY <1>2, PlaysCalled DEF Ref!Called
<1>4. Answers(Ref!Deleted(b, o), b, Ref!DeleteError(b, id),
              Ref!Take(b, id, Ref!Find(b, id), Ref!Find(b, id).qty))
  BY <1>2, OutcomeAnswers DEF Ref!Deleted
<1> QED BY <1>1, <1>3, <1>4

LEMMA PlaysCancel ==
  ASSUME NEW b, NEW id, NEW qty
  PROVE  LET f == Ref!Find(b, id)
         IN  Answers(Play(b, CancelOp(id, qty)), b, Ref!CancelError(b, id, qty),
                     Ref!Take(b, id, f, IF qty < f.qty THEN qty ELSE f.qty))
<1>1. PICK o : o = CancelOp(id, qty)
  OBVIOUS
<1>2. o.kind = "Cancel" /\ o.id = id /\ o.qty = qty
  BY <1>1 DEF CancelOp
<1>3. Play(b, o) = Ref!Cancelled(b, o)
  BY <1>2, PlaysCalled DEF Ref!Called
<1>4. PICK f : f = Ref!Find(b, id)
  OBVIOUS
<1>5. Answers(Ref!Cancelled(b, o), b, Ref!CancelError(b, id, qty),
              Ref!Take(b, id, f, IF qty < f.qty THEN qty ELSE f.qty))
  BY <1>2, <1>4, OutcomeAnswers DEF Ref!Cancelled
<1> QED BY <1>1, <1>3, <1>4, <1>5

LEMMA PlaysExecute ==
  ASSUME NEW b, NEW id, NEW qty
  PROVE  Answers(Play(b, ExecuteOp(id, qty)), b, Ref!ExecuteError(b, id, qty),
                 Ref!Take(b, id, Ref!Find(b, id), qty))
<1>1. PICK o : o = ExecuteOp(id, qty)
  OBVIOUS
<1>2. o.kind = "Exec" /\ o.id = id /\ o.qty = qty
  BY <1>1 DEF ExecuteOp
<1>3. Play(b, o) = Ref!Executed(b, o)
  BY <1>2, PlaysCalled DEF Ref!Called
<1>4. Answers(Ref!Executed(b, o), b, Ref!ExecuteError(b, id, qty),
              Ref!Take(b, id, Ref!Find(b, id), qty))
  BY <1>2, OutcomeAnswers DEF Ref!Executed
<1> QED BY <1>1, <1>3, <1>4

LEMMA PlaysReplace ==
  ASSUME NEW b, NEW old, NEW new, NEW px, NEW qty
  PROVE  LET f == Ref!Find(b, old)
         IN  Answers(Play(b, ReplaceOp(old, new, px, qty)), b,
                     Ref!ReplaceError(b, old, new, px, qty),
                     Ref!PushTail(Ref!Take(b, old, f, f.qty), new, f.side, px, qty))
<1>1. PICK o : o = ReplaceOp(old, new, px, qty)
  OBVIOUS
<1>2. o.kind = "Replace" /\ o.id = old /\ o.new = new /\ o.px = px /\ o.qty = qty
  BY <1>1 DEF ReplaceOp
<1>3. Play(b, o) = Ref!Replaced(b, o)
  BY <1>2, PlaysCalled DEF Ref!Called
<1>4. PICK f : f = Ref!Find(b, old)
  OBVIOUS
<1>5. Answers(Ref!Replaced(b, o), b, Ref!ReplaceError(b, old, new, px, qty),
              Ref!PushTail(Ref!Take(b, old, f, f.qty), new, f.side, px, qty))
  BY <1>2, <1>4, OutcomeAnswers DEF Ref!Replaced
<1> QED BY <1>1, <1>3, <1>4, <1>5

-----------------------------------------------------------------------------
(* A book the replay can hold: valid prices, and level totals that fit.    *)

Affordable(b) ==
  \A s \in Sides : \A p \in DOMAIN b.sides[s] : p > 0 /\ LevelQty(b.sides[s][p]) <= MaxQty

LEMMA ReachedLevel ==
  ASSUME NEW b, NEW c, NEW side \in Sides, NEW px, NEW h, LevelChanged(b, c, side, px, h),
         h # <<>>, Affordable(c)
  PROVE  px > 0 /\ LevelQty(h) <= MaxQty
<1>1. c.sides[side] = With(b.sides[side], px, h)
  BY DEF LevelChanged, Changed
<1>2. px \in DOMAIN c.sides[side] /\ c.sides[side][px] = h
  BY <1>1 DEF With
<1> QED BY <1>2 DEF Affordable

\* A message about an order that is not there is rejected.
LEMMA RejectsLost ==
  ASSUME NEW b, NEW id, id \notin DOMAIN b.orders, NEW new, NEW px, NEW qty
  PROVE  /\ Rejects(Play(Mirror(b), DeleteOp(id)), Mirror(b))
         /\ Rejects(Play(Mirror(b), CancelOp(id, qty)), Mirror(b))
         /\ Rejects(Play(Mirror(b), ExecuteOp(id, qty)), Mirror(b))
         /\ Rejects(Play(Mirror(b), ReplaceOp(id, new, px, qty)), Mirror(b))
<1>1. ~Ref!Found(Mirror(b), id)
  BY MirrorLost
<1>2. PICK m : m = Mirror(b)
  OBVIOUS
<1>3. Ref!DeleteError(m, id) # Ref!NoError
  BY <1>1, <1>2, ErrorsDiffer DEF Ref!DeleteError
<1>4. Ref!CancelError(m, id, qty) # Ref!NoError
  BY <1>1, <1>2, ErrorsDiffer DEF Ref!CancelError
<1>5. Ref!ExecuteError(m, id, qty) # Ref!NoError
  BY <1>1, <1>2, ErrorsDiffer DEF Ref!ExecuteError
<1>6. Ref!ReplaceError(m, id, new, px, qty) # Ref!NoError
  BY <1>1, <1>2, ErrorsDiffer DEF Ref!ReplaceError
<1>7. Rejects(Play(m, DeleteOp(id)), m)
  BY <1>3, PlaysDelete DEF Answers
<1>8. Rejects(Play(m, CancelOp(id, qty)), m)
  BY <1>4, PlaysCancel DEF Answers
<1>9. Rejects(Play(m, ExecuteOp(id, qty)), m)
  BY <1>5, PlaysExecute DEF Answers
<1>10. Rejects(Play(m, ReplaceOp(id, new, px, qty)), m)
  BY <1>6, PlaysReplace DEF Answers
<1> QED BY <1>2, <1>7, <1>8, <1>9, <1>10

\* A new order is accepted.
LEMMA AcceptsAdd ==
  ASSUME NEW b, Sound(b), NEW id \in Nat, id \notin DOMAIN b.orders,
         NEW side \in Sides, NEW px \in Nat, NEW qty \in Nat \ {0},
         Affordable(AddTail(b, id, side, px, qty))
  PROVE  Accepts(Play(Mirror(b), AddOp(id, side, px, qty)), Mirror(AddTail(b, id, side, px, qty)))
<1>1. PICK c, h, g : /\ c = AddTail(b, id, side, px, qty) /\ g = Level(b, side, px)
                     /\ h = Append(g, Order(id, qty))
  OBVIOUS
<1>2. LevelChanged(b, c, side, px, h) /\ h # <<>> /\ LevelQty(h) = LevelQty(g) + qty
  BY <1>1, AddedIsSound
<1>3. px > 0 /\ LevelQty(h) <= MaxQty
  BY <1>1, <1>2, ReachedLevel
<1>4. LevelQty(g) \in Nat
  <2>1. g \in LotSeq
    BY <1>1 DEF Sound, Lists
  <2> QED BY <2>1, LotSeqFacts
<1>5. PICK m : m = Mirror(b)
  OBVIOUS
<1>6. Ref!LevelQty(Ref!Fifo(m, side, px)) = LevelQty(g) /\ m.ids = b.orders
  BY <1>1, <1>5, MirrorFifo, SameFifos DEF Mirror
<1>7. ~Ref!WouldOverflow(m, side, px, 0, qty)
  <2>1. MaxQty \in Nat /\ qty \in Nat
    BY ArgumentTypes
  <2> QED BY <1>2, <1>3, <1>4, <1>6, <2>1 DEF Ref!WouldOverflow
<1>8. Ref!AddError(m, id, side, px, qty) = Ref!NoError
  BY <1>3, <1>6, <1>7 DEF Ref!AddError
<1>9. Ref!PushTail(m, id, side, px, qty) = Mirror(c)
  BY <1>1, <1>5, MirrorPush
<1>10. Accepts(Play(m, AddOp(id, side, px, qty)), Mirror(c))
  BY <1>8, <1>9, PlaysAdd DEF Answers
<1> QED BY <1>1, <1>5, <1>10

\* A live order leaves, whole.
LEMMA AcceptsDelete ==
  ASSUME NEW b, Sound(b), NEW id \in DOMAIN b.orders
  PROVE  Accepts(Play(Mirror(b), DeleteOp(id)), Mirror(DeleteLive(b, id)))
<1>1. PICK m, f, c : m = Mirror(b) /\ f = Ref!Find(m, id) /\ c = Mirror(DeleteLive(b, id))
  OBVIOUS
<1>2. Ref!Found(m, id) /\ f.qty = Qty(b, id)
  BY <1>1, MirrorFind
<1>3. Ref!Take(m, id, f, f.qty) = c
  BY <1>1, <1>2, MirrorTakeAll
<1>4. Ref!DeleteError(m, id) = Ref!NoError
  BY <1>2 DEF Ref!DeleteError
<1>5. Accepts(Play(m, DeleteOp(id)), c)
  BY <1>1, <1>3, <1>4, PlaysDelete DEF Answers
<1> QED BY <1>1, <1>5

\* Part of a live order is cancelled.
LEMMA AcceptsCancel ==
  ASSUME NEW b, Sound(b), NEW id \in DOMAIN b.orders, NEW q \in 1 .. Qty(b, id) - 1
  PROVE  Accepts(Play(Mirror(b), CancelOp(id, q)), Mirror(ReduceLive(b, id, q)))
<1>1. PICK m, f, c : m = Mirror(b) /\ f = Ref!Find(m, id) /\ c = Mirror(ReduceLive(b, id, q))
  OBVIOUS
<1>2. Ref!Found(m, id) /\ f.qty = Qty(b, id)
  BY <1>1, MirrorFind
<1>3. q < f.qty /\ q # 0
  <2>1. Qty(b, id) \in Nat
    BY Resting
  <2> QED BY <1>2, <2>1
<1>4. Ref!Take(m, id, f, q) = c
  BY <1>1, MirrorTakePart
<1>5. Ref!CancelError(m, id, q) = Ref!NoError
  BY <1>2, <1>3 DEF Ref!CancelError
<1>6. (IF q < f.qty THEN q ELSE f.qty) = q
  BY <1>3
<1>7. Accepts(Play(m, CancelOp(id, q)), c)
  BY <1>1, <1>4, <1>5, <1>6, PlaysCancel DEF Answers
<1> QED BY <1>1, <1>7

\* Part or all of a live order is executed.
LEMMA AcceptsExecute ==
  ASSUME NEW b, Sound(b), NEW id \in DOMAIN b.orders, NEW q \in 1 .. Qty(b, id)
  PROVE  Accepts(Play(Mirror(b), ExecuteOp(id, q)), Mirror(ReduceLive(b, id, q)))
<1>1. PICK m, f, c : m = Mirror(b) /\ f = Ref!Find(m, id) /\ c = Mirror(ReduceLive(b, id, q))
  OBVIOUS
<1>2. Ref!Found(m, id) /\ f.qty = Qty(b, id)
  BY <1>1, MirrorFind
<1>3. Qty(b, id) \in Nat
  BY Resting
<1>4. Ref!Take(m, id, f, q) = c
  <2>1. CASE q = Qty(b, id)
    <3>1. ReduceLive(b, id, q) = DeleteLive(b, id)
      BY <2>1 DEF ReduceLive
    <3> QED BY <1>1, <2>1, <3>1, MirrorTakeAll
  <2>2. CASE q # Qty(b, id)
    <3>1. q \in 1 .. Qty(b, id) - 1
      BY <1>3, <2>2
    <3> QED BY <1>1, <3>1, MirrorTakePart
  <2> QED BY <2>1, <2>2
<1>5. q # 0 /\ ~(q > f.qty)
  BY <1>2, <1>3
<1>6. Ref!ExecuteError(m, id, q) = Ref!NoError
  BY <1>1, <1>2, <1>5 DEF Ref!ExecuteError
<1>7. Accepts(Play(m, ExecuteOp(id, q)), c)
  BY <1>1, <1>4, <1>6, PlaysExecute DEF Answers
<1> QED BY <1>1, <1>7

\* A live order is replaced.
LEMMA AcceptsReplace ==
  ASSUME NEW b, Sound(b), NEW old \in DOMAIN b.orders, NEW new \in Nat, new \notin DOMAIN b.orders,
         NEW px \in Nat, NEW qty \in Nat \ {0}, Affordable(ReplaceLive(b, old, new, px, qty))
  PROVE  Accepts(Play(Mirror(b), ReplaceOp(old, new, px, qty)),
                 Mirror(ReplaceLive(b, old, new, px, qty)))
<1>1. PICK m, f, at, g, d, c, h :
        /\ m = Mirror(b) /\ f = Ref!Find(m, old) /\ at = b.orders[old] /\ d = DeleteLive(b, old)
        /\ g = Level(d, at.side, px)
        /\ c = AddTail(d, new, at.side, px, qty) /\ h = Append(g, Order(new, qty))
  OBVIOUS
<1>2. Ref!Found(m, old) /\ f.side = at.side /\ f.px = at.px /\ f.qty = Qty(b, old)
  BY <1>1, MirrorFind
<1>3. /\ at.side \in Sides /\ at.px \in Nat /\ FifoOf(b, old) = Level(b, at.side, at.px)
      /\ Qty(b, old) \in Nat
      /\ Qty(b, old) = FifoOf(b, old)[PosOf(FifoOf(b, old), old)].qty
      /\ Lists(FifoOf(b, old), Named(b, at.side, at.px)) /\ old \in Named(b, at.side, at.px)
  BY <1>1, Resting
<1>4. PICK rest : rest = RemoveAt(FifoOf(b, old), PosOf(FifoOf(b, old), old))
  OBVIOUS
<1>5. Sound(d) /\ LevelChanged(b, d, at.side, at.px, rest) /\ new \notin DOMAIN d.orders
  BY <1>1, <1>4, DeletedIsSound
<1>6. LevelQty(rest) = LevelQty(Level(b, at.side, at.px)) - Qty(b, old)
  BY <1>3, <1>4, RemovedLists
<1>7. g = IF px = at.px THEN rest ELSE Level(b, at.side, px)
  BY <1>1, <1>3, <1>5, ChangedLevels
<1>8. LevelChanged(d, c, at.side, px, h) /\ h # <<>> /\ LevelQty(h) = LevelQty(g) + qty
  BY <1>1, <1>3, <1>5, AddedIsSound
<1>9. c = ReplaceLive(b, old, new, px, qty)
  BY <1>1 DEF ReplaceLive
<1>10. px > 0 /\ LevelQty(h) <= MaxQty
  BY <1>3, <1>8, <1>9, ReachedLevel
<1>11. LevelQty(g) \in Nat
  <2>1. g \in LotSeq
    BY <1>1, <1>3, <1>5 DEF Sound, Lists
  <2> QED BY <2>1, LotSeqFacts
<1>12. PICK total, minus : /\ total = LevelQty(Level(b, at.side, px))
                           /\ minus = IF px = f.px THEN f.qty ELSE 0
  OBVIOUS
<1>13. total \in Nat /\ minus \in Nat /\ LevelQty(g) = total - minus
  <2>1. Level(b, at.side, px) \in LotSeq
    BY <1>3 DEF Sound, Lists
  <2>2. total \in Nat
    BY <1>12, <2>1, LotSeqFacts
  <2>3. minus \in Nat
    BY <1>2, <1>3, <1>12
  <2>4. CASE px = at.px
    BY <1>2, <1>6, <1>7, <1>12, <2>2, <2>3, <2>4
  <2>5. CASE px # at.px
    BY <1>2, <1>7, <1>12, <2>2, <2>3, <2>5
  <2> QED BY <2>2, <2>3, <2>4, <2>5
<1>14. Ref!LevelQty(Ref!Fifo(m, f.side, px)) = total /\ m.ids = b.orders
  BY <1>1, <1>2, <1>12, MirrorFifo, SameFifos DEF Mirror
<1>15. ~Ref!WouldOverflow(m, f.side, px, minus, qty)
  <2>1. MaxQty \in Nat /\ qty \in Nat
    BY ArgumentTypes
  <2> QED BY <1>8, <1>10, <1>11, <1>13, <1>14, <2>1 DEF Ref!WouldOverflow
<1>16. Ref!ReplaceError(m, old, new, px, qty) = Ref!NoError
  <2>1. Ref!ReplaceError(m, old, new, px, qty) =
          IF ~Ref!Found(m, old) THEN Ref!UnknownId("Replace", old)
          ELSE IF new \in DOMAIN m.ids THEN Ref!DuplicateId(new)
          ELSE IF qty = 0 THEN Ref!BadQty
          ELSE IF px <= 0 THEN Ref!BadPrice
          ELSE IF Ref!WouldOverflow(m, f.side, px, minus, qty) THEN Ref!BadQty
          ELSE Ref!NoError
    BY <1>1, <1>12 DEF Ref!ReplaceError
  <2>2. ~(px <= 0) /\ qty # 0 /\ new \notin DOMAIN m.ids
    BY <1>10, <1>14
  <2> QED BY <1>2, <1>15, <2>1, <2>2
<1>17. Ref!Take(m, old, f, f.qty) = Mirror(d)
  BY <1>1, <1>2, MirrorTakeAll
<1>18. Ref!PushTail(Mirror(d), new, f.side, px, qty) = Mirror(c)
  BY <1>1, <1>2, <1>3, <1>5, MirrorPush
<1>19. Accepts(Play(m, ReplaceOp(old, new, px, qty)), Mirror(c))
  BY <1>1, <1>16, <1>17, <1>18, PlaysReplace DEF Answers
<1> QED BY <1>1, <1>9, <1>19

-----------------------------------------------------------------------------
(* The replay of a message of the day                                      *)

Expected(l, type, o) ==
  o = NoOp \/ type \in {"A", "F"} \/ Knows(locs[l].book, o.id)

\* The replay of the message leaves book b, and it accepts what it is expected to.
Replays(l, type, o, b) ==
  LET p == Play(Mirror(locs[l].book), o)
  IN  p.book = Mirror(b) /\ (p.result.ok <=> Expected(l, type, o))

LEMMA ReplaysAccepted ==
  ASSUME NEW l, NEW type, NEW o, NEW b, Expected(l, type, o),
         Accepts(Play(Mirror(locs[l].book), o), Mirror(b))
  PROVE  Replays(l, type, o, b)
BY DEF Accepts, Replays

LEMMA ReplaysRejected ==
  ASSUME NEW l, NEW type, NEW o, NEW b, ~Expected(l, type, o),
         Rejects(Play(Mirror(locs[l].book), o), Mirror(b))
  PROVE  Replays(l, type, o, b)
BY DEF Rejects, Replays

\* A message is accepted if it is about no order, a new one or a live one, and the
\* book after it is the one the truth has.
LEMMA WrittenReplays ==
  ASSUME AllKept, NEW l \in Locates, NEW type, NEW o, NEW after, NEW next,
         Writes(l, type, o, after, next), Affordable(after.book)
  PROVE  Replays(l, type, o, after.book)
<1>0. /\ Kept(locs[l], nextRef) /\ Sound(locs[l].book) /\ nextRef \in Nat
      /\ nextRef \notin DOMAIN locs[l].book.orders
  <2>1. Kept(locs[l], nextRef) /\ nextRef \in Nat
    BY DEF AllKept
  <2>2. Sound(locs[l].book) /\ DOMAIN locs[l].book.orders \in SUBSET (1 .. nextRef - 1)
    BY <2>1 DEF Kept
  <2>3. nextRef \notin 1 .. nextRef - 1
    BY <2>1
  <2> QED BY <2>1, <2>2, <2>3
<1> DEFINE was == locs[l]
           b == was.book
<1>1. CASE Stays(l, type, o, after, next)
  <2>1. after = was /\ o = NoOp
    BY <1>1 DEF Stays
  <2>2. Play(Mirror(b), o) = [book |-> Mirror(b), result |-> [ok |-> TRUE, value |-> NoError]]
    BY <2>1 DEF Play, NoResult, Ok
  <2>3. Accepts(Play(Mirror(b), o), Mirror(after.book))
    BY <2>1, <2>2 DEF Accepts
  <2> QED BY <2>1, <2>3, ReplaysAccepted DEF Expected
<1>2. CASE Misses(l, type, o, after, next)
  <2>1. after = was
    BY <1>2 DEF Misses
  <2>2. PICK id \in was.dead, qty \in Nat \ {0} :
          \/ type = "D" /\ o = DeleteOp(id)
          \/ type = "X" /\ o = CancelOp(id, qty)
          \/ type = "U" /\ o = ReplaceOp(id, nextRef, was.mid, qty)
          \/ type \in {"E", "C"} /\ o = ExecuteOp(id, qty)
    BY <1>2 DEF Misses
  <2>3. id \notin DOMAIN b.orders
    BY <1>0 DEF Kept
  <2>4. o.id = id /\ o.kind # "None" /\ type \notin {"A", "F"}
    BY <2>2 DEF DeleteOp, CancelOp, ReplaceOp, ExecuteOp
  <2>5. ~Expected(l, type, o)
    BY <2>3, <2>4 DEF Expected, Knows, NoOp
  <2>6. Rejects(Play(Mirror(b), o), Mirror(b))
    <3> HIDE DEF b
    <3> QED BY <2>2, <2>3, RejectsLost
  <2> QED BY <2>1, <2>5, <2>6, ReplaysRejected
<1>3. CASE Rests(l, type, o, after, next)
  <2>1. PICK loc : \E side \in Sides, px \in Nat, qty \in Nat \ {0} :
          RestsAt(l, o, after, loc, side, px, qty)
    BY <1>3 DEF Rests
  <2>2. PICK side \in Sides, px \in Nat, qty \in Nat \ {0} :
          RestsAt(l, o, after, loc, side, px, qty)
    BY <2>1
  <2>3. side = "Bid" => px <= MaxBid
    BY <2>2 DEF RestsAt, FairPrice
  <2>4. after.book = AddTail(loc.book, nextRef, side, px, qty)
    <3>1. nextRef \in Nat \ {0}
      BY DEF AllKept
    <3> QED BY <2>2, <2>3, <3>1, KeptAdded DEF RestsAt
  <2>5. loc.book = b /\ o = AddOp(nextRef, side, px, qty)
    BY <2>2 DEF RestsAt
  <2>6. Accepts(Play(Mirror(b), AddOp(nextRef, side, px, qty)),
                Mirror(AddTail(b, nextRef, side, px, qty)))
    <3>1. Affordable(AddTail(b, nextRef, side, px, qty))
      BY <2>4, <2>5
    <3> HIDE DEF b
    <3>2. Sound(b) /\ nextRef \notin DOMAIN b.orders
      BY <1>0 DEF b
    <3> QED BY <1>0, <3>1, <3>2, AcceptsAdd
  <2>7. Accepts(Play(Mirror(b), o), Mirror(after.book))
    BY <2>4, <2>5, <2>6
  <2>8. Expected(l, type, o)
    BY <1>3 DEF Rests, Expected
  <2> QED BY <2>7, <2>8, ReplaysAccepted
<1>4. CASE Leaves(l, type, o, after, next)
  <2>1. PICK id \in DOMAIN b.orders :
          /\ o = DeleteOp(id)
          /\ after = TrackRemove([was EXCEPT !.book = DeleteLive(@, id)], id)
    BY <1>4 DEF Leaves
  <2>2. after.book = DeleteLive(b, id)
    BY <1>0, <2>1, KeptRemoved
  <2>3. Accepts(Play(Mirror(b), o), Mirror(after.book))
    BY <1>0, <2>1, <2>2, AcceptsDelete
  <2>4. Expected(l, type, o)
    BY <2>1 DEF DeleteOp, Expected, Knows
  <2> QED BY <2>3, <2>4, ReplaysAccepted
<1>5. CASE Shrinks(l, type, o, after, next)
  <2>1. PICK id \in DOMAIN b.orders : \E k \in 1 .. Qty(b, id) - 1 :
          o = CancelOp(id, k) /\ after = [was EXCEPT !.book = ReduceLive(@, id, k)]
    BY <1>5 DEF Shrinks
  <2>2. PICK k \in 1 .. Qty(b, id) - 1 :
          o = CancelOp(id, k) /\ after = [was EXCEPT !.book = ReduceLive(@, id, k)]
    BY <2>1
  <2>3. after.book = ReduceLive(b, id, k)
    BY <1>0, <2>2, KeptReduced
  <2>4. Accepts(Play(Mirror(b), o), Mirror(after.book))
    BY <1>0, <2>2, <2>3, AcceptsCancel
  <2>5. Expected(l, type, o)
    BY <2>2 DEF CancelOp, Expected, Knows
  <2> QED BY <2>4, <2>5, ReplaysAccepted
<1>6. CASE Moves(l, type, o, after, next)
  <2>1. PICK old \in DOMAIN b.orders, px \in Nat, qty \in Nat \ {0} :
          /\ FairPrice(was, b.orders[old].side, px)
          /\ o = ReplaceOp(old, nextRef, px, qty)
          /\ after = TrackAdd(TrackRemove(
                       [was EXCEPT !.book = ReplaceLive(@, old, nextRef, px, qty)], old), nextRef)
    BY <1>6 DEF Moves
  <2> DEFINE side == b.orders[old].side
             less == TrackRemove([was EXCEPT !.book = DeleteLive(@, old)], old)
  <2>2. after = TrackAdd([less EXCEPT !.book = AddTail(@, nextRef, side, px, qty)], nextRef)
    BY <1>0, <2>1, MovedIsBoth
  <2>3. Kept(less, nextRef) /\ less.book = DeleteLive(b, old)
    BY <1>0, KeptRemoved
  <2>4. side \in Sides /\ (side = "Bid" => px <= MaxBid) /\ nextRef \in Nat \ {0}
    BY <1>0, <2>1, Resting DEF FairPrice, AllKept
  <2> HIDE DEF less, side
  <2>5. after.book = AddTail(less.book, nextRef, side, px, qty)
    BY <2>2, <2>3, <2>4, KeptAdded
  <2>6. after.book = ReplaceLive(b, old, nextRef, px, qty)
    BY <2>3, <2>5 DEF ReplaceLive, side
  <2>7. Accepts(Play(Mirror(b), o), Mirror(after.book))
    BY <1>0, <2>1, <2>6, AcceptsReplace
  <2>8. Expected(l, type, o)
    BY <2>1 DEF ReplaceOp, Expected, Knows
  <2> QED BY <2>7, <2>8, ReplaysAccepted
<1>7. CASE Fills(l, type, o, after, next)
  <2>1. PICK id \in DOMAIN b.orders : \E q \in 1 .. Qty(b, id) :
          o = ExecuteOp(id, q) /\ after = Executed(was, id, q)
    BY <1>7 DEF Fills
  <2>2. PICK q \in 1 .. Qty(b, id) : o = ExecuteOp(id, q) /\ after = Executed(was, id, q)
    BY <2>1
  <2>3. Qty(b, id) \in Nat
    BY <1>0, Resting
  <2>4. after.book = ReduceLive(b, id, q)
    <3>1. CASE q = Qty(b, id)
      <4>1. after = TrackRemove([was EXCEPT !.book = DeleteLive(@, id)], id)
        BY <1>0, <2>2, <3>1, ExecutedIs
      <4>2. after.book = DeleteLive(b, id)
        BY <1>0, <4>1, KeptRemoved
      <4> QED BY <3>1, <4>2 DEF ReduceLive
    <3>2. CASE q # Qty(b, id)
      <4>1. after = [was EXCEPT !.book = ReduceLive(@, id, q)]
        BY <1>0, <2>2, <3>2, ExecutedIs
      <4>2. q \in 1 .. Qty(b, id) - 1
        BY <2>3, <3>2
      <4> QED BY <1>0, <4>1, <4>2, KeptReduced
    <3> QED BY <3>1, <3>2
  <2>5. Accepts(Play(Mirror(b), o), Mirror(after.book))
    BY <1>0, <2>2, <2>4, AcceptsExecute
  <2>6. Expected(l, type, o)
    BY <2>2 DEF ExecuteOp, Expected, Knows
  <2> QED BY <2>5, <2>6, ReplaysAccepted
<1> QED BY <1>1, <1>2, <1>3, <1>4, <1>5, <1>6, <1>7 DEF Writes

-----------------------------------------------------------------------------
(* What a row shows is what the replayed book shows                        *)

LEMMA FirstTwo ==
  ASSUME NEW x, NEW y, NEW z
  PROVE  SubSeq(<<x, y, z>>, 1, 2) = <<x, y>> /\ <<x, y, z>> # <<>> /\ <<x, y, z>>[2] = y
<1>1. PICK S : S = {x, y, z}
  OBVIOUS
<1>2. PICK s : s = <<x, y, z>>
  OBVIOUS
<1>3. s \in Seq(S) /\ Len(s) = 3 /\ s[1] = x /\ s[2] = y
  BY <1>1, <1>2
<1>4. 1 \in 1 .. Len(s) + 1 /\ 2 \in 1 - 1 .. Len(s)
  BY ONLY <1>3
<1>5. PICK u : u = SubSeq(s, 1, 2)
  OBVIOUS
<1>6. u \in Seq(S) /\ Len(u) = 2 - 1 + 1 /\ \A i \in 1 .. 2 - 1 + 1 : u[i] = s[1 + i - 1]
  BY <1>3, <1>4, <1>5, SubSeqProperties
<1>7. Len(u) = 2 /\ u[1] = x /\ u[2] = y
  BY ONLY <1>3, <1>6
<1>8. u = <<x, y>>
  BY ONLY <1>6, <1>7
<1>9. s # <<>>
  BY <1>3, EmptySeq
<1> QED BY <1>2, <1>3, <1>5, <1>8, <1>9

LEMMA FlattenTwo ==
  ASSUME NEW x, NEW y
  PROVE  FlattenSeq([i \in 1 .. 2 |-> IF i = 1 THEN x ELSE y]) = x \o y
<1>1. PICK s : s = [i \in 1 .. 2 |-> IF i = 1 THEN x ELSE y]
  OBVIOUS
<1>2. Len(s) = 2 /\ s[1] = x /\ s[2] = y
  BY <1>1
<1> DEFINE Flat(g) == g = [i \in 1 .. 2 |-> IF i = 1 THEN s[i] ELSE g[i - 1] \o s[i]]
<1>3. FlattenSeq(s) = (CHOOSE g : Flat(g))[2]
  BY <1>2 DEF FlattenSeq
<1>4. \E g : Flat(g)
  <2>1. PICK g : g = [i \in 1 .. 2 |-> IF i = 1 THEN x ELSE x \o y]
    OBVIOUS
  <2>2. g[1] = x /\ 2 - 1 = 1
    BY <2>1
  <2>3. \A i \in 1 .. 2 : i = 1 \/ i = 2
    OBVIOUS
  <2>4. Flat(g)
    BY <1>2, <2>1, <2>2, <2>3
  <2> QED BY <2>4
<1>5. ASSUME NEW g, Flat(g) PROVE g[2] = x \o y
  <2>1. g[1] = s[1]
    BY <1>5
  <2>2. 2 \in 1 .. 2 /\ 2 # 1 /\ 2 - 1 = 1
    OBVIOUS
  <2>3. g[2] = g[2 - 1] \o s[2]
    BY <1>5, <2>2
  <2> QED BY <1>2, <2>1, <2>2, <2>3
<1> HIDE DEF Flat
<1>6. Flat(CHOOSE g : Flat(g))
  BY <1>4
<1> QED BY <1>1, <1>3, <1>5, <1>6

LEMMA BestShown ==
  ASSUME NEW b, Sound(b), NEW s \in Sides
  PROVE  LET best == Ref!Best(Mirror(b), s)
         IN  BestLevel(b, s) = IF best = <<>> THEN <<>> ELSE SubSeq(best, 1, 2)
<1>1. PICK m : m = Mirror(b)
  OBVIOUS
<1>2. m.levels = b.sides
  BY <1>1 DEF Mirror
<1> DEFINE pxs == DOMAIN b.sides[s]
           px == BestPx(b, s)
<1>3. px = IF s = "Bid" THEN Ref!Max(pxs) ELSE Ref!Min(pxs)
  BY SameOrders DEF BestPx
<1>4. Ref!Best(m, s) = IF pxs = {} THEN <<>> ELSE Ref!LevelTuple(px, b.sides[s][px])
  <2> HIDE DEF px
  <2> QED BY <1>2, <1>3 DEF Ref!Best, Ref!LevelView
<1> HIDE DEF px
<1>5. PICK f : f = b.sides[s][px]
  OBVIOUS
<1>6. Ref!LevelTuple(px, f) = <<px, LevelQty(f), Len(f)>>
  BY SameReads DEF LevelTuple
<1>7. BestLevel(b, s) = IF pxs = {} THEN <<>> ELSE <<px, LevelQty(f)>>
  BY <1>5 DEF BestLevel, IsEmpty, px
<1> HIDE DEF pxs
<1>8. CASE pxs = {}
  BY <1>1, <1>4, <1>7, <1>8
<1>9. CASE pxs # {}
  <2>1. Ref!Best(m, s) = <<px, LevelQty(f), Len(f)>>
    BY <1>4, <1>5, <1>6, <1>9
  <2>2. Ref!Best(m, s) # <<>> /\ SubSeq(Ref!Best(m, s), 1, 2) = <<px, LevelQty(f)>>
    BY <2>1, FirstTwo
  <2> QED BY <1>1, <1>7, <1>9, <2>2
<1> QED BY <1>8, <1>9

LEMMA DepthShown ==
  ASSUME NEW b, Sound(b), NEW s \in Sides
  PROVE  LET levels == Ref!L2(Mirror(b), s, RowLevels)
         IN  Depth(b, s, RowLevels) =
               [k \in 1 .. RowLevels |-> IF k \in DOMAIN levels THEN levels[k][2] ELSE 0]
<1>1. PICK m : m = Mirror(b)
  OBVIOUS
<1>2. m.levels = b.sides
  BY <1>1 DEF Mirror
<1>3. PICK side : side = b.sides[s]
  OBVIOUS
<1>4. PICK pxs, n : pxs = InPriority(DOMAIN side, s) /\ n = Len(pxs)
  OBVIOUS
<1>5. DOMAIN side \in SUBSET Int /\ IsFiniteSet(DOMAIN side)
  BY <1>3 DEF Sound, Shaped
<1>6. n \in Nat /\ DOMAIN pxs = 1 .. n
  BY <1>4, <1>5, InPriorityLists
<1>7. Ref!BestFirst(m, s) = pxs
  BY <1>2, <1>3, <1>4, SameOrders DEF Ref!BestFirst
<1>8. PICK least : least = IF RowLevels < n THEN RowLevels ELSE n
  OBVIOUS
<1>9. Ref!L2(m, s, RowLevels) = [k \in 1 .. least |-> Ref!LevelView(m, s, pxs[k])]
  BY <1>4, <1>7, <1>8 DEF Ref!L2
<1>10. PICK levels : levels = [k \in 1 .. least |-> Ref!LevelView(m, s, pxs[k])]
  OBVIOUS
<1>11. ASSUME NEW k \in 1 .. least PROVE levels[k][2] = LevelQty(side[pxs[k]])
  <2>1. levels[k] = Ref!LevelTuple(pxs[k], side[pxs[k]])
    BY <1>2, <1>3, <1>10 DEF Ref!LevelView
  <2>2. levels[k] = <<pxs[k], LevelQty(side[pxs[k]]), Len(side[pxs[k]])>>
    BY <2>1, SameReads DEF LevelTuple
  <2> QED BY <2>2, FirstTwo
<1>12. DOMAIN levels = 1 .. least
  BY <1>10
<1>13. ASSUME NEW k \in 1 .. RowLevels PROVE k \in DOMAIN pxs <=> k \in DOMAIN levels
  BY <1>6, <1>8, <1>12 DEF RowLevels
<1>14. Depth(b, s, RowLevels) =
         [k \in 1 .. RowLevels |-> IF k \in DOMAIN pxs THEN LevelQty(side[pxs[k]]) ELSE 0]
  BY <1>3, <1>4 DEF Depth
<1>15. \A k \in 1 .. RowLevels :
         (IF k \in DOMAIN pxs THEN LevelQty(side[pxs[k]]) ELSE 0)
           = (IF k \in DOMAIN levels THEN levels[k][2] ELSE 0)
  BY <1>11, <1>12, <1>13
<1>16. Depth(b, s, RowLevels) =
         [k \in 1 .. RowLevels |-> IF k \in DOMAIN levels THEN levels[k][2] ELSE 0]
  BY <1>14, <1>15
<1> QED BY <1>1, <1>9, <1>10, <1>16

LEMMA HashShown ==
  ASSUME NEW b
  PROVE  HashedBook(b) = Ref!HashInput(Mirror(b))
<1>1. PICK m : m = Mirror(b)
  OBVIOUS
<1>2. m.levels = b.sides
  BY <1>1 DEF Mirror
<1> DEFINE pxs(s) == Ascending(DOMAIN b.sides[s])
           of(s) == FlattenSeq([k \in DOMAIN pxs(s) |->
                      HashRecords(pxs(s)[k], b.sides[s][pxs(s)[k]])])
           keys(s) == Ref!Ascending(DOMAIN m.levels[s])
           said(s) == Ref!FlattenSeq([k \in DOMAIN keys(s) |->
                        Ref!HashRecords(keys(s)[k], m.levels[s][keys(s)[k]])])
<1>3. ASSUME NEW s PROVE said(s) = of(s)
  <2>1. keys(s) = pxs(s)
    BY <1>2, SameOrders
  <2> HIDE DEF pxs, keys
  <2>2. [k \in DOMAIN keys(s) |-> Ref!HashRecords(keys(s)[k], m.levels[s][keys(s)[k]])]
          = [k \in DOMAIN pxs(s) |-> HashRecords(pxs(s)[k], b.sides[s][pxs(s)[k]])]
    BY <1>2, <2>1, SameReads
  <2> QED BY <2>2, SameReads
<1>4. Ref!HashInput(m) = said("Bid") \o said("Ask")
  BY DEF Ref!HashInput
<1>5. HashedBook(b) = FlattenSeq([i \in 1 .. 2 |-> of(IF i = 1 THEN "Bid" ELSE "Ask")])
  BY DEF HashedBook
<1> HIDE DEF of, said
<1>6. [i \in 1 .. 2 |-> of(IF i = 1 THEN "Bid" ELSE "Ask")]
        = [i \in 1 .. 2 |-> IF i = 1 THEN of("Bid") ELSE of("Ask")]
  <2>1. \A i \in 1 .. 2 : of(IF i = 1 THEN "Bid" ELSE "Ask") = IF i = 1 THEN of("Bid") ELSE of("Ask")
    OBVIOUS
  <2> QED BY <2>1
<1> QED BY <1>1, <1>3, <1>4, <1>5, <1>6, FlattenTwo

-----------------------------------------------------------------------------
(* The replay follows the day                                              *)

\* No level holds more than u32::MAX.
TotalsFit ==
  \A l \in Locates, s \in Sides : \A px \in DOMAIN locs[l].book.sides[s] :
    LevelQty(locs[l].book.sides[s][px]) <= MaxQty

Shows(r, b) ==
  /\ r.best = [s \in Sides |-> BestLevel(b, s)]
  /\ r.depth = [s \in Sides |-> Depth(b, s, RowLevels)]
  /\ r.live = Cardinality(DOMAIN b.orders)
  /\ r.hashed = HashedBook(b)

\* Each replayed book mirrors the truth, and the row is about the truth as it stands.
ReplayInv ==
  /\ DOMAIN replayed = Locates
  /\ \A l \in Locates : replayed[l] = Mirror(locs[l].book)
  /\ row.locate # 0 => row.locate \in Locates /\ Shows(row, locs[row.locate].book)

LEMMA ReplayBegins == ReplayInit => ReplayInv
<1> SUFFICES ASSUME ReplayInit PROVE ReplayInv
  OBVIOUS
<1>1. Init /\ replayed = [l \in Locates |-> Ref!EmptyRefBook]
  BY DEF ReplayInit
<1>2. PICK base \in [Locates -> Bases] :
        locs = [l \in Locates |-> NewLocate(base[l], config.subPenny)]
  BY <1>1 DEF Init
<1>3. ASSUME NEW l \in Locates PROVE replayed[l] = Mirror(locs[l].book)
  <2>1. locs[l].book = EmptyTruth
    BY <1>2 DEF NewLocate
  <2>2. Mirror(EmptyTruth) = Ref!EmptyRefBook
    BY SameWords DEF Mirror, EmptyTruth, Ref!EmptyRefBook
  <2> QED BY <1>1, <2>1, <2>2
<1>4. row.locate = 0
  BY <1>1 DEF Init, RowOf
<1> QED BY <1>1, <1>3, <1>4 DEF ReplayInv

\* A message of the day, with what the replay made of it.
LEMMA FollowWrites ==
  ASSUME DayInv, ReplayInv, PricesPositive', TotalsFit', Follow,
         NEW l \in Locates, Wrote(l)
  PROVE  /\ ReplayInv'
         /\ answer'.ok <=> \/ msg'.op = NoOp \/ msg'.type \in {"A", "F"}
                           \/ Knows(locs[msg'.locate].book, msg'.op.id)
<1>1. PICK type, o, after : Written(l, type, o, after)
  BY DEF Wrote
<1>2. AllKept /\ emitted \in Nat
  BY Calendar DEF DayInv, AllKept, Counts
<1>3. /\ Writes(l, type, o, after, nextRef') /\ DOMAIN locs = Locates
      /\ locs' = [locs EXCEPT ![l] = after] /\ row' = RowOf(l, after.book)
      /\ msg' = [locate |-> l, type |-> type, op |-> o]
      /\ emitted' = emitted + 1
  BY <1>1, <1>2 DEF Written, AllKept
<1>4. locs'[l] = after /\ \A k \in Locates : k # l => locs'[k] = locs[k]
  BY <1>3
<1>5. Affordable(after.book)
  BY <1>4 DEF PricesPositive, TotalsFit, Affordable
<1>6. Replays(l, type, o, after.book)
  BY <1>2, <1>3, <1>5, WrittenReplays
<1>7. PICK p : p = Play(replayed[l], o)
  OBVIOUS
<1>8. p.book = Mirror(after.book) /\ (p.result.ok <=> Expected(l, type, o))
  BY <1>6, <1>7 DEF Replays, ReplayInv
<1>9. replayed' = [replayed EXCEPT ![l] = p.book] /\ answer' = p.result
  <2>1. emitted' # emitted /\ msg'.locate = l /\ msg'.op = o
    BY <1>2, <1>3
  <2> QED BY <1>7, <2>1 DEF Follow
<1>10. DOMAIN replayed' = Locates /\ \A k \in Locates : replayed'[k] = Mirror(locs'[k].book)
  <2>1. DOMAIN replayed = Locates /\ \A k \in Locates : replayed[k] = Mirror(locs[k].book)
    BY DEF ReplayInv
  <2>2. replayed'[l] = Mirror(locs'[l].book)
    BY <1>4, <1>8, <1>9, <2>1
  <2>3. \A k \in Locates : k # l => replayed'[k] = replayed[k]
    BY <1>9, <2>1
  <2> QED BY <1>4, <1>9, <2>1, <2>2, <2>3
<1>11. row'.locate = l /\ Shows(row', locs'[row'.locate].book)
  BY <1>3, <1>4 DEF RowOf, Shows
<1>12. ReplayInv'
  BY <1>10, <1>11 DEF ReplayInv
<1>13. msg'.op = o /\ msg'.type = type /\ msg'.locate = l
  BY <1>3
<1> QED BY <1>8, <1>9, <1>12, <1>13 DEF Expected

LEMMA ReplayGoesOn ==
  ASSUME DayInv, ReplayInv, PricesPositive', TotalsFit', [ReplayNext]_replayVars
  PROVE  /\ ReplayInv'
         /\ emitted' # emitted =>
              (answer'.ok <=> \/ msg'.op = NoOp \/ msg'.type \in {"A", "F"}
                              \/ Knows(locs[msg'.locate].book, msg'.op.id))
<1>1. CASE UNCHANGED replayVars
  BY <1>1 DEF replayVars, vars, ReplayInv, Shows
<1>2. CASE ReplayNext
  <2>1. Follow /\ [Next]_vars
    BY <1>2 DEF ReplayNext
  <2>2. CASE UNCHANGED <<locs, emitted, row>>
    <3>1. UNCHANGED replayed
      BY <2>1, <2>2 DEF Follow
    <3> QED BY <2>2, <3>1 DEF ReplayInv, Shows
  <2>3. CASE \E l \in Locates : Wrote(l)
    BY <2>1, <2>3, FollowWrites
  <2>4. UNCHANGED <<locs, emitted, row>> \/ \E l \in Locates : Wrote(l)
    BY <2>1, Steps DEF Quiet, vars
  <2> QED BY <2>2, <2>3, <2>4
<1> QED BY <1>1, <1>2

LEMMA ReplayHolds == ReplaySpec /\ [](PricesPositive /\ TotalsFit) => [](DayInv /\ ReplayInv)
<1>1. ReplayInit => ReplayInv
  BY ReplayBegins
<1>2. DayInv /\ ReplayInv /\ (PricesPositive /\ TotalsFit)' /\ [ReplayNext]_replayVars => ReplayInv'
  BY ReplayGoesOn
<1>3. ReplaySpec => []DayInv
  BY ReplayIsADay, DayHolds, PTL
<1> QED BY <1>1, <1>2, <1>3, PTL DEF ReplaySpec

LEMMA ShownAgrees == DayInv /\ ReplayInv => SidecarAgrees
<1> SUFFICES ASSUME DayInv, ReplayInv, row.locate # 0
             PROVE  LET b == replayed[row.locate]
                        best(s) == IF Ref!Best(b, s) = <<>> THEN <<>>
                                   ELSE SubSeq(Ref!Best(b, s), 1, 2)
                        levels(s) == Ref!L2(b, s, RowLevels)
                    IN  /\ \A s \in Sides :
                             /\ row.best[s] = best(s)
                             /\ row.depth[s] = [k \in 1 .. RowLevels |->
                                  IF k \in DOMAIN levels(s) THEN levels(s)[k][2] ELSE 0]
                        /\ row.live = Cardinality(DOMAIN b.ids)
                        /\ row.hashed = Ref!HashInput(b)
  BY DEF SidecarAgrees
<1>1. PICK l : l = row.locate
  OBVIOUS
<1>2. PICK b, m : b = locs[l].book /\ m = replayed[l]
  OBVIOUS
<1>3. l \in Locates /\ m = Mirror(b) /\ Shows(row, b)
  BY <1>1, <1>2 DEF ReplayInv
<1>4. Sound(b)
  BY <1>2, <1>3 DEF DayInv, AllKept, Kept
<1>5. ASSUME NEW s \in Sides
      PROVE  /\ row.best[s] = IF Ref!Best(m, s) = <<>> THEN <<>> ELSE SubSeq(Ref!Best(m, s), 1, 2)
             /\ row.depth[s] = [k \in 1 .. RowLevels |->
                  IF k \in DOMAIN Ref!L2(m, s, RowLevels) THEN Ref!L2(m, s, RowLevels)[k][2] ELSE 0]
  <2>1. row.best[s] = BestLevel(b, s)
    BY <1>3 DEF Shows
  <2>2. row.depth[s] = Depth(b, s, RowLevels)
    BY <1>3 DEF Shows
  <2>3. BestLevel(b, s) = IF Ref!Best(m, s) = <<>> THEN <<>> ELSE SubSeq(Ref!Best(m, s), 1, 2)
    BY <1>3, <1>4, BestShown
  <2>4. Depth(b, s, RowLevels) = [k \in 1 .. RowLevels |->
          IF k \in DOMAIN Ref!L2(m, s, RowLevels) THEN Ref!L2(m, s, RowLevels)[k][2] ELSE 0]
    BY <1>3, <1>4, DepthShown
  <2> QED BY <2>1, <2>2, <2>3, <2>4
<1>6. row.live = Cardinality(DOMAIN m.ids)
  BY <1>3 DEF Shows, Mirror
<1>7. row.hashed = Ref!HashInput(m)
  BY <1>3, HashShown DEF Shows
<1> QED BY <1>1, <1>2, <1>5, <1>6, <1>7

\* While prices are positive and level totals fit in a book, every row of the sidecar
\* shows what a replay of the day through the reference book shows after its message:
\* best levels, depth, number of orders and hash input.
THEOREM SidecarIsTrue ==
  ReplaySpec /\ [](PricesPositive /\ TotalsFit) => []SidecarAgrees
BY ReplayHolds, ShownAgrees, PTL

\* While they are, the replay rejects exactly the messages about orders that have left.
THEOREM OnlyDeadRejected ==
  ReplaySpec /\ [](PricesPositive /\ TotalsFit) => RejectsOnlyDead
<1>1. /\ DayInv /\ ReplayInv /\ (PricesPositive /\ TotalsFit)' /\ [ReplayNext]_replayVars
      => [emitted' # emitted =>
            (answer'.ok <=> \/ msg'.op = NoOp \/ msg'.type \in {"A", "F"}
                            \/ Knows(locs[msg'.locate].book, msg'.op.id))]_replayVars
  BY ReplayGoesOn
<1> QED BY <1>1, ReplayHolds, PTL DEF ReplaySpec, RejectsOnlyDead
=============================================================================
