---------------------------- MODULE ReadersProofs ----------------------------
(***************************************************************************)
(* The identities of the features for every price and quantity, the counts *)
(* of the in-memory framer for every input, and what an operation file     *)
(* gives back, for any operations, cut or damage.                          *)
(***************************************************************************)
EXTENDS Readers, DataProofs

-----------------------------------------------------------------------------
(* The features.                                                           *)

\* The type of an L1 snapshot: any integer prices, any quantities.
IsSnapshot(l) ==
  /\ l.bidPx \in Int /\ l.askPx \in Int
  /\ l.bidQty \in Nat /\ l.askQty \in Nat

\* Every snapshot of the stream has that type.
TypeInv == \A i \in DOMAIN snaps : IsSnapshot(snaps[i])

-----------------------------------------------------------------------------

\* The four products of two sums, which is all the algebra the identity needs.
LEMMA Products ==
  ASSUME NEW b \in Int, NEW a \in Int, NEW p \in Int, NEW q \in Int
  PROVE  /\ (b + a) * (p + q) = (b * p + b * q) + (a * p + a * q)
         /\ (p - q) * (a - b) = (p * a - p * b) - (q * a - q * b)
         /\ b * q \in Int /\ a * p \in Int /\ b * p \in Int /\ a * q \in Int
         /\ p * a = a * p /\ p * b = b * p /\ q * a = a * q /\ q * b = b * q
  BY SMT

\* wmid.num / den = (b + a) / 2 + ((p - q) / (2 * den)) * (a - b), in integers.
LEMMA ShiftedMid ==
  ASSUME NEW b \in Int, NEW a \in Int, NEW p \in Int, NEW q \in Int
  PROVE  2 * (b * q + a * p) = (b + a) * (p + q) + (p - q) * (a - b)
  BY Products

\* The identity of one snapshot.
LEMMA SnapshotIdentity ==
  ASSUME NEW l, IsSnapshot(l), l.bidQty + l.askQty > 0
  PROVE  LET imb == Imbalance(l.bidQty, l.askQty)
         IN  EqExact(Wmid(l),
                     Ratio(Mid(l).num * imb.den + SignedImb(imb).num * Spread(l), 2 * imb.den))
<1> DEFINE den == l.bidQty + l.askQty
           num == l.bidPx * l.askQty + l.askPx * l.bidQty
           shifted == (l.bidPx + l.askPx) * den + (l.bidQty - l.askQty) * (l.askPx - l.bidPx)
<1>1. den \in Int /\ den # 0 /\ num \in Int
  BY Products DEF IsSnapshot
<1>2. 2 * num = shifted
  BY ShiftedMid DEF IsSnapshot
<1>3. Wmid(l) = Ratio(num, den)
  BY <1>1 DEF Wmid
<1>4. Imbalance(l.bidQty, l.askQty) = Ratio(l.bidQty, den)
  BY <1>1 DEF Imbalance
<1>5. 2 * l.bidQty - den = l.bidQty - l.askQty
  BY DEF IsSnapshot
<1>6. Mid(l).num * den + SignedImb(Ratio(l.bidQty, den)).num * Spread(l) = shifted
  BY <1>5 DEF Mid, SignedImb, Spread, Ratio
<1>7. num * (2 * den) = (2 * num) * den
  <2> HIDE DEF num, den
  <2> QED BY <1>1
<1>8. num * (2 * den) = shifted * den
  BY <1>2, <1>7
<1> QED
  BY <1>3, <1>4, <1>6, <1>8 DEF EqExact, Ratio

\* A quantity times the larger price is the larger product.
LEMMA ProductGrows ==
  ASSUME NEW b \in Int, NEW a \in Int, NEW q \in Nat, b <= a
  PROVE  b * q <= a * q
<1>1. a * q - b * q = (a - b) * q
  BY SMT
<1>2. (a - b) * q >= 0
  BY SMT
<1>3. a * q \in Int /\ b * q \in Int
  BY SMT
<1> QED
  BY <1>1, <1>2, <1>3

\* The weighted mid of one snapshot is between its prices.
LEMMA SnapshotLeans ==
  ASSUME NEW l, IsSnapshot(l), l.bidQty + l.askQty > 0, Spread(l) > 0
  PROVE  LET w == Wmid(l)
             imb == SignedImb(Imbalance(l.bidQty, l.askQty))
         IN  /\ l.bidPx * w.den <= w.num /\ w.num <= l.askPx * w.den
             /\ imb.num \in -imb.den .. imb.den
             /\ (2 * w.num > Mid(l).num * w.den <=> imb.num > 0)
<1> DEFINE b == l.bidPx
           a == l.askPx
           p == l.bidQty
           q == l.askQty
           den == p + q
           num == b * q + a * p
<1>1. b \in Int /\ a \in Int /\ p \in Nat /\ q \in Nat /\ a - b > 0 /\ den > 0
  BY DEF IsSnapshot, Spread
<1>2. Wmid(l) = Ratio(num, den) /\ Imbalance(p, q) = Ratio(p, den)
  BY <1>1 DEF Wmid, Imbalance
<1>3. SignedImb(Ratio(p, den)) = Ratio(p - q, den)
  <2>1. 2 * p - den = p - q
    BY <1>1
  <2> QED BY <2>1 DEF SignedImb, Ratio
<1> HIDE DEF b, a, p, q
<1>4. b * den = b * p + b * q /\ a * den = a * p + a * q
  BY <1>1, Products
<1>5. b * p <= a * p /\ b * q <= a * q
  BY <1>1, ProductGrows
<1>6. b * p \in Int /\ b * q \in Int /\ a * p \in Int /\ a * q \in Int
  BY <1>1, Products
<1>7. b * den <= num /\ num <= a * den
  BY <1>4, <1>5, <1>6
<1>8. p - q \in -den .. den
  BY <1>1
<1>9. 2 * num = (b + a) * den + (p - q) * (a - b)
  BY <1>1, ShiftedMid
<1>10. (p - q) * (a - b) > 0 <=> p - q > 0
  BY <1>1
<1>11. (p - q) * (a - b) \in Int /\ (b + a) * den \in Int
  BY <1>1
<1>12. 2 * num > (b + a) * den <=> p - q > 0
  BY <1>9, <1>10, <1>11
<1>13. Mid(l).num = b + a
  BY DEF Mid, Ratio, b, a
<1> QED
  BY <1>2, <1>3, <1>7, <1>8, <1>12, <1>13 DEF Ratio, b, a, p, q

\* A step is the opposite of the step back.
LEMMA StepReverses ==
  ASSUME NEW l, NEW m, IsSnapshot(l), IsSnapshot(m)
  PROVE  OfiStep(l, m) = - OfiStep(m, l)
<1> DEFINE Bid(x, y) == (IF y.bidPx >= x.bidPx THEN y.bidQty ELSE 0)
                          - (IF y.bidPx <= x.bidPx THEN x.bidQty ELSE 0)
           Ask(x, y) == (IF y.askPx >= x.askPx THEN x.askQty ELSE 0)
                          - (IF y.askPx <= x.askPx THEN y.askQty ELSE 0)
<1>1. Bid(l, m) \in Int /\ Bid(l, m) = - Bid(m, l)
  <2>1. CASE m.bidPx > l.bidPx  BY <2>1 DEF IsSnapshot
  <2>2. CASE m.bidPx = l.bidPx  BY <2>2 DEF IsSnapshot
  <2>3. CASE m.bidPx < l.bidPx  BY <2>3 DEF IsSnapshot
  <2> QED BY <2>1, <2>2, <2>3 DEF IsSnapshot
<1>2. Ask(l, m) \in Int /\ Ask(l, m) = - Ask(m, l)
  <2>1. CASE m.askPx > l.askPx  BY <2>1 DEF IsSnapshot
  <2>2. CASE m.askPx = l.askPx  BY <2>2 DEF IsSnapshot
  <2>3. CASE m.askPx < l.askPx  BY <2>3 DEF IsSnapshot
  <2> QED BY <2>1, <2>2, <2>3 DEF IsSnapshot
<1>3. ASSUME NEW x, NEW y, IsSnapshot(x), IsSnapshot(y)
      PROVE  OfiStep(x, y) = Bid(x, y) + Ask(x, y)
  <2> DEFINE b == IF y.bidPx >= x.bidPx THEN y.bidQty ELSE 0
             c == IF y.bidPx <= x.bidPx THEN x.bidQty ELSE 0
             d == IF y.askPx <= x.askPx THEN y.askQty ELSE 0
             e == IF y.askPx >= x.askPx THEN x.askQty ELSE 0
  <2>1. b \in Nat /\ c \in Nat /\ d \in Nat /\ e \in Nat
    BY <1>3 DEF IsSnapshot
  <2>2. OfiStep(x, y) = b - c - d + e /\ Bid(x, y) = b - c /\ Ask(x, y) = e - d
    BY DEF OfiStep
  <2> HIDE DEF b, c, d, e
  <2> QED
    BY <2>1, <2>2
<1>4. Bid(m, l) \in Int /\ Ask(m, l) \in Int
  BY DEF IsSnapshot
<1>5. OfiStep(l, m) = Bid(l, m) + Ask(l, m) /\ OfiStep(m, l) = Bid(m, l) + Ask(m, l)
  BY <1>3
<1> HIDE DEF Bid, Ask
<1> QED
  BY <1>1, <1>2, <1>4, <1>5

-----------------------------------------------------------------------------

\* The stream holds snapshots only.
THEOREM TypeCorrect == Spec => []TypeInv
<1>1. Init => TypeInv
  BY DEF Init, TypeInv
<1>2. TypeInv /\ [Next]_snaps => TypeInv'
  <2> SUFFICES ASSUME TypeInv, Next PROVE TypeInv'
    BY DEF TypeInv
  <2>1. PICK l \in Snapshots : snaps' = Append(snaps, l)
    BY DEF Next, Snapshot
  <2>2. IsSnapshot(l)
    <3>1. PICK bp \in L1Prices, bq \in L1Qtys, ap \in L1Prices, aq \in L1Qtys : l = L1(bp, bq, ap, aq)
      BY DEF Snapshots
    <3> QED
      BY <3>1, PricesAndQuantities DEF L1, IsSnapshot
  <2> QED
    BY <2>1, <2>2 DEF TypeInv
<1> QED
  BY <1>1, <1>2, PTL DEF Spec

\* The identity of the weighted mid, for every snapshot of every stream.
THEOREM ShiftedMidHolds == Spec => []WmidIsShiftedMid
<1>1. TypeInv => WmidIsShiftedMid
  BY SnapshotIdentity DEF TypeInv, WmidIsShiftedMid
<1> QED
  BY <1>1, TypeCorrect, PTL

\* The weighted mid stays inside the spread and leans as the imbalance says.
THEOREM LeansHolds == Spec => []WmidLeans
<1>1. TypeInv => WmidLeans
  BY SnapshotLeans DEF TypeInv, WmidLeans
<1> QED
  BY <1>1, TypeCorrect, PTL

\* Order-flow imbalance is antisymmetric between any two snapshots.
THEOREM ReverseHolds == Spec => []StepsReverse
<1>1. TypeInv => StepsReverse
  BY StepReverses DEF TypeInv, StepsReverse
<1> QED
  BY <1>1, TypeCorrect, PTL

\* The identities together.
THEOREM FeaturesHold == Spec => []FeaturesSound
BY ShiftedMidHolds, LeansHolds, ReverseHolds, PTL DEF FeaturesSound

\* And of the stream beside the other readers.
THEOREM FeaturesOfReadersHold == ReadersSpec => []FeaturesSound
<1>1. ReadersInit => Init
  BY DEF ReadersInit
<1>2. [ReadersNext]_readerVars => [Next]_snaps
  BY DEF ReadersNext, ReadFrames, ReadPayloads, ReadRecords, ReadOps, ReadSnapshots, readerVars
<1>3. ReadersSpec => Spec
  BY <1>1, <1>2, PTL DEF ReadersSpec, Spec
<1> QED BY <1>3, FeaturesHold, PTL

-----------------------------------------------------------------------------
(* The in-memory framer.  Where its first k frames end is defined by       *)
(* recursion; that there is such a function, whatever bytes lie beyond the *)
(* end of the input, is shown by induction.                                *)

AfterFrame(p) == p + 2 + Slice!Announced(p)

FrameEnds(g, n) == g = [k \in 0 .. n |-> IF k = 0 THEN 0 ELSE AfterFrame(g[k-1])]

LEMMA FrameEndsExist == \A n \in Nat : \E g : FrameEnds(g, n)
<1> DEFINE S == {n \in Nat : \E g : FrameEnds(g, n)}
<1>1. 0 \in S
  <2>1. FrameEnds([k \in 0 .. 0 |-> 0], 0)
    BY DEF FrameEnds
  <2> QED BY <2>1
<1>2. ASSUME NEW n \in Nat, n \in S PROVE n + 1 \in S
  <2>1. PICK g : FrameEnds(g, n)
    BY <1>2
  <2> DEFINE h == [k \in 0 .. n + 1 |-> IF k = n + 1 THEN AfterFrame(g[n]) ELSE g[k]]
  <2>2. ASSUME NEW k \in 0 .. n + 1
        PROVE  h[k] = IF k = 0 THEN 0 ELSE AfterFrame(h[k-1])
    <3>1. CASE k = n + 1
      <4>1. k # 0 /\ k - 1 = n /\ n \in 0 .. n + 1 /\ n # n + 1
        BY <3>1
      <4>2. h[k] = AfterFrame(g[n]) /\ h[n] = g[n]
        BY <3>1, <4>1
      <4> QED BY <4>1, <4>2
    <3>2. CASE k # n + 1
      <4>1. k \in 0 .. n
        BY <3>2
      <4>2. g[k] = IF k = 0 THEN 0 ELSE AfterFrame(g[k-1])
        BY <2>1, <4>1 DEF FrameEnds
      <4>3. h[k] = g[k]
        BY <3>2
      <4>4. k # 0 => k - 1 \in 0 .. n + 1 /\ k - 1 # n + 1
        BY <4>1
      <4>5. k # 0 => h[k-1] = g[k-1]
        BY <4>4
      <4> HIDE DEF h
      <4> QED BY <4>2, <4>3, <4>5
    <3> QED BY <3>1, <3>2
  <2>3. h = [k \in 0 .. n + 1 |-> h[k]]
    OBVIOUS
  <2> HIDE DEF h
  <2>4. FrameEnds(h, n + 1)
    BY <2>2, <2>3 DEF FrameEnds
  <2> QED BY <2>4
<1> HIDE DEF S
<1>3. Nat \subseteq S
  BY <1>1, <1>2, NaturalsInducted
<1> QED BY <1>3 DEF S

LEMMA FrameEndsAgree ==
  ASSUME NEW n \in Nat, NEW m \in 0 .. n, NEW g, FrameEnds(g, n), NEW h, FrameEnds(h, m)
  PROVE  h[m] = g[m]
<1> DEFINE S == {k \in Nat : k <= m => h[k] = g[k]}
<1>1. 0 \in S
  BY DEF FrameEnds
<1>2. ASSUME NEW k \in Nat, k \in S PROVE k + 1 \in S
  <2>1. SUFFICES ASSUME k + 1 <= m PROVE h[k + 1] = g[k + 1]
    OBVIOUS
  <2>2. k + 1 \in 0 .. m /\ k + 1 \in 0 .. n /\ k + 1 # 0 /\ (k + 1) - 1 = k
    BY <2>1
  <2>3. h[k + 1] = AfterFrame(h[(k + 1) - 1])
    BY <2>2 DEF FrameEnds
  <2>4. g[k + 1] = AfterFrame(g[(k + 1) - 1])
    BY <2>2 DEF FrameEnds
  <2>5. h[k] = g[k]
    BY <1>2, <2>1
  <2> QED BY <2>2, <2>3, <2>4, <2>5
<1> HIDE DEF S
<1>3. Nat \subseteq S
  BY <1>1, <1>2, NaturalsInducted
<1> QED BY <1>3 DEF S

LEMMA EndOfFrameIs ==
  /\ Slice!EndOfFrame[0] = 0
  /\ \A k \in Nat : Slice!EndOfFrame[k + 1] = AfterFrame(Slice!EndOfFrame[k])
<1> DEFINE Solves(g) == g = [k \in Nat |-> IF k = 0 THEN 0 ELSE AfterFrame(g[k-1])]
           ends(n) == CHOOSE g : FrameEnds(g, n)
           all == [n \in Nat |-> ends(n)[n]]
<1>1. Slice!EndOfFrame = CHOOSE g : Solves(g)
  BY DEF Slice!EndOfFrame, AfterFrame
<1>2. \A n \in Nat : FrameEnds(ends(n), n)
  BY FrameEndsExist
<1> HIDE DEF ends
<1>3. ASSUME NEW n \in Nat PROVE all[n] = IF n = 0 THEN 0 ELSE AfterFrame(all[n-1])
  <2>1. all[n] = ends(n)[n] /\ n \in 0 .. n
    OBVIOUS
  <2>2. ends(n)[n] = IF n = 0 THEN 0 ELSE AfterFrame(ends(n)[n-1])
    BY <1>2, <2>1 DEF FrameEnds
  <2>3. CASE n = 0
    BY <2>1, <2>2, <2>3
  <2>4. CASE n # 0
    <3>1. n - 1 \in Nat /\ n - 1 \in 0 .. n
      BY <2>4
    <3>2. all[n-1] = ends(n-1)[n-1]
      BY <3>1
    <3>3. ends(n-1)[n-1] = ends(n)[n-1]
      BY <1>2, <3>1, FrameEndsAgree
    <3> HIDE DEF all
    <3> QED BY <2>1, <2>2, <2>4, <3>2, <3>3
  <2> QED BY <2>3, <2>4
<1>4. Solves(all)
  <2>1. all = [n \in Nat |-> all[n]]
    OBVIOUS
  <2> HIDE DEF all
  <2> QED BY <1>3, <2>1
<1> DEFINE e == Slice!EndOfFrame
<1>5. Solves(e)
  BY <1>1, <1>4
<1> HIDE DEF e, all
<1>6. e[0] = 0
  BY <1>5
<1>7. ASSUME NEW k \in Nat PROVE e[k + 1] = AfterFrame(e[k])
  <2>1. k + 1 \in Nat /\ k + 1 # 0 /\ (k + 1) - 1 = k
    OBVIOUS
  <2>2. e[k + 1] = AfterFrame(e[(k + 1) - 1])
    BY <1>5, <2>1
  <2> QED BY <2>1, <2>2
<1> QED BY <1>6, <1>7 DEF e

\* The invariant: CountsExact and the types it needs.
FramesInv ==
  /\ data \in Seq(0 .. Base - 1)
  /\ place \in 0 .. Len(data)
  /\ frames \in Nat
  /\ truncated \in {0, 1}
  /\ CountsExact

\* A whole frame ends within the input.
LEMMA FrameEndsInside ==
  ASSUME FramesInv, NEW p \in Nat, Slice!FrameAt(p)
  PROVE  /\ Slice!Announced(p) \in Nat
         /\ AfterFrame(p) \in p + 2 .. Len(data)
<1>1. Base \in Nat /\ Len(data) \in Nat
  BY ReadersInput DEF FramesInv
<1>2. p + 1 \in 1 .. Len(data) /\ p + 2 \in 1 .. Len(data)
  BY <1>1 DEF Slice!FrameAt
<1>3. data[p + 1] \in Nat /\ data[p + 2] \in Nat
  <2> DEFINE Digits == 0 .. Base - 1
  <2>1. data \in Seq(Digits)
    BY DEF FramesInv
  <2>2. data[p + 1] \in Digits /\ data[p + 2] \in Digits
    <3> HIDE DEF Digits
    <3> QED BY <1>2, <2>1, ElementOfSeq
  <2> QED BY <1>1, <2>2
<1> DEFINE high == data[p + 1]
           low == data[p + 2]
<1>4. high * Base \in Nat
  <2> HIDE DEF high
  <2> QED BY <1>1, <1>3 DEF high
<1>5. Slice!Announced(p) = high * Base + low
  BY DEF Slice!Announced
<1>6. Slice!Announced(p) \in Nat
  <2>1. low \in Nat
    BY <1>3
  <2> HIDE DEF high, low
  <2> QED BY <1>4, <1>5, <2>1
<1> QED BY <1>1, <1>6 DEF Slice!FrameAt, AfterFrame

LEMMA SameInput ==
  ASSUME data' = data
  PROVE  /\ Slice!EndOfFrame' = Slice!EndOfFrame
         /\ \A p : Slice!FrameAt(p)' = Slice!FrameAt(p)
BY DEF Slice!EndOfFrame, Slice!FrameAt, Slice!Announced

LEMMA TakeFrameCounts == FramesInv /\ Slice!TakeFrame => FramesInv'
<1> SUFFICES ASSUME FramesInv, Slice!TakeFrame PROVE FramesInv'
  OBVIOUS
<1> DEFINE e == Slice!EndOfFrame
           p == e[frames]
<1>1. place \in Nat /\ Len(data) \in Nat /\ frames \in Nat /\ Slice!FrameAt(place) /\ place <= Len(data)
  BY DEF FramesInv, Slice!TakeFrame
<1>2. AfterFrame(place) \in place + 2 .. Len(data)
  BY <1>1, FrameEndsInside
<1>3. place' = AfterFrame(place) /\ frames' = frames + 1 /\ data' = data /\ truncated' = truncated
  BY DEF Slice!TakeFrame, AfterFrame
<1>4. place < Len(data)
  BY <1>1, <1>2
<1>5. truncated = 0 /\ place = p
  BY <1>4 DEF FramesInv, CountsExact, Slice!CountsExact
<1>6. e' = e
  BY <1>3, SameInput
<1>7. e[frames + 1] = AfterFrame(e[frames])
  BY <1>1, EndOfFrameIs
<1>8. e'[frames'] = place'
  <2> HIDE DEF e
  <2> QED BY <1>3, <1>5, <1>6, <1>7
<1>9. CountsExact'
  BY <1>3, <1>5, <1>8 DEF CountsExact, Slice!CountsExact
<1>10. place' \in 0 .. Len(data)
  BY <1>1, <1>2, <1>3
<1> QED BY <1>1, <1>3, <1>5, <1>9, <1>10 DEF FramesInv

LEMMA TakeEndCounts == FramesInv /\ Slice!TakeEnd => FramesInv'
<1> SUFFICES ASSUME FramesInv, Slice!TakeEnd PROVE FramesInv'
  OBVIOUS
<1> DEFINE e == Slice!EndOfFrame
           p == e[frames]
<1>1. place \in Nat /\ Len(data) \in Nat /\ frames \in Nat /\ place <= Len(data)
  BY DEF FramesInv
<1>2. /\ ~Slice!FrameAt(place)
      /\ truncated' = IF place < Len(data) THEN truncated + 1 ELSE truncated
      /\ place' = Len(data) /\ data' = data /\ frames' = frames
  BY DEF Slice!TakeEnd
<1>3. e' = e /\ \A q : Slice!FrameAt(q)' = Slice!FrameAt(q)
  BY <1>2, SameInput
<1>4. e'[frames'] = p
  <2> HIDE DEF e
  <2> QED BY <1>2, <1>3
<1> HIDE DEF p, e
<1>5. \/ truncated = 0 /\ place = p
      \/ truncated = 1 /\ p < place /\ place = Len(data) /\ ~Slice!FrameAt(p)
  BY DEF p, e, FramesInv, CountsExact, Slice!CountsExact
<1>6. \/ truncated' = 0 /\ place' = p
      \/ truncated' = 1 /\ p < place' /\ place' = Len(data) /\ ~Slice!FrameAt(p)
  <2>1. CASE truncated = 0 /\ place = p /\ place < Len(data)
    BY <1>2, <2>1
  <2>2. CASE truncated = 0 /\ place = p /\ ~(place < Len(data))
    BY <1>1, <1>2, <2>2
  <2>3. CASE truncated = 1 /\ p < place /\ place = Len(data) /\ ~Slice!FrameAt(p)
    BY <1>1, <1>2, <2>3
  <2> QED BY <1>5, <2>1, <2>2, <2>3
<1>7. CountsExact'
  <2>1. Slice!EndOfFrame'[frames'] = p
    BY <1>4 DEF e
  <2>2. ASSUME ~Slice!FrameAt(p) PROVE ~Slice!FrameAt(Slice!EndOfFrame[frames])'
    BY <1>2, <2>1, <2>2 DEF Slice!FrameAt, Slice!Announced
  <2> QED BY <1>2, <1>6, <2>1, <2>2 DEF CountsExact, Slice!CountsExact
<1>8. truncated' \in {0, 1} /\ place' \in 0 .. Len(data)
  BY <1>1, <1>2, <1>6
<1> QED BY <1>1, <1>2, <1>7, <1>8 DEF FramesInv

LEMMA ResetCounts == FramesInv /\ Slice!Reset => FramesInv'
<1> SUFFICES ASSUME FramesInv, Slice!Reset PROVE FramesInv'
  OBVIOUS
<1>1. place' = 0 /\ frames' = 0 /\ truncated' = 0 /\ data' = data
  BY DEF Slice!Reset
<1>2. Slice!EndOfFrame'[0] = 0
  BY <1>1, SameInput, EndOfFrameIs
<1>3. CountsExact'
  BY <1>1, <1>2 DEF CountsExact, Slice!CountsExact
<1>4. Len(data) \in Nat
  BY DEF FramesInv
<1> QED BY <1>1, <1>3, <1>4 DEF FramesInv

LEMMA SameFrames == FramesInv /\ UNCHANGED sliceVars => FramesInv'
<1> SUFFICES ASSUME FramesInv, UNCHANGED sliceVars PROVE FramesInv'
  OBVIOUS
<1>1. data' = data /\ place' = place /\ frames' = frames /\ truncated' = truncated
  BY DEF sliceVars
<1>2. Slice!EndOfFrame' = Slice!EndOfFrame /\ \A p : Slice!FrameAt(p)' = Slice!FrameAt(p)
  BY <1>1, SameInput
<1>3. CountsExact'
  BY <1>1, <1>2 DEF FramesInv, CountsExact, Slice!CountsExact
<1> QED BY <1>1, <1>3 DEF FramesInv

\* The counters of the in-memory framer, over any number of passes over any input.
THEOREM FrameCounts == ReadersSpec => []CountsExact
<1>1. ReadersInit => FramesInv
  <2> SUFFICES ASSUME ReadersInit PROVE FramesInv
    OBVIOUS
  <2>1. data \in Seq(0 .. Base - 1) /\ place = 0 /\ frames = 0 /\ truncated = 0
    BY ReadersInput DEF ReadersInit, Slice!Init
  <2>2. CountsExact
    BY <2>1, EndOfFrameIs DEF CountsExact, Slice!CountsExact
  <2>3. Len(data) \in Nat
    BY <2>1
  <2> QED BY <2>1, <2>2, <2>3 DEF FramesInv
<1>2. FramesInv /\ [ReadersNext]_readerVars => FramesInv'
  <2> SUFFICES ASSUME FramesInv, [ReadersNext]_readerVars PROVE FramesInv'
    OBVIOUS
  <2>1. CASE ReadFrames
    BY <2>1, TakeFrameCounts, TakeEndCounts, ResetCounts DEF ReadFrames, Slice!Advance
  <2>2. CASE ~ReadFrames
    <3>1. UNCHANGED sliceVars
      BY <2>2 DEF ReadersNext, ReadPayloads, ReadRecords, ReadOps, ReadSnapshots, readerVars
    <3> QED BY <3>1, SameFrames
  <2> QED BY <2>1, <2>2
<1>3. FramesInv => CountsExact
  BY DEF FramesInv
<1> QED BY <1>1, <1>2, <1>3, PTL DEF ReadersSpec

-----------------------------------------------------------------------------
(* Operation files.                                                        *)

\* The records a file may hold, damaged ones included.
AnyRecord ==
  [kind : 1 .. 5 \cup BadKinds, id : Ids, id2 : {0, 1} \cup Ids \cup BadId2s,
   px : Prices \cup {0}, qty : Qtys \cup {0}]

\* Once the file is decoded, it is not touched, so what was returned stays a
\* function of it.
OpsInv ==
  /\ ops \in Seq(OpsBin!Ops)
  /\ recs \in Seq(AnyRecord)
  /\ Len(recs) <= Len(ops)
  /\ spare \in BOOLEAN
  /\ decoded \in {OpsBin!NotDecoded, OpsBin!DecodeOps}

\* The five kinds of operation, and the codes they are written with.
LEMMA Codes ==
  /\ OpsBin!KindCode["Add"] = 1 /\ OpsBin!KindCode["Cancel"] = 2 /\ OpsBin!KindCode["Exec"] = 3
  /\ OpsBin!KindCode["Delete"] = 4 /\ OpsBin!KindCode["Replace"] = 5
  /\ OpsBin!SideCode["Bid"] = 0 /\ OpsBin!SideCode["Ask"] = 1
BY DEF OpsBin!KindCode, OpsBin!SideCode

LEMMA KindsOf ==
  /\ OpsBin!KindOf(1) = {"Add"} /\ OpsBin!KindOf(2) = {"Cancel"} /\ OpsBin!KindOf(3) = {"Exec"}
  /\ OpsBin!KindOf(4) = {"Delete"} /\ OpsBin!KindOf(5) = {"Replace"}
  /\ \A c : c \notin 1 .. 5 => OpsBin!KindOf(c) = {}
BY Codes DEF OpsBin!KindOf

LEMMA OpKinds ==
  ASSUME NEW o \in OpsBin!Ops
  PROVE  \/ /\ o.kind = "Add" /\ o = OpsBin!AddOp(o.id, o.side, o.px, o.qty)
            /\ o.id \in Ids /\ o.side \in OpsBin!Sides /\ o.px \in Prices /\ o.qty \in Qtys
         \/ /\ o.kind = "Cancel" /\ o = OpsBin!CancelOp(o.id, o.qty)
            /\ o.id \in Ids /\ o.qty \in Qtys
         \/ /\ o.kind = "Exec" /\ o = OpsBin!ExecuteOp(o.id, o.qty)
            /\ o.id \in Ids /\ o.qty \in Qtys
         \/ o.kind = "Delete" /\ o = OpsBin!DeleteOp(o.id) /\ o.id \in Ids
         \/ /\ o.kind = "Replace" /\ o = OpsBin!ReplaceOp(o.id, o.new, o.px, o.qty)
            /\ o.id \in Ids /\ o.new \in Ids /\ o.px \in Prices /\ o.qty \in Qtys
BY DEF OpsBin!Ops, OpsBin!AddOp, OpsBin!CancelOp, OpsBin!ExecuteOp, OpsBin!DeleteOp, OpsBin!ReplaceOp

\* Decoding a record inverts encoding it, and the record is one of a file.
LEMMA DecodeInvertsEncode ==
  ASSUME NEW o \in OpsBin!Ops
  PROVE  OpsBin!Decode(OpsBin!Encode(o)) = o /\ OpsBin!Encode(o) \in AnyRecord
<1> DEFINE r == OpsBin!Encode(o)
<1>1. CASE o.kind = "Add"
  <2>1. o.side \in {"Bid", "Ask"}
    BY <1>1, OpKinds DEF OpsBin!Sides
  <2>2. r = OpsBin!Record(1, o.id, OpsBin!SideCode[o.side], o.px, o.qty)
    BY <1>1, Codes DEF OpsBin!Encode
  <2>3. OpsBin!SideCode[o.side] = (IF o.side = "Bid" THEN 0 ELSE 1)
    BY <2>1, Codes
  <2> HIDE DEF r
  <2>4. r.kind = 1 /\ r.id = o.id /\ r.px = o.px /\ r.qty = o.qty
        /\ r.id2 = IF o.side = "Bid" THEN 0 ELSE 1
    BY <2>2, <2>3 DEF OpsBin!Record
  <2>5. OpsBin!Decode(r) = OpsBin!AddOp(r.id, IF r.id2 = 0 THEN "Bid" ELSE "Ask", r.px, r.qty)
    BY <2>4, KindsOf DEF OpsBin!Decode
  <2>6. OpsBin!Decode(r) = o
    BY <1>1, <2>1, <2>4, <2>5, OpKinds
  <2>7. r \in AnyRecord
    BY <1>1, <2>1, <2>2, <2>3, OpKinds DEF OpsBin!Record, AnyRecord
  <2> QED BY <2>6, <2>7 DEF r
<1>2. CASE o.kind = "Cancel"
  <2>1. r = OpsBin!Record(2, o.id, 0, 0, o.qty)
    BY <1>2, Codes DEF OpsBin!Encode
  <2> HIDE DEF r
  <2>2. OpsBin!Decode(r) = OpsBin!CancelOp(r.id, r.qty)
    BY <2>1, KindsOf DEF OpsBin!Decode, OpsBin!Record
  <2>3. OpsBin!Decode(r) = o /\ r \in AnyRecord
    BY <1>2, <2>1, <2>2, OpKinds DEF OpsBin!Record, AnyRecord
  <2> QED BY <2>3 DEF r
<1>3. CASE o.kind = "Exec"
  <2>1. r = OpsBin!Record(3, o.id, 0, 0, o.qty)
    BY <1>3, Codes DEF OpsBin!Encode
  <2> HIDE DEF r
  <2>2. OpsBin!Decode(r) = OpsBin!ExecuteOp(r.id, r.qty)
    BY <2>1, KindsOf DEF OpsBin!Decode, OpsBin!Record
  <2>3. OpsBin!Decode(r) = o /\ r \in AnyRecord
    BY <1>3, <2>1, <2>2, OpKinds DEF OpsBin!Record, AnyRecord
  <2> QED BY <2>3 DEF r
<1>4. CASE o.kind = "Delete"
  <2>1. r = OpsBin!Record(4, o.id, 0, 0, 0)
    BY <1>4, Codes DEF OpsBin!Encode
  <2> HIDE DEF r
  <2>2. OpsBin!Decode(r) = OpsBin!DeleteOp(r.id)
    BY <2>1, KindsOf DEF OpsBin!Decode, OpsBin!Record
  <2>3. OpsBin!Decode(r) = o /\ r \in AnyRecord
    BY <1>4, <2>1, <2>2, OpKinds DEF OpsBin!Record, AnyRecord
  <2> QED BY <2>3 DEF r
<1>5. CASE o.kind = "Replace"
  <2>1. r = OpsBin!Record(5, o.id, o.new, o.px, o.qty)
    BY <1>5, Codes DEF OpsBin!Encode
  <2> HIDE DEF r
  <2>2. OpsBin!Decode(r) = OpsBin!ReplaceOp(r.id, r.id2, r.px, r.qty)
    BY <2>1, KindsOf DEF OpsBin!Decode, OpsBin!Record
  <2>3. OpsBin!Decode(r) = o /\ r \in AnyRecord
    BY <1>5, <2>1, <2>2, OpKinds DEF OpsBin!Record, AnyRecord
  <2> QED BY <2>3 DEF r
<1> QED BY <1>1, <1>2, <1>3, <1>4, <1>5, OpKinds

\* Every kind has a code of its own, and operations of every kind may be written.
LEMMA EveryCodeWritten ==
  \A c : c \in 1 .. 5 <=> \E o \in OpsBin!Ops : OpsBin!Encode(o).kind = c
<1>1. PICK id \in Ids, px \in Prices, qty \in Qtys : TRUE
  BY ReadersInput
<1> DEFINE a == OpsBin!AddOp(id, "Bid", px, qty)
           x == OpsBin!CancelOp(id, qty)
           e == OpsBin!ExecuteOp(id, qty)
           d == OpsBin!DeleteOp(id)
           u == OpsBin!ReplaceOp(id, id, px, qty)
<1>2. a \in OpsBin!Ops /\ x \in OpsBin!Ops /\ e \in OpsBin!Ops /\ d \in OpsBin!Ops /\ u \in OpsBin!Ops
  BY DEF OpsBin!Ops, OpsBin!Sides
<1>3. a.kind = "Add" /\ x.kind = "Cancel" /\ e.kind = "Exec" /\ d.kind = "Delete" /\ u.kind = "Replace"
  BY DEF OpsBin!AddOp, OpsBin!CancelOp, OpsBin!ExecuteOp, OpsBin!DeleteOp, OpsBin!ReplaceOp
<1> HIDE DEF a, x, e, d, u
<1>4. \A o \in OpsBin!Ops : OpsBin!Encode(o).kind = OpsBin!KindCode[o.kind]
  <2> TAKE o \in OpsBin!Ops
  <2>1. o.kind \in {"Add", "Cancel", "Exec", "Delete", "Replace"}
    BY OpKinds
  <2> QED BY <2>1 DEF OpsBin!Encode, OpsBin!Record
<1>5. /\ OpsBin!Encode(a).kind = 1 /\ OpsBin!Encode(x).kind = 2 /\ OpsBin!Encode(e).kind = 3
      /\ OpsBin!Encode(d).kind = 4 /\ OpsBin!Encode(u).kind = 5
  BY <1>2, <1>3, <1>4, Codes
<1>6. \A o \in OpsBin!Ops : OpsBin!Encode(o).kind \in 1 .. 5
  <2> TAKE o \in OpsBin!Ops
  <2>1. o.kind \in {"Add", "Cancel", "Exec", "Delete", "Replace"}
    BY OpKinds
  <2> QED BY <1>4, <2>1, Codes
<1>7. ASSUME NEW c \in 1 .. 5 PROVE \E o \in OpsBin!Ops : OpsBin!Encode(o).kind = c
  <2>1. c = 1 \/ c = 2 \/ c = 3 \/ c = 4 \/ c = 5
    OBVIOUS
  <2> QED BY <1>2, <1>5, <2>1
<1> QED BY <1>6, <1>7

\* A record is no operation exactly if its kind is none that is written, or it is
\* an add with no side.
LEMMA NoOperation ==
  ASSUME NEW r
  PROVE  ~OpsBin!IsOp(r) <=>
           \/ \A o \in OpsBin!Ops : r.kind # OpsBin!Encode(o).kind
           \/ r.kind = OpsBin!KindCode["Add"] /\ \A s \in OpsBin!Sides : r.id2 # OpsBin!SideCode[s]
<1>1. (\A o \in OpsBin!Ops : r.kind # OpsBin!Encode(o).kind) <=> r.kind \notin 1 .. 5
  BY EveryCodeWritten
<1>2. (\A s \in OpsBin!Sides : r.id2 # OpsBin!SideCode[s]) <=> r.id2 \notin {0, 1}
  BY Codes DEF OpsBin!Sides
<1>3. OpsBin!KindOf(r.kind) = {} <=> r.kind \notin 1 .. 5
  <2>1. r.kind \in 1 .. 5 => r.kind = 1 \/ r.kind = 2 \/ r.kind = 3 \/ r.kind = 4 \/ r.kind = 5
    OBVIOUS
  <2> QED BY <2>1, KindsOf
<1>4. OpsBin!KindOf(r.kind) = {"Add"} <=> r.kind = 1
  <2>1. r.kind \in 1 .. 5 => r.kind = 1 \/ r.kind = 2 \/ r.kind = 3 \/ r.kind = 4 \/ r.kind = 5
    OBVIOUS
  <2>2. 1 \in 1 .. 5
    OBVIOUS
  <2> QED BY <2>1, <2>2, KindsOf
<1> QED BY <1>1, <1>2, <1>3, <1>4, Codes DEF OpsBin!IsOp

\* The operations of a decoded file, and the record an error names.
LEMMA Decoding ==
  ASSUME OpsInv
  PROVE  LET bad == {i \in DOMAIN recs : ~OpsBin!IsOp(recs[i])}
         IN  /\ spare => OpsBin!DecodeOps = OpsBin!LengthError
             /\ ~spare /\ bad = {} =>
                  OpsBin!DecodeOps = OpsBin!Decoded([i \in DOMAIN recs |-> OpsBin!Decode(recs[i])])
             /\ ~spare /\ bad # {} =>
                  \E m \in bad : /\ \A i \in bad : m <= i
                                 /\ OpsBin!DecodeOps = OpsBin!RecordError(m - 1, recs[m].kind)
<1> DEFINE bad == {i \in DOMAIN recs : ~OpsBin!IsOp(recs[i])}
<1>1. DOMAIN recs = 1 .. Len(recs) /\ Len(recs) \in Nat
  BY DEF OpsInv
<1>2. ASSUME bad # {}
      PROVE  OpsBin!Min(bad) \in bad /\ \A i \in bad : OpsBin!Min(bad) <= i
  <2>1. bad \in SUBSET Nat
    BY <1>1
  <2> HIDE DEF bad
  <2>2. \E m \in bad : \A i \in bad : m <= i
    BY <1>2, <2>1, LeastNatural
  <2> QED BY <2>2 DEF OpsBin!Min
<1>3. spare => OpsBin!DecodeOps = OpsBin!LengthError
  BY DEF OpsBin!DecodeOps
<1>4. ~spare /\ bad = {} =>
        OpsBin!DecodeOps = OpsBin!Decoded([i \in DOMAIN recs |-> OpsBin!Decode(recs[i])])
  BY DEF OpsBin!DecodeOps
<1>5. ~spare /\ bad # {} =>
        OpsBin!DecodeOps = OpsBin!RecordError(OpsBin!Min(bad) - 1, recs[OpsBin!Min(bad)].kind)
  BY DEF OpsBin!DecodeOps
<1> HIDE DEF bad
<1>6. ~spare /\ bad # {} =>
        \E m \in bad : /\ \A i \in bad : m <= i
                       /\ OpsBin!DecodeOps = OpsBin!RecordError(m - 1, recs[m].kind)
  BY <1>2, <1>5
<1> QED BY <1>3, <1>4, <1>6 DEF bad

LEMMA OpsInvReads == OpsInv => OpsReadBack
<1> SUFFICES ASSUME OpsInv PROVE OpsBin!ReadsBack /\ OpsBin!ErrorsNamed
  BY DEF OpsReadBack
<1> DEFINE bad == {i \in DOMAIN recs : ~OpsBin!IsOp(recs[i])}
           read == [i \in DOMAIN recs |-> OpsBin!Decode(recs[i])]
<1>1. /\ DOMAIN recs = 1 .. Len(recs) /\ Len(recs) \in Nat
      /\ Len(ops) \in Nat /\ \A i \in DOMAIN recs : ops[i] \in OpsBin!Ops
      /\ decoded = OpsBin!NotDecoded \/ decoded = OpsBin!DecodeOps
  <2>1. \A i \in DOMAIN recs : i \in 1 .. Len(ops)
    BY DEF OpsInv
  <2>2. \A i \in 1 .. Len(ops) : ops[i] \in OpsBin!Ops
    BY ElementOfSeq DEF OpsInv
  <2> QED BY <2>1, <2>2 DEF OpsInv
<1>2. /\ spare => OpsBin!DecodeOps = OpsBin!LengthError
      /\ ~spare /\ bad = {} => OpsBin!DecodeOps = OpsBin!Decoded(read)
      /\ ~spare /\ bad # {} =>
           \E m \in bad : /\ \A i \in bad : m <= i
                          /\ OpsBin!DecodeOps = OpsBin!RecordError(m - 1, recs[m].kind)
  BY Decoding
<1>3. OpsBin!ReadsBack
  <2> SUFFICES ASSUME decoded.kind = "Ops"
               PROVE  /\ Len(decoded.ops) = Len(recs)
                      /\ \A i \in DOMAIN recs : ~OpsBin!Damaged(i) => decoded.ops[i] = ops[i]
    BY DEF OpsBin!ReadsBack
  <2>1. decoded = OpsBin!Decoded(read)
    <3> HIDE DEF bad, read
    <3> QED BY <1>1, <1>2 DEF OpsBin!NotDecoded, OpsBin!LengthError, OpsBin!RecordError
  <2>2. decoded.ops = read
    BY <2>1 DEF OpsBin!Decoded
  <2>3. Len(read) = Len(recs)
    BY <1>1
  <2>4. ASSUME NEW i \in DOMAIN recs, ~OpsBin!Damaged(i) PROVE read[i] = ops[i]
    <3>1. recs[i] = OpsBin!Encode(ops[i])
      BY <2>4 DEF OpsBin!Damaged
    <3>2. read[i] = OpsBin!Decode(recs[i])
      OBVIOUS
    <3> QED BY <1>1, <3>1, <3>2, DecodeInvertsEncode
  <2> HIDE DEF read
  <2> QED BY <2>2, <2>3, <2>4
<1> DEFINE kinds == {OpsBin!Encode(o).kind : o \in OpsBin!Ops}
           alien(r) == r.kind \notin kinds
           badSide(r) == r.kind = OpsBin!KindCode["Add"]
                           /\ \A s \in OpsBin!Sides : r.id2 # OpsBin!SideCode[s]
           named == {i \in DOMAIN recs : alien(recs[i]) \/ badSide(recs[i])}
<1>4. named = bad
  <2>1. \A i \in DOMAIN recs : alien(recs[i]) \/ badSide(recs[i]) <=> ~OpsBin!IsOp(recs[i])
    <3> TAKE i \in DOMAIN recs
    <3>1. alien(recs[i]) <=> \A o \in OpsBin!Ops : recs[i].kind # OpsBin!Encode(o).kind
      OBVIOUS
    <3> QED BY <3>1, NoOperation
  <2> HIDE DEF alien, badSide
  <2> QED BY <2>1
<1>5. bad \subseteq Nat
  BY <1>1
<1>6. ASSUME decoded # OpsBin!NotDecoded
      PROVE  /\ decoded.kind = "Length" <=> spare
             /\ decoded.kind = "Record" <=> ~spare /\ bad # {}
             /\ decoded.kind = "Record" =>
                  decoded.index + 1 \in bad /\ \A i \in 1 .. decoded.index : i \notin bad
  <2> HIDE DEF bad, read
  <2>1. CASE spare
    BY <1>1, <1>2, <1>6, <2>1 DEF OpsBin!LengthError
  <2>2. CASE ~spare /\ bad = {}
    BY <1>1, <1>2, <1>6, <2>2 DEF OpsBin!Decoded
  <2>3. CASE ~spare /\ bad # {}
    <3>1. PICK m \in bad : /\ \A i \in bad : m <= i
                           /\ decoded = OpsBin!RecordError(m - 1, recs[m].kind)
      BY <1>1, <1>2, <1>6, <2>3
    <3>2. decoded.kind = "Record" /\ decoded.index = m - 1 /\ m \in Nat
      BY <1>5, <3>1 DEF OpsBin!RecordError
    <3>3. decoded.index + 1 = m /\ \A i \in 1 .. decoded.index : ~(m <= i)
      BY <3>2
    <3> QED BY <2>3, <3>1, <3>2, <3>3
  <2> QED BY <2>1, <2>2, <2>3
<1>7. OpsBin!ErrorsNamed
  <2> HIDE DEF bad
  <2>1. decoded # OpsBin!NotDecoded =>
          /\ decoded.kind = "Length" <=> spare
          /\ decoded.kind = "Record" <=> ~spare /\ named # {}
          /\ decoded.kind = "Record" =>
               decoded.index + 1 \in named /\ \A i \in 1 .. decoded.index : i \notin named
    <3> HIDE DEF named
    <3> QED BY <1>4, <1>6
  <2> QED BY <2>1 DEF OpsBin!ErrorsNamed
<1> QED BY <1>3, <1>7

LEMMA SameDecoding ==
  ASSUME recs' = recs, spare' = spare
  PROVE  OpsBin!DecodeOps' = OpsBin!DecodeOps
BY DEF OpsBin!DecodeOps

LEMMA OpsStep == OpsInv /\ OpsBin!Next => OpsInv'
<1> SUFFICES ASSUME OpsInv, OpsBin!Next PROVE OpsInv'
  OBVIOUS
<1>0. /\ ops \in Seq(OpsBin!Ops) /\ recs \in Seq(AnyRecord) /\ Len(recs) <= Len(ops)
      /\ spare \in BOOLEAN /\ Len(recs) \in Nat /\ Len(ops) \in Nat
  BY DEF OpsInv
<1>1. ASSUME OpsBin!Write PROVE OpsInv'
  <2>1. PICK o \in OpsBin!Ops : /\ ops' = Append(ops, o) /\ recs' = Append(recs, OpsBin!Encode(o))
                               /\ spare' = spare /\ decoded' = OpsBin!NotDecoded
    BY <1>1 DEF OpsBin!Write
  <2>2. ops' \in Seq(OpsBin!Ops) /\ Len(ops') = Len(ops) + 1
    BY <1>0, <2>1
  <2>3. recs' \in Seq(AnyRecord) /\ Len(recs') = Len(recs) + 1
    BY <1>0, <2>1, DecodeInvertsEncode
  <2> QED BY <1>0, <2>1, <2>2, <2>3 DEF OpsInv
<1>2. ASSUME OpsBin!Lose PROVE OpsInv'
  <2>1. /\ recs # <<>> /\ recs' = SubSeq(recs, 1, Len(recs) - 1) /\ ops' = ops
        /\ spare' \in BOOLEAN /\ decoded' = OpsBin!NotDecoded
    BY <1>2 DEF OpsBin!Lose, OpsBin!Front
  <2>2. Len(recs) >= 1
    BY <1>0, <2>1, EmptySeq
  <2>3. recs' \in Seq(AnyRecord) /\ Len(recs') = Len(recs) - 1
    <3> DEFINE shorter == Len(recs) - 1
    <3>1. shorter \in Nat /\ \A i \in 1 .. shorter : i \in 1 .. Len(recs)
      BY <1>0, <2>2
    <3>2. \A i \in 1 .. shorter : recs[i] \in AnyRecord
      BY <1>0, <3>1, ElementOfSeq
    <3>3. shorter \in Int /\ 1 \in Int
      BY <3>1
    <3> HIDE DEF shorter
    <3>4. /\ SubSeq(recs, 1, shorter) \in Seq(AnyRecord)
          /\ Len(SubSeq(recs, 1, shorter)) = IF 1 <= shorter THEN shorter - 1 + 1 ELSE 0
      BY <3>2, <3>3, SubSeqProperties
    <3>5. Len(SubSeq(recs, 1, shorter)) = shorter
      BY <3>1, <3>4
    <3> QED BY <2>1, <3>4, <3>5 DEF shorter
  <2> QED BY <1>0, <2>1, <2>2, <2>3 DEF OpsInv
<1>3. ASSUME NEW i \in DOMAIN recs, OpsBin!Damage(i) PROVE OpsInv'
  <2>1. /\ ops' = ops /\ spare' = spare /\ decoded' = OpsBin!NotDecoded
        /\ \/ \E k \in BadKinds : recs' = [recs EXCEPT ![i].kind = k]
           \/ \E v \in BadId2s : recs' = [recs EXCEPT ![i].id2 = v]
    BY <1>3 DEF OpsBin!Damage
  <2>2. recs[i] \in AnyRecord
    BY <1>0
  <2>3. PICK r \in AnyRecord : recs' = [recs EXCEPT ![i] = r]
    <3>1. CASE \E k \in BadKinds : recs' = [recs EXCEPT ![i].kind = k]
      <4>1. PICK k \in BadKinds : recs' = [recs EXCEPT ![i].kind = k]
        BY <3>1
      <4>2. [recs[i] EXCEPT !.kind = k] \in AnyRecord
        BY <2>2 DEF AnyRecord
      <4>3. recs' = [recs EXCEPT ![i] = [recs[i] EXCEPT !.kind = k]]
        BY <4>1
      <4> QED BY <4>2, <4>3
    <3>2. CASE \E v \in BadId2s : recs' = [recs EXCEPT ![i].id2 = v]
      <4>1. PICK v \in BadId2s : recs' = [recs EXCEPT ![i].id2 = v]
        BY <3>2
      <4>2. [recs[i] EXCEPT !.id2 = v] \in AnyRecord
        BY <2>2 DEF AnyRecord
      <4>3. recs' = [recs EXCEPT ![i] = [recs[i] EXCEPT !.id2 = v]]
        BY <4>1
      <4> QED BY <4>2, <4>3
    <3> QED BY <2>1, <3>1, <3>2
  <2>4. recs' \in Seq(AnyRecord) /\ Len(recs') = Len(recs)
    BY <1>0, <2>3
  <2> QED BY <1>0, <2>1, <2>4 DEF OpsInv
<1>4. ASSUME OpsBin!Read \/ OpsBin!Replay PROVE OpsInv'
  <2>1. recs' = recs /\ spare' = spare /\ ops' = ops
    BY <1>4 DEF OpsBin!Read, OpsBin!Replay
  <2>2. decoded' = decoded \/ decoded' = OpsBin!DecodeOps
    BY <1>4 DEF OpsBin!Read, OpsBin!Replay
  <2>3. OpsBin!DecodeOps' = OpsBin!DecodeOps
    BY <2>1, SameDecoding
  <2>4. decoded' \in {OpsBin!NotDecoded, OpsBin!DecodeOps}
    BY <2>2 DEF OpsInv
  <2> QED BY <1>0, <2>1, <2>3, <2>4 DEF OpsInv
<1> QED BY <1>1, <1>2, <1>3, <1>4 DEF OpsBin!Next

LEMMA SameOpsFile == OpsInv /\ UNCHANGED opsVars => OpsInv'
<1> SUFFICES ASSUME OpsInv, UNCHANGED opsVars PROVE OpsInv'
  OBVIOUS
<1>1. ops' = ops /\ recs' = recs /\ spare' = spare /\ decoded' = decoded
  BY DEF opsVars
<1>2. OpsBin!DecodeOps' = OpsBin!DecodeOps
  BY <1>1, SameDecoding
<1> QED BY <1>1, <1>2 DEF OpsInv

LEMMA OpsStarts == ReadersInit => OpsInv
<1> SUFFICES ASSUME ReadersInit PROVE OpsInv
  OBVIOUS
<1>1. ops = <<>> /\ recs = <<>> /\ spare = FALSE /\ decoded = OpsBin!NotDecoded
  BY DEF ReadersInit, OpsBin!Init
<1>2. ops \in Seq(OpsBin!Ops) /\ recs \in Seq(AnyRecord)
  BY <1>1, EmptySeq
<1>3. ops = recs /\ Len(recs) \in Nat /\ spare \in BOOLEAN
  BY <1>1, <1>2
<1>4. Len(recs) <= Len(ops)
  BY <1>3
<1> QED BY <1>1, <1>2, <1>3, <1>4 DEF OpsInv

LEMMA OpsFileStep == OpsInv /\ [ReadersNext]_readerVars => OpsInv'
<1> SUFFICES ASSUME OpsInv, [ReadersNext]_readerVars PROVE OpsInv'
  OBVIOUS
<1>1. CASE ReadOps
  BY <1>1, OpsStep DEF ReadOps
<1>2. CASE ~ReadOps
  <2>1. UNCHANGED opsVars
    BY <1>2 DEF ReadersNext, ReadFrames, ReadPayloads, ReadRecords, ReadSnapshots, readerVars
  <2> QED BY <2>1, SameOpsFile
<1> QED BY <1>1, <1>2

\* A file gives one operation for each record it holds, each the one it was written
\* with unless that very record was damaged, or the first record that is none is
\* named, or the bytes left over are; for any length, cut or damage.
THEOREM OpsAreReadBack == ReadersSpec => []OpsReadBack
<1> QED BY OpsStarts, OpsFileStep, OpsInvReads, PTL DEF ReadersSpec

-----------------------------------------------------------------------------
(* Both books.  What is proved of each of them is used here for the books  *)
(* a file is replayed into, with every argument a damaged record may give: *)
(* the second id may be anything, a price or a quantity may be zero.       *)

BookIds == Ids \cup {0, 1} \cup BadId2s
BookPrices == Prices \cup {0}
BookQtys == Qtys \cup {0}

\* Only what is proved of book values is used, so that the operation and the result
\* of the two modules, and all that is of one side alone, do not matter.
Fast == INSTANCE ArrayBookProofs WITH
          book <- played.array.book, op <- decoded, result <- decoded,
          Ids <- BookIds, Prices <- BookPrices, Qtys <- BookQtys, MaxHits <- 0,
          LevelPrices <- {}, MaxCount <- 0, MaxSideHits <- 0,
          bidOrAsk <- decoded, half <- decoded

Oracle == INSTANCE RefBookProofs WITH
            book <- played.ref.book, op <- decoded, result <- decoded,
            Ids <- BookIds, Prices <- BookPrices, Qtys <- BookQtys

\* What the two modules assume of their constants holds of these.
LEMMA BookArguments ==
  /\ BookPrices \subseteq Int /\ BookQtys \subseteq 0 .. MaxQty /\ MaxQty \in Nat \ {0}
  /\ BasePx \in Nat \ {0} /\ Tick \in Nat \ {0} /\ WordBits \in Nat \ {0}
  /\ NLevels \in 1 .. WordBits * WordBits
  /\ 0 \in Nat /\ {} \subseteq Nat \ {0}
BY BooksInput DEF BookPrices, BookQtys

\* The array book of a file is that of ArrayBookProofs, definition by definition.

LEMMA FastEmpty == OpsBin!Arr!EmptyArrayBook = Fast!EmptyArrayBook
BY DEF OpsBin!Arr!EmptyArrayBook, Fast!EmptyArrayBook, OpsBin!Arr!EmptySide, Fast!EmptySide,
       OpsBin!Arr!EmptySlab, Fast!EmptySlab, OpsBin!Arr!EmptyMap, Fast!EmptyMap,
       OpsBin!Arr!EmptyBitmap, Fast!EmptyBitmap, OpsBin!Arr!EmptyLevel, Fast!EmptyLevel,
       OpsBin!Arr!LevelIndices, Fast!LevelIndices, OpsBin!Arr!WordIndices, Fast!WordIndices,
       OpsBin!Arr!WordOf, Fast!WordOf, OpsBin!Arr!Nil, Fast!Nil,
       OpsBin!Arr!Sides, Fast!Sides

LEMMA FastMaps ==
  /\ \A m, k, v : OpsBin!Arr!With(m, k, v) = Fast!With(m, k, v)
  /\ \A m, k : OpsBin!Arr!Without(m, k) = Fast!Without(m, k)
BY DEF OpsBin!Arr!With, Fast!With, OpsBin!Arr!Without, Fast!Without

LEMMA FastSlab ==
  /\ \A s, p : OpsBin!Arr!SignedPx(s, p) = Fast!SignedPx(s, p)
  /\ \A x : OpsBin!Arr!SideOf(x) = Fast!SideOf(x)
  /\ \A x : OpsBin!Arr!AbsPx(x) = Fast!AbsPx(x)
  /\ \A s : OpsBin!Arr!AllocAt(s) = Fast!AllocAt(s)
  /\ \A s, id, n, p : OpsBin!Arr!Alloc(s, id, n, p) = Fast!Alloc(s, id, n, p)
  /\ \A s, i : OpsBin!Arr!Free(s, i) = Fast!Free(s, i)
BY DEF OpsBin!Arr!Alloc, Fast!Alloc, OpsBin!Arr!AllocAt, Fast!AllocAt, OpsBin!Arr!Free,
       Fast!Free, OpsBin!Arr!Slot, Fast!Slot, OpsBin!Arr!NoId, Fast!NoId, OpsBin!Arr!Nil,
       Fast!Nil, OpsBin!Arr!Indices, Fast!Indices, OpsBin!Arr!SignedPx, Fast!SignedPx,
       OpsBin!Arr!SideOf, Fast!SideOf, OpsBin!Arr!AbsPx, Fast!AbsPx, OpsBin!Arr!With,
       Fast!With, OpsBin!Arr!Without, Fast!Without

LEMMA FastSide ==
  /\ \A p : OpsBin!Arr!Locate(p) = Fast!Locate(p)
  /\ \A sl, l : OpsBin!Arr!LevelAt(sl, l) = Fast!LevelAt(sl, l)
  /\ \A sl, l, v : OpsBin!Arr!PutLevel(sl, l, v) = Fast!PutLevel(sl, l, v)
  /\ \A sl, l, n : OpsBin!Arr!AfterCountChange(sl, l, n) = Fast!AfterCountChange(sl, l, n)
  /\ \A sl, l, p : OpsBin!Arr!NoteAdd(sl, l, p) = Fast!NoteAdd(sl, l, p)
  /\ \A n : OpsBin!Arr!Wrap(n) = Fast!Wrap(n)
BY DEF OpsBin!Arr!Locate, Fast!Locate, OpsBin!Arr!InRange, Fast!InRange, OpsBin!Arr!Overflow,
       Fast!Overflow, OpsBin!Arr!LevelAt, Fast!LevelAt, OpsBin!Arr!PutLevel, Fast!PutLevel,
       OpsBin!Arr!AfterCountChange, Fast!AfterCountChange, OpsBin!Arr!NoteAdd, Fast!NoteAdd,
       OpsBin!Arr!EmptyLevel, Fast!EmptyLevel, OpsBin!Arr!Nil, Fast!Nil, OpsBin!Arr!With,
       Fast!With, OpsBin!Arr!Without, Fast!Without, OpsBin!Arr!SetBit, Fast!SetBit,
       OpsBin!Arr!ClearBit, Fast!ClearBit, OpsBin!Arr!WordOf, Fast!WordOf, OpsBin!Arr!BitOf,
       Fast!BitOf, OpsBin!Arr!AbsOffset, Fast!AbsOffset, OpsBin!Arr!Wrap, Fast!Wrap

LEMMA FastLinkTail ==
  \A b, s, l, i : OpsBin!Arr!LinkTail(b, s, l, i) = Fast!LinkTail(b, s, l, i)
<1> TAKE b, s, l, i
<1> DEFINE lvl == Fast!LevelAt(b.sides[s], l)
           linked == [head  |-> IF lvl.tail = Fast!Nil THEN i ELSE lvl.head,
                      tail  |-> i,
                      qty   |-> Fast!Wrap(lvl.qty + b.slab.slots[i].qty),
                      count |-> lvl.count + 1]
           slots == IF lvl.tail = Fast!Nil THEN b.slab.slots
                    ELSE [b.slab.slots EXCEPT ![lvl.tail].next = i, ![i].prev = lvl.tail]
<1>1. Fast!LinkTail(b, s, l, i) =
        [b EXCEPT !.slab.slots = slots,
                  !.sides[s] = Fast!AfterCountChange(Fast!PutLevel(@, l, linked), l, lvl.count)]
  BY DEF Fast!LinkTail
<1>2. OpsBin!Arr!LinkTail(b, s, l, i) =
        [b EXCEPT !.slab.slots = slots,
                  !.sides[s] =
                    OpsBin!Arr!AfterCountChange(OpsBin!Arr!PutLevel(@, l, linked), l, lvl.count)]
  <2>1. OpsBin!Arr!LevelAt(b.sides[s], l) = lvl /\ OpsBin!Arr!Nil = Fast!Nil
    BY FastSide DEF OpsBin!Arr!Nil, Fast!Nil
  <2>2. \A n : OpsBin!Arr!Wrap(n) = Fast!Wrap(n)
    BY FastSide
  <2> HIDE DEF lvl
  <2> QED BY <2>1, <2>2 DEF OpsBin!Arr!LinkTail
<1> HIDE DEF slots, linked, lvl
<1> QED BY <1>1, <1>2, FastSide

LEMMA FastUnlink ==
  \A b, s, l, i : OpsBin!Arr!Unlink(b, s, l, i) = Fast!Unlink(b, s, l, i)
<1> TAKE b, s, l, i
<1> DEFINE slot == b.slab.slots[i]
           lvl == Fast!LevelAt(b.sides[s], l)
           unlinked == [head  |-> IF slot.prev = Fast!Nil THEN slot.next ELSE lvl.head,
                        tail  |-> IF slot.next = Fast!Nil THEN slot.prev ELSE lvl.tail,
                        qty   |-> Fast!Wrap(lvl.qty - slot.qty),
                        count |-> lvl.count - 1]
           slots == [j \in Fast!Indices(b.slab) |->
                       [b.slab.slots[j] EXCEPT
                          !.next = IF j = slot.prev THEN slot.next ELSE @,
                          !.prev = IF j = slot.next THEN slot.prev ELSE @]]
<1>1. Fast!Unlink(b, s, l, i) =
        [b EXCEPT !.slab = Fast!Free([@ EXCEPT !.slots = slots], i),
                  !.sides[s] =
                    Fast!AfterCountChange(Fast!PutLevel(@, l, unlinked), l, lvl.count)]
  BY DEF Fast!Unlink
<1>2. OpsBin!Arr!Unlink(b, s, l, i) =
        [b EXCEPT !.slab = OpsBin!Arr!Free([@ EXCEPT !.slots = slots], i),
                  !.sides[s] =
                    OpsBin!Arr!AfterCountChange(OpsBin!Arr!PutLevel(@, l, unlinked), l, lvl.count)]
  BY FastSide DEF OpsBin!Arr!Unlink, OpsBin!Arr!Indices, Fast!Indices, OpsBin!Arr!Nil, Fast!Nil
<1> HIDE DEF slots, unlinked, lvl
<1> QED BY <1>1, <1>2, FastSide, FastSlab

LEMMA FastReduce ==
  \A b, s, l, i, n : OpsBin!Arr!Reduce(b, s, l, i, n) = Fast!Reduce(b, s, l, i, n)
BY DEF OpsBin!Arr!Reduce, Fast!Reduce, OpsBin!Arr!LevelAt, Fast!LevelAt,
       OpsBin!Arr!EmptyLevel, Fast!EmptyLevel, OpsBin!Arr!Nil, Fast!Nil, OpsBin!Arr!PutLevel,
       Fast!PutLevel, OpsBin!Arr!With, Fast!With, OpsBin!Arr!Wrap, Fast!Wrap

LEMMA FastAllocOrder ==
  \A b, id, s, p, n : OpsBin!Arr!AllocOrder(b, id, s, p, n) = Fast!AllocOrder(b, id, s, p, n)
BY DEF OpsBin!Arr!AllocOrder, Fast!AllocOrder, OpsBin!Arr!Alloc, Fast!Alloc,
       OpsBin!Arr!AllocAt, Fast!AllocAt, OpsBin!Arr!Free, Fast!Free, OpsBin!Arr!Slot,
       Fast!Slot, OpsBin!Arr!NoId, Fast!NoId, OpsBin!Arr!Nil, Fast!Nil, OpsBin!Arr!Indices,
       Fast!Indices, OpsBin!Arr!SignedPx, Fast!SignedPx, OpsBin!Arr!SideOf, Fast!SideOf,
       OpsBin!Arr!AbsPx, Fast!AbsPx, OpsBin!Arr!With, Fast!With, OpsBin!Arr!Without,
       Fast!Without

LEMMA FastCountAdd ==
  \A b, s, p : OpsBin!Arr!CountAdd(b, s, p) = Fast!CountAdd(b, s, p)
BY DEF OpsBin!Arr!CountAdd, Fast!CountAdd, OpsBin!Arr!NoteAdd, Fast!NoteAdd,
       OpsBin!Arr!AbsOffset, Fast!AbsOffset, OpsBin!Arr!Locate, Fast!Locate,
       OpsBin!Arr!InRange, Fast!InRange, OpsBin!Arr!Overflow, Fast!Overflow

LEMMA FastAfterAdd ==
  \A b, id, s, p, n : OpsBin!Arr!AfterAdd(b, id, s, p, n) = Fast!AfterAdd(b, id, s, p, n)
BY FastMaps, FastSlab, FastSide, FastLinkTail, FastUnlink, FastReduce, FastAllocOrder,
   FastCountAdd
   DEF OpsBin!Arr!AfterAdd, Fast!AfterAdd

LEMMA FastTake ==
  \A b, i, n : OpsBin!Arr!Take(b, i, n) = Fast!Take(b, i, n)
BY FastMaps, FastSlab, FastSide, FastLinkTail, FastUnlink, FastReduce, FastAllocOrder,
   FastCountAdd
   DEF OpsBin!Arr!Take, Fast!Take

LEMMA FastAfterReplace ==
  \A b, old, new, p, n :
    OpsBin!Arr!AfterReplace(b, old, new, p, n) = Fast!AfterReplace(b, old, new, p, n)
BY SMTT(40), FastMaps, FastSlab, FastSide, FastLinkTail, FastUnlink, FastReduce, FastAllocOrder,
   FastCountAdd
   DEF OpsBin!Arr!AfterReplace, Fast!AfterReplace

LEMMA FastAddError ==
  \A b, id, s, p, n : OpsBin!Arr!AddError(b, id, s, p, n) = Fast!AddError(b, id, s, p, n)
BY DEF OpsBin!Arr!AddError, Fast!AddError, OpsBin!Arr!LevelAt, Fast!LevelAt,
       OpsBin!Arr!EmptyLevel, Fast!EmptyLevel, OpsBin!Arr!Nil, Fast!Nil, OpsBin!Arr!Locate,
       Fast!Locate, OpsBin!Arr!InRange, Fast!InRange, OpsBin!Arr!Overflow, Fast!Overflow,
       OpsBin!Arr!BadQty, Fast!BadQty, OpsBin!Arr!BadPrice, Fast!BadPrice,
       OpsBin!Arr!DuplicateId, Fast!DuplicateId, OpsBin!Arr!NoError, Fast!NoError,
       OpsBin!Arr!UnknownId, Fast!UnknownId, OpsBin!Arr!OverExecute, Fast!OverExecute

LEMMA FastCancelError ==
  \A b, id, n : OpsBin!Arr!CancelError(b, id, n) = Fast!CancelError(b, id, n)
BY DEF OpsBin!Arr!CancelError, Fast!CancelError, OpsBin!Arr!BadQty, Fast!BadQty,
       OpsBin!Arr!BadPrice, Fast!BadPrice, OpsBin!Arr!DuplicateId, Fast!DuplicateId,
       OpsBin!Arr!NoError, Fast!NoError, OpsBin!Arr!UnknownId, Fast!UnknownId,
       OpsBin!Arr!OverExecute, Fast!OverExecute

LEMMA FastDeleteError ==
  \A b, id : OpsBin!Arr!DeleteError(b, id) = Fast!DeleteError(b, id)
BY DEF OpsBin!Arr!DeleteError, Fast!DeleteError, OpsBin!Arr!BadQty, Fast!BadQty,
       OpsBin!Arr!BadPrice, Fast!BadPrice, OpsBin!Arr!DuplicateId, Fast!DuplicateId,
       OpsBin!Arr!NoError, Fast!NoError, OpsBin!Arr!UnknownId, Fast!UnknownId,
       OpsBin!Arr!OverExecute, Fast!OverExecute

LEMMA FastExecuteError ==
  \A b, id, n : OpsBin!Arr!ExecuteError(b, id, n) = Fast!ExecuteError(b, id, n)
BY DEF OpsBin!Arr!ExecuteError, Fast!ExecuteError, OpsBin!Arr!BadQty, Fast!BadQty,
       OpsBin!Arr!BadPrice, Fast!BadPrice, OpsBin!Arr!DuplicateId, Fast!DuplicateId,
       OpsBin!Arr!NoError, Fast!NoError, OpsBin!Arr!UnknownId, Fast!UnknownId,
       OpsBin!Arr!OverExecute, Fast!OverExecute

LEMMA FastReplaceError ==
  \A b, old, new, p, n :
    OpsBin!Arr!ReplaceError(b, old, new, p, n) = Fast!ReplaceError(b, old, new, p, n)
BY DEF OpsBin!Arr!ReplaceError, Fast!ReplaceError, OpsBin!Arr!SideOf, Fast!SideOf,
       OpsBin!Arr!AbsPx, Fast!AbsPx, OpsBin!Arr!Wrap, Fast!Wrap, OpsBin!Arr!LevelAt,
       Fast!LevelAt, OpsBin!Arr!EmptyLevel, Fast!EmptyLevel, OpsBin!Arr!Nil, Fast!Nil,
       OpsBin!Arr!Locate, Fast!Locate, OpsBin!Arr!InRange, Fast!InRange, OpsBin!Arr!Overflow,
       Fast!Overflow, OpsBin!Arr!BadQty, Fast!BadQty, OpsBin!Arr!BadPrice, Fast!BadPrice,
       OpsBin!Arr!DuplicateId, Fast!DuplicateId, OpsBin!Arr!NoError, Fast!NoError,
       OpsBin!Arr!UnknownId, Fast!UnknownId, OpsBin!Arr!OverExecute, Fast!OverExecute

LEMMA FastEvents ==
  /\ \A id, s, p, n : OpsBin!Arr!AddEvent(id, s, p, n) = Fast!AddEvent(id, s, p, n)
  /\ \A id, s, p, n, m :
       OpsBin!Arr!CancelEvent(id, s, p, n, m) = Fast!CancelEvent(id, s, p, n, m)
  /\ \A id, s, p, n : OpsBin!Arr!DeleteEvent(id, s, p, n) = Fast!DeleteEvent(id, s, p, n)
  /\ \A id, s, p, n, m : OpsBin!Arr!ExecEvent(id, s, p, n, m) = Fast!ExecEvent(id, s, p, n, m)
  /\ \A id, i, s, p, n :
       OpsBin!Arr!ReplaceEvent(id, i, s, p, n) = Fast!ReplaceEvent(id, i, s, p, n)
  /\ \A b, e, c, x : OpsBin!Arr!Outcome(b, e, c, x) = Fast!Outcome(b, e, c, x)
BY DEF OpsBin!Arr!AddEvent, Fast!AddEvent, OpsBin!Arr!CancelEvent, Fast!CancelEvent,
       OpsBin!Arr!DeleteEvent, Fast!DeleteEvent, OpsBin!Arr!ExecEvent, Fast!ExecEvent,
       OpsBin!Arr!ReplaceEvent, Fast!ReplaceEvent, OpsBin!Arr!Outcome, Fast!Outcome,
       OpsBin!Arr!Ok, Fast!Ok, OpsBin!Arr!Err, Fast!Err, OpsBin!Arr!NoError, Fast!NoError,
       OpsBin!Arr!Event, Fast!Event, OpsBin!Arr!SideCode, Fast!SideCode

LEMMA FastAdded ==
  \A b, o : OpsBin!Arr!Added(b, o) = Fast!Added(b, o)
BY FastEvents, FastAddError, FastAfterAdd DEF OpsBin!Arr!Added, Fast!Added

LEMMA FastCancelled ==
  \A b, o : OpsBin!Arr!Cancelled(b, o) = Fast!Cancelled(b, o)
BY SMTT(40), FastEvents, FastCancelError, FastTake, FastSlab, FastSide
   DEF OpsBin!Arr!Cancelled, Fast!Cancelled

LEMMA FastDeleted ==
  \A b, o : OpsBin!Arr!Deleted(b, o) = Fast!Deleted(b, o)
BY FastEvents, FastDeleteError, FastTake, FastSlab DEF OpsBin!Arr!Deleted, Fast!Deleted

LEMMA FastExecuted ==
  \A b, o : OpsBin!Arr!Executed(b, o) = Fast!Executed(b, o)
BY FastEvents, FastExecuteError, FastTake, FastSlab, FastSide
   DEF OpsBin!Arr!Executed, Fast!Executed

LEMMA FastReplaced ==
  \A b, o : OpsBin!Arr!Replaced(b, o) = Fast!Replaced(b, o)
BY FastEvents, FastReplaceError, FastAfterReplace, FastSlab
   DEF OpsBin!Arr!Replaced, Fast!Replaced

LEMMA FastCalled ==
  \A b, o : o.kind \in {"Add", "Cancel", "Delete", "Exec", "Replace"} =>
              OpsBin!Arr!Called(b, o) = Fast!Called(b, o)
<1> TAKE b, o
<1>1. CASE o.kind = "Add"
  BY <1>1, FastAdded DEF OpsBin!Arr!Called, Fast!Called
<1>2. CASE o.kind = "Cancel"
  BY <1>2, FastCancelled DEF OpsBin!Arr!Called, Fast!Called
<1>3. CASE o.kind = "Delete"
  BY <1>3, FastDeleted DEF OpsBin!Arr!Called, Fast!Called
<1>4. CASE o.kind = "Exec"
  BY <1>4, FastExecuted DEF OpsBin!Arr!Called, Fast!Called
<1>5. CASE o.kind = "Replace"
  BY <1>5, FastReplaced DEF OpsBin!Arr!Called, Fast!Called
<1> QED BY <1>1, <1>2, <1>3, <1>4, <1>5

LEMMA FastBestFirst ==
  \A sl, s : OpsBin!Arr!BestFirst(sl, s) = Fast!BestFirst(sl, s)
BY ZenonT(60) DEF OpsBin!Arr!BestFirst, Fast!BestFirst, OpsBin!Arr!IterStart, Fast!IterStart,
       OpsBin!Arr!IterStep, Fast!IterStep, OpsBin!Arr!ArrayBest, Fast!ArrayBest,
       OpsBin!Arr!Better, Fast!Better, OpsBin!Arr!BestKey, Fast!BestKey, OpsBin!Arr!PxOf,
       Fast!PxOf, OpsBin!Arr!PrevSet, Fast!PrevSet, OpsBin!Arr!NextSet, Fast!NextSet,
       OpsBin!Arr!HighestSet, Fast!HighestSet, OpsBin!Arr!LowestSet, Fast!LowestSet,
       OpsBin!Arr!NoIndex, Fast!NoIndex, OpsBin!Arr!IndexOf, Fast!IndexOf, OpsBin!Arr!WordOf,
       Fast!WordOf, OpsBin!Arr!BitOf, Fast!BitOf, OpsBin!Arr!Max, Fast!Max, OpsBin!Arr!Min,
       Fast!Min, OpsBin!Arr!Cardinality, Fast!Cardinality, OpsBin!Arr!IsFiniteSet,
       Fast!IsFiniteSet

LEMMA FastChain ==
  /\ \A s, h : OpsBin!Arr!Chain(s, h) = Fast!Chain(s, h)
  /\ \A s : OpsBin!Arr!FlattenSeq(s) = Fast!FlattenSeq(s)
  /\ \A s : OpsBin!Arr!Reverse(s) = Fast!Reverse(s)
  /\ \A p, f : OpsBin!Arr!HashRecords(p, f) = Fast!HashRecords(p, f)
BY DEF OpsBin!Arr!Chain, Fast!Chain, OpsBin!Arr!Indices, Fast!Indices, OpsBin!Arr!Nil,
       Fast!Nil, OpsBin!Arr!FlattenSeq, Fast!FlattenSeq, OpsBin!Arr!Reverse, Fast!Reverse,
       OpsBin!Arr!HashRecords, Fast!HashRecords

LEMMA FastFifo ==
  \A b, l : OpsBin!Arr!Fifo(b, l) = Fast!Fifo(b, l)
BY FastChain DEF OpsBin!Arr!Fifo, Fast!Fifo, OpsBin!Arr!Order, Fast!Order

LEMMA FastHash ==
  \A b : OpsBin!Arr!HashInput(b) = Fast!HashInput(b)
<1> TAKE b
<1> DEFINE pxs(s) == IF s = "Bid" THEN Fast!Reverse(Fast!BestFirst(b.sides[s], s))
                                  ELSE Fast!BestFirst(b.sides[s], s)
           rec(s, p) ==
             Fast!HashRecords(p, Fast!Fifo(b, Fast!LevelAt(b.sides[s], Fast!Locate(p))))
           rec1(s, p) ==
             OpsBin!Arr!HashRecords(p, OpsBin!Arr!Fifo(b, OpsBin!Arr!LevelAt(b.sides[s], OpsBin!Arr!Locate(p))))
           pxs1(s) == IF s = "Bid" THEN OpsBin!Arr!Reverse(OpsBin!Arr!BestFirst(b.sides[s], s))
                                  ELSE OpsBin!Arr!BestFirst(b.sides[s], s)
           recs1(s) == [k \in DOMAIN pxs1(s) |-> rec1(s, pxs1(s)[k])]
           recs0(s) == [k \in DOMAIN pxs(s) |-> rec(s, pxs(s)[k])]
<1>1. Fast!HashInput(b) = Fast!FlattenSeq(recs0("Bid")) \o Fast!FlattenSeq(recs0("Ask"))
  BY DEF Fast!HashInput
<1>2. OpsBin!Arr!HashInput(b)
        = OpsBin!Arr!FlattenSeq(recs1("Bid")) \o OpsBin!Arr!FlattenSeq(recs1("Ask"))
  BY DEF OpsBin!Arr!HashInput
<1>3. \A s : pxs1(s) = pxs(s)
  BY FastBestFirst, FastChain
<1>4. \A s, p : rec1(s, p) = rec(s, p)
  BY FastFifo, FastChain, FastSide
<1> HIDE DEF pxs, pxs1, rec, rec1
<1>5. \A s : recs1(s) = recs0(s)
  BY <1>3, <1>4
<1> HIDE DEF recs0, recs1
<1> QED BY <1>1, <1>2, <1>5, FastChain

-----------------------------------------------------------------------------
(* Likewise the oracle, and the book both of them promise.                 *)

LEMMA OracleEmpty == OpsBin!Ref!EmptyRefBook = Oracle!EmptyRefBook
BY DEF OpsBin!Ref!EmptyRefBook, Oracle!EmptyRefBook, OpsBin!Ref!EmptyMap, Oracle!EmptyMap,
       OpsBin!Ref!Sides, Oracle!Sides

LEMMA OracleFind ==
  \A b, id : OpsBin!Ref!Find(b, id) = Oracle!Find(b, id)
BY DEF OpsBin!Ref!Find, Oracle!Find, OpsBin!Ref!Fifo, Oracle!Fifo, OpsBin!Ref!PosOf,
       Oracle!PosOf, OpsBin!Ref!SelectInSeq, Oracle!SelectInSeq, OpsBin!Ref!Min, Oracle!Min

LEMMA OracleTake ==
  \A b, id, f, n : OpsBin!Ref!Take(b, id, f, n) = Oracle!Take(b, id, f, n)
BY DEF OpsBin!Ref!Take, Oracle!Take, OpsBin!Ref!RemoveAt, Oracle!RemoveAt, OpsBin!Ref!Without,
       Oracle!Without

LEMMA OraclePushTail ==
  \A b, id, s, p, n : OpsBin!Ref!PushTail(b, id, s, p, n) = Oracle!PushTail(b, id, s, p, n)
BY DEF OpsBin!Ref!PushTail, Oracle!PushTail, OpsBin!Ref!With, Oracle!With, OpsBin!Ref!Fifo,
       Oracle!Fifo, OpsBin!Ref!Order, Oracle!Order

LEMMA OracleAddError ==
  \A b, id, s, p, n : OpsBin!Ref!AddError(b, id, s, p, n) = Oracle!AddError(b, id, s, p, n)
BY DEF OpsBin!Ref!AddError, Oracle!AddError, OpsBin!Ref!Fifo, Oracle!Fifo,
       OpsBin!Ref!LevelQty, Oracle!LevelQty, OpsBin!Ref!QtyOfFirst, Oracle!QtyOfFirst,
       OpsBin!Ref!WouldOverflow, Oracle!WouldOverflow, OpsBin!Ref!BadQty, Oracle!BadQty,
       OpsBin!Ref!BadPrice, Oracle!BadPrice, OpsBin!Ref!DuplicateId, Oracle!DuplicateId,
       OpsBin!Ref!NoError, Oracle!NoError, OpsBin!Ref!UnknownId, Oracle!UnknownId,
       OpsBin!Ref!OverExecute, Oracle!OverExecute

LEMMA OracleCancelError ==
  \A b, id, n : OpsBin!Ref!CancelError(b, id, n) = Oracle!CancelError(b, id, n)
BY DEF OpsBin!Ref!CancelError, Oracle!CancelError, OpsBin!Ref!Fifo, Oracle!Fifo,
       OpsBin!Ref!Found, Oracle!Found, OpsBin!Ref!PosOf, Oracle!PosOf, OpsBin!Ref!SelectInSeq,
       Oracle!SelectInSeq, OpsBin!Ref!Min, Oracle!Min, OpsBin!Ref!BadQty, Oracle!BadQty,
       OpsBin!Ref!BadPrice, Oracle!BadPrice, OpsBin!Ref!DuplicateId, Oracle!DuplicateId,
       OpsBin!Ref!NoError, Oracle!NoError, OpsBin!Ref!UnknownId, Oracle!UnknownId,
       OpsBin!Ref!OverExecute, Oracle!OverExecute

LEMMA OracleDeleteError ==
  \A b, id : OpsBin!Ref!DeleteError(b, id) = Oracle!DeleteError(b, id)
BY DEF OpsBin!Ref!DeleteError, Oracle!DeleteError, OpsBin!Ref!Fifo, Oracle!Fifo,
       OpsBin!Ref!Found, Oracle!Found, OpsBin!Ref!PosOf, Oracle!PosOf, OpsBin!Ref!SelectInSeq,
       Oracle!SelectInSeq, OpsBin!Ref!Min, Oracle!Min, OpsBin!Ref!BadQty, Oracle!BadQty,
       OpsBin!Ref!BadPrice, Oracle!BadPrice, OpsBin!Ref!DuplicateId, Oracle!DuplicateId,
       OpsBin!Ref!NoError, Oracle!NoError, OpsBin!Ref!UnknownId, Oracle!UnknownId,
       OpsBin!Ref!OverExecute, Oracle!OverExecute

LEMMA OracleExecuteError ==
  \A b, id, n : OpsBin!Ref!ExecuteError(b, id, n) = Oracle!ExecuteError(b, id, n)
BY DEF OpsBin!Ref!ExecuteError, Oracle!ExecuteError, OpsBin!Ref!Fifo, Oracle!Fifo,
       OpsBin!Ref!Found, Oracle!Found, OpsBin!Ref!Find, Oracle!Find, OpsBin!Ref!PosOf,
       Oracle!PosOf, OpsBin!Ref!SelectInSeq, Oracle!SelectInSeq, OpsBin!Ref!Min, Oracle!Min,
       OpsBin!Ref!BadQty, Oracle!BadQty, OpsBin!Ref!BadPrice, Oracle!BadPrice,
       OpsBin!Ref!DuplicateId, Oracle!DuplicateId, OpsBin!Ref!NoError, Oracle!NoError,
       OpsBin!Ref!UnknownId, Oracle!UnknownId, OpsBin!Ref!OverExecute, Oracle!OverExecute

LEMMA OracleReplaceError ==
  \A b, old, new, p, n :
    OpsBin!Ref!ReplaceError(b, old, new, p, n) = Oracle!ReplaceError(b, old, new, p, n)
BY SMTT(40) DEF OpsBin!Ref!ReplaceError, Oracle!ReplaceError, OpsBin!Ref!Fifo, Oracle!Fifo,
       OpsBin!Ref!Found, Oracle!Found, OpsBin!Ref!Find, Oracle!Find, OpsBin!Ref!PosOf,
       Oracle!PosOf, OpsBin!Ref!SelectInSeq, Oracle!SelectInSeq, OpsBin!Ref!Min, Oracle!Min,
       OpsBin!Ref!LevelQty, Oracle!LevelQty, OpsBin!Ref!QtyOfFirst, Oracle!QtyOfFirst,
       OpsBin!Ref!WouldOverflow, Oracle!WouldOverflow, OpsBin!Ref!BadQty, Oracle!BadQty,
       OpsBin!Ref!BadPrice, Oracle!BadPrice, OpsBin!Ref!DuplicateId, Oracle!DuplicateId,
       OpsBin!Ref!NoError, Oracle!NoError, OpsBin!Ref!UnknownId, Oracle!UnknownId,
       OpsBin!Ref!OverExecute, Oracle!OverExecute

LEMMA OracleEvents ==
  /\ \A id, s, p, n : OpsBin!Ref!AddEvent(id, s, p, n) = Oracle!AddEvent(id, s, p, n)
  /\ \A id, s, p, n, m :
       OpsBin!Ref!CancelEvent(id, s, p, n, m) = Oracle!CancelEvent(id, s, p, n, m)
  /\ \A id, s, p, n : OpsBin!Ref!DeleteEvent(id, s, p, n) = Oracle!DeleteEvent(id, s, p, n)
  /\ \A id, s, p, n, m : OpsBin!Ref!ExecEvent(id, s, p, n, m) = Oracle!ExecEvent(id, s, p, n, m)
  /\ \A id, i, s, p, n :
       OpsBin!Ref!ReplaceEvent(id, i, s, p, n) = Oracle!ReplaceEvent(id, i, s, p, n)
  /\ \A b, e, c, x : OpsBin!Ref!Outcome(b, e, c, x) = Oracle!Outcome(b, e, c, x)
BY DEF OpsBin!Ref!AddEvent, Oracle!AddEvent, OpsBin!Ref!CancelEvent, Oracle!CancelEvent,
       OpsBin!Ref!DeleteEvent, Oracle!DeleteEvent, OpsBin!Ref!ExecEvent, Oracle!ExecEvent,
       OpsBin!Ref!ReplaceEvent, Oracle!ReplaceEvent, OpsBin!Ref!Outcome, Oracle!Outcome,
       OpsBin!Ref!Ok, Oracle!Ok, OpsBin!Ref!Err, Oracle!Err, OpsBin!Ref!NoError,
       Oracle!NoError, OpsBin!Ref!Event, Oracle!Event, OpsBin!Ref!SideCode, Oracle!SideCode

LEMMA OracleAdded ==
  \A b, o : OpsBin!Ref!Added(b, o) = Oracle!Added(b, o)
BY OracleEvents, OracleAddError, OraclePushTail DEF OpsBin!Ref!Added, Oracle!Added

LEMMA OracleCancelled ==
  \A b, o : OpsBin!Ref!Cancelled(b, o) = Oracle!Cancelled(b, o)
BY OracleEvents, OracleCancelError, OracleTake, OracleFind
   DEF OpsBin!Ref!Cancelled, Oracle!Cancelled

LEMMA OracleDeleted ==
  \A b, o : OpsBin!Ref!Deleted(b, o) = Oracle!Deleted(b, o)
BY OracleEvents, OracleDeleteError, OracleTake, OracleFind
   DEF OpsBin!Ref!Deleted, Oracle!Deleted

LEMMA OracleExecuted ==
  \A b, o : OpsBin!Ref!Executed(b, o) = Oracle!Executed(b, o)
BY OracleEvents, OracleExecuteError, OracleTake, OracleFind
   DEF OpsBin!Ref!Executed, Oracle!Executed

LEMMA OracleReplaced ==
  \A b, o : OpsBin!Ref!Replaced(b, o) = Oracle!Replaced(b, o)
BY OracleEvents, OracleReplaceError, OracleTake, OracleFind, OraclePushTail
   DEF OpsBin!Ref!Replaced, Oracle!Replaced

LEMMA OracleCalled ==
  \A b, o : o.kind \in {"Add", "Cancel", "Delete", "Exec", "Replace"} =>
              OpsBin!Ref!Called(b, o) = Oracle!Called(b, o)
<1> TAKE b, o
<1>1. CASE o.kind = "Add"
  BY <1>1, OracleAdded DEF OpsBin!Ref!Called, Oracle!Called
<1>2. CASE o.kind = "Cancel"
  BY <1>2, OracleCancelled DEF OpsBin!Ref!Called, Oracle!Called
<1>3. CASE o.kind = "Delete"
  BY <1>3, OracleDeleted DEF OpsBin!Ref!Called, Oracle!Called
<1>4. CASE o.kind = "Exec"
  BY <1>4, OracleExecuted DEF OpsBin!Ref!Called, Oracle!Called
<1>5. CASE o.kind = "Replace"
  BY <1>5, OracleReplaced DEF OpsBin!Ref!Called, Oracle!Called
<1> QED BY <1>1, <1>2, <1>3, <1>4, <1>5

LEMMA OracleHash ==
  \A b : OpsBin!Ref!HashInput(b) = Oracle!HashInput(b)
BY ZenonT(60) DEF OpsBin!Ref!HashInput, Oracle!HashInput, OpsBin!Ref!Ascending, Oracle!Ascending,
       OpsBin!Ref!InPriority, Oracle!InPriority, OpsBin!Ref!Better, Oracle!Better,
       OpsBin!Ref!Cardinality, Oracle!Cardinality, OpsBin!Ref!IsFiniteSet, Oracle!IsFiniteSet,
       OpsBin!Ref!FlattenSeq, Oracle!FlattenSeq, OpsBin!Ref!HashRecords, Oracle!HashRecords

LEMMA BothEmpty == Fast!Promise!EmptyBook = Oracle!Promise!EmptyBook
BY DEF Fast!Promise!EmptyBook, Oracle!Promise!EmptyBook, Fast!Promise!Sides,
       Oracle!Promise!Sides, Fast!Promise!ValidPrices, Oracle!Promise!ValidPrices

LEMMA BothReads ==
  /\ \A q, id : Fast!Promise!Find(q, id) = Oracle!Promise!Find(q, id)
  /\ \A q : Fast!Promise!LiveIds(q) = Oracle!Promise!LiveIds(q)
  /\ \A f : Fast!Promise!LevelQty(f) = Oracle!Promise!LevelQty(f)
BY DEF Fast!Promise!Find, Oracle!Promise!Find, Fast!Promise!PosOf, Oracle!Promise!PosOf,
       Fast!Promise!SelectInSeq, Oracle!Promise!SelectInSeq, Fast!Promise!Min,
       Oracle!Promise!Min, Fast!Promise!IdsOf, Oracle!Promise!IdsOf, Fast!Promise!Sides,
       Oracle!Promise!Sides, Fast!Promise!ValidPrices, Oracle!Promise!ValidPrices,
       Fast!Promise!LiveIds, Oracle!Promise!LiveIds, Fast!Promise!LevelQty,
       Oracle!Promise!LevelQty, Fast!Promise!QtyOfFirst, Oracle!Promise!QtyOfFirst

LEMMA BothChanges ==
  /\ \A q, f, n : Fast!Promise!TakeFrom(q, f, n) = Oracle!Promise!TakeFrom(q, f, n)
  /\ \A q, s, p, o : Fast!Promise!PushTail(q, s, p, o) = Oracle!Promise!PushTail(q, s, p, o)
  /\ \A id, n : Fast!Promise!Order(id, n) = Oracle!Promise!Order(id, n)
BY DEF Fast!Promise!TakeFrom, Oracle!Promise!TakeFrom, Fast!Promise!PushTail,
       Oracle!Promise!PushTail, Fast!Promise!RemoveAt, Oracle!Promise!RemoveAt,
       Fast!Promise!Order, Oracle!Promise!Order

LEMMA BothAddError ==
  \A q, id, s, p, n :
    Fast!Promise!AddError(q, id, s, p, n) = Oracle!Promise!AddError(q, id, s, p, n)
BY BothReads DEF Fast!Promise!AddError, Oracle!Promise!AddError, Fast!Promise!BadQty,
       Oracle!Promise!BadQty, Fast!Promise!BadPrice, Oracle!Promise!BadPrice,
       Fast!Promise!DuplicateId, Oracle!Promise!DuplicateId, Fast!Promise!NoError,
       Oracle!Promise!NoError, Fast!Promise!UnknownId, Oracle!Promise!UnknownId,
       Fast!Promise!OverExecute, Oracle!Promise!OverExecute

LEMMA BothCancelError ==
  \A q, id, n : Fast!Promise!CancelError(q, id, n) = Oracle!Promise!CancelError(q, id, n)
BY BothReads DEF Fast!Promise!CancelError, Oracle!Promise!CancelError, Fast!Promise!BadQty,
       Oracle!Promise!BadQty, Fast!Promise!BadPrice, Oracle!Promise!BadPrice,
       Fast!Promise!DuplicateId, Oracle!Promise!DuplicateId, Fast!Promise!NoError,
       Oracle!Promise!NoError, Fast!Promise!UnknownId, Oracle!Promise!UnknownId,
       Fast!Promise!OverExecute, Oracle!Promise!OverExecute

LEMMA BothDeleteError ==
  \A q, id : Fast!Promise!DeleteError(q, id) = Oracle!Promise!DeleteError(q, id)
BY BothReads DEF Fast!Promise!DeleteError, Oracle!Promise!DeleteError, Fast!Promise!BadQty,
       Oracle!Promise!BadQty, Fast!Promise!BadPrice, Oracle!Promise!BadPrice,
       Fast!Promise!DuplicateId, Oracle!Promise!DuplicateId, Fast!Promise!NoError,
       Oracle!Promise!NoError, Fast!Promise!UnknownId, Oracle!Promise!UnknownId,
       Fast!Promise!OverExecute, Oracle!Promise!OverExecute

LEMMA BothExecuteError ==
  \A q, id, n : Fast!Promise!ExecuteError(q, id, n) = Oracle!Promise!ExecuteError(q, id, n)
BY BothReads DEF Fast!Promise!ExecuteError, Oracle!Promise!ExecuteError, Fast!Promise!BadQty,
       Oracle!Promise!BadQty, Fast!Promise!BadPrice, Oracle!Promise!BadPrice,
       Fast!Promise!DuplicateId, Oracle!Promise!DuplicateId, Fast!Promise!NoError,
       Oracle!Promise!NoError, Fast!Promise!UnknownId, Oracle!Promise!UnknownId,
       Fast!Promise!OverExecute, Oracle!Promise!OverExecute

LEMMA BothReplaceError ==
  \A q, old, new, p, n :
    Fast!Promise!ReplaceError(q, old, new, p, n) = Oracle!Promise!ReplaceError(q, old, new, p, n)
BY BothReads DEF Fast!Promise!ReplaceError, Oracle!Promise!ReplaceError, Fast!Promise!BadQty,
       Oracle!Promise!BadQty, Fast!Promise!BadPrice, Oracle!Promise!BadPrice,
       Fast!Promise!DuplicateId, Oracle!Promise!DuplicateId, Fast!Promise!NoError,
       Oracle!Promise!NoError, Fast!Promise!UnknownId, Oracle!Promise!UnknownId,
       Fast!Promise!OverExecute, Oracle!Promise!OverExecute

LEMMA BothEvents ==
  /\ \A id, s, p, n : Fast!Promise!AddEvent(id, s, p, n) = Oracle!Promise!AddEvent(id, s, p, n)
  /\ \A id, s, p, n, m :
       Fast!Promise!CancelEvent(id, s, p, n, m) = Oracle!Promise!CancelEvent(id, s, p, n, m)
  /\ \A id, s, p, n :
       Fast!Promise!DeleteEvent(id, s, p, n) = Oracle!Promise!DeleteEvent(id, s, p, n)
  /\ \A id, s, p, n, m :
       Fast!Promise!ExecEvent(id, s, p, n, m) = Oracle!Promise!ExecEvent(id, s, p, n, m)
  /\ \A id, i, s, p, n :
       Fast!Promise!ReplaceEvent(id, i, s, p, n) = Oracle!Promise!ReplaceEvent(id, i, s, p, n)
  /\ \A b, e, c, x : Fast!Promise!Outcome(b, e, c, x) = Oracle!Promise!Outcome(b, e, c, x)
BY DEF Fast!Promise!AddEvent, Oracle!Promise!AddEvent, Fast!Promise!CancelEvent,
       Oracle!Promise!CancelEvent, Fast!Promise!DeleteEvent, Oracle!Promise!DeleteEvent,
       Fast!Promise!ExecEvent, Oracle!Promise!ExecEvent, Fast!Promise!ReplaceEvent,
       Oracle!Promise!ReplaceEvent, Fast!Promise!Outcome, Oracle!Promise!Outcome,
       Fast!Promise!Ok, Oracle!Promise!Ok, Fast!Promise!Err, Oracle!Promise!Err,
       Fast!Promise!NoError, Oracle!Promise!NoError, Fast!Promise!Event, Oracle!Promise!Event,
       Fast!Promise!SideCode, Oracle!Promise!SideCode

LEMMA BothPromisedAdd ==
  \A q, id, s, p, n :
    Fast!PromisedAdd(q, id, s, p, n) = Oracle!PromisedAdd(q, id, s, p, n)
BY BothEvents, BothChanges, BothAddError DEF Fast!PromisedAdd, Oracle!PromisedAdd

LEMMA BothPromisedCancel ==
  \A q, id, n :
    Fast!PromisedCancel(q, id, n) = Oracle!PromisedCancel(q, id, n)
BY BothEvents, BothChanges, BothCancelError, BothReads
   DEF Fast!PromisedCancel, Oracle!PromisedCancel

LEMMA BothPromisedDelete ==
  \A q, id :
    Fast!PromisedDelete(q, id) = Oracle!PromisedDelete(q, id)
BY BothEvents, BothChanges, BothDeleteError, BothReads
   DEF Fast!PromisedDelete, Oracle!PromisedDelete

LEMMA BothPromisedExecute ==
  \A q, id, n :
    Fast!PromisedExecute(q, id, n) = Oracle!PromisedExecute(q, id, n)
BY BothEvents, BothChanges, BothExecuteError, BothReads
   DEF Fast!PromisedExecute, Oracle!PromisedExecute

LEMMA BothPromisedReplace ==
  \A q, old, new, p, n :
    Fast!PromisedReplace(q, old, new, p, n) = Oracle!PromisedReplace(q, old, new, p, n)
BY BothEvents, BothChanges, BothReplaceError, BothReads
   DEF Fast!PromisedReplace, Oracle!PromisedReplace

LEMMA BothPromised ==
  \A q, o : o.kind \in {"Add", "Cancel", "Delete", "Exec", "Replace"} =>
              Fast!Promised(q, o) = Oracle!Promised(q, o)
<1> TAKE q, o
<1>1. CASE o.kind = "Add"
  BY <1>1, BothPromisedAdd DEF Fast!Promised, Oracle!Promised
<1>2. CASE o.kind = "Cancel"
  BY <1>2, BothPromisedCancel DEF Fast!Promised, Oracle!Promised
<1>3. CASE o.kind = "Delete"
  BY <1>3, BothPromisedDelete DEF Fast!Promised, Oracle!Promised
<1>4. CASE o.kind = "Exec"
  BY <1>4, BothPromisedExecute DEF Fast!Promised, Oracle!Promised
<1>5. CASE o.kind = "Replace"
  BY <1>5, BothPromisedReplace DEF Fast!Promised, Oracle!Promised
<1> QED BY <1>1, <1>2, <1>3, <1>4, <1>5

LEMMA BothHash ==
  \A q : Fast!Promise!HashInput(q) = Oracle!Promise!HashInput(q)
BY ZenonT(60) DEF Fast!Promise!HashInput, Oracle!Promise!HashInput, Fast!Promise!Ascending,
       Oracle!Promise!Ascending, Fast!Promise!InPriority, Oracle!Promise!InPriority,
       Fast!Promise!Better, Oracle!Promise!Better, Fast!Promise!Occupied,
       Oracle!Promise!Occupied, Fast!Promise!ValidPrices, Oracle!Promise!ValidPrices,
       Fast!Promise!Cardinality, Oracle!Promise!Cardinality, Fast!Promise!IsFiniteSet,
       Oracle!Promise!IsFiniteSet, Fast!Promise!FlattenSeq, Oracle!Promise!FlattenSeq,
       Fast!Promise!HashRecords, Oracle!Promise!HashRecords

-----------------------------------------------------------------------------
(* The replay.                                                             *)

LEMMA SameOps == Fast!Ops = Oracle!Ops
BY DEF Fast!Ops, Oracle!Ops, Fast!AddOp, Oracle!AddOp, Fast!CancelOp, Oracle!CancelOp,
       Fast!ExecuteOp, Oracle!ExecuteOp, Fast!DeleteOp, Oracle!DeleteOp, Fast!ReplaceOp,
       Oracle!ReplaceOp, Fast!Sides, Oracle!Sides

\* A record that is an operation gives one both books take.
LEMMA DecodedIsTaken ==
  ASSUME NEW r \in AnyRecord, OpsBin!IsOp(r)
  PROVE  LET o == OpsBin!Decode(r)
         IN  /\ o \in Fast!Ops /\ o \in Oracle!Ops
             /\ o.kind \in {"Add", "Cancel", "Delete", "Exec", "Replace"}
<1> DEFINE o == OpsBin!Decode(r)
           side == IF r.id2 = 0 THEN "Bid" ELSE "Ask"
<1>1. /\ r.id \in BookIds /\ r.id2 \in BookIds
      /\ r.px \in BookPrices /\ r.qty \in BookQtys
  BY DEF AnyRecord, BookIds, BookPrices, BookQtys
<1>2. side \in Oracle!Sides
  BY DEF Oracle!Sides
<1>3. r.kind = 1 \/ r.kind = 2 \/ r.kind = 3 \/ r.kind = 4 \/ r.kind = 5
  <2>1. r.kind \in 1 .. 5
    BY KindsOf DEF OpsBin!IsOp
  <2> QED BY <2>1
<1> HIDE DEF side
<1>4. CASE r.kind = 1
  <2>1. o = OpsBin!AddOp(r.id, side, r.px, r.qty)
    BY <1>4, KindsOf DEF OpsBin!Decode, side
  <2> HIDE DEF o
  <2>2. o = Oracle!AddOp(r.id, side, r.px, r.qty)
    BY <2>1 DEF OpsBin!AddOp, Oracle!AddOp
  <2>3. o \in Oracle!Ops
    BY <1>1, <1>2, <2>2 DEF Oracle!Ops
  <2>4. o \in Fast!Ops
    BY <2>3, SameOps
  <2>5. o.kind = "Add"
    BY <2>1 DEF OpsBin!AddOp
  <2> QED BY <2>3, <2>4, <2>5 DEF o
<1>5. CASE r.kind = 2
  <2>1. o = OpsBin!CancelOp(r.id, r.qty)
    BY <1>5, KindsOf DEF OpsBin!Decode
  <2> HIDE DEF o
  <2>2. o = Oracle!CancelOp(r.id, r.qty)
    BY <2>1 DEF OpsBin!CancelOp, Oracle!CancelOp
  <2>3. o \in Oracle!Ops
    BY <1>1, <2>2 DEF Oracle!Ops
  <2>4. o \in Fast!Ops
    BY <2>3, SameOps
  <2>5. o.kind = "Cancel"
    BY <2>1 DEF OpsBin!CancelOp
  <2> QED BY <2>3, <2>4, <2>5 DEF o
<1>6. CASE r.kind = 3
  <2>1. o = OpsBin!ExecuteOp(r.id, r.qty)
    BY <1>6, KindsOf DEF OpsBin!Decode
  <2> HIDE DEF o
  <2>2. o = Oracle!ExecuteOp(r.id, r.qty)
    BY <2>1 DEF OpsBin!ExecuteOp, Oracle!ExecuteOp
  <2>3. o \in Oracle!Ops
    BY <1>1, <2>2 DEF Oracle!Ops
  <2>4. o \in Fast!Ops
    BY <2>3, SameOps
  <2>5. o.kind = "Exec"
    BY <2>1 DEF OpsBin!ExecuteOp
  <2> QED BY <2>3, <2>4, <2>5 DEF o
<1>7. CASE r.kind = 4
  <2>1. o = OpsBin!DeleteOp(r.id)
    BY <1>7, KindsOf DEF OpsBin!Decode
  <2> HIDE DEF o
  <2>2. o = Oracle!DeleteOp(r.id)
    BY <2>1 DEF OpsBin!DeleteOp, Oracle!DeleteOp
  <2>3. o \in Oracle!Ops
    BY <1>1, <2>2 DEF Oracle!Ops
  <2>4. o \in Fast!Ops
    BY <2>3, SameOps
  <2>5. o.kind = "Delete"
    BY <2>1 DEF OpsBin!DeleteOp
  <2> QED BY <2>3, <2>4, <2>5 DEF o
<1>8. CASE r.kind = 5
  <2>1. o = OpsBin!ReplaceOp(r.id, r.id2, r.px, r.qty)
    BY <1>8, KindsOf DEF OpsBin!Decode
  <2> HIDE DEF o
  <2>2. o = Oracle!ReplaceOp(r.id, r.id2, r.px, r.qty)
    BY <2>1 DEF OpsBin!ReplaceOp, Oracle!ReplaceOp
  <2>3. o \in Oracle!Ops
    BY <1>1, <2>2 DEF Oracle!Ops
  <2>4. o \in Fast!Ops
    BY <2>3, SameOps
  <2>5. o.kind = "Replace"
    BY <2>1 DEF OpsBin!ReplaceOp
  <2> QED BY <2>3, <2>4, <2>5 DEF o
<1> QED BY <1>3, <1>4, <1>5, <1>6, <1>7, <1>8

\* Both books are sound, hold the same orders in the same places, and have logged
\* the same.
PlayedInv ==
  /\ Fast!Sound(played.array.book) /\ Fast!Covered(played.array.book)
  /\ Oracle!Sound(played.ref.book)
  /\ Fast!Q(played.array.book) = Oracle!Q(played.ref.book)
  /\ played.ref.log = played.array.log
  /\ \E S : played.ref.log \in Seq(S)
  /\ played.ref.errors = played.array.errors

LEMMA PlayedAgrees == PlayedInv => BooksAgree
<1> SUFFICES ASSUME PlayedInv PROVE OpsBin!BooksAgree
  BY DEF BooksAgree
<1> DEFINE a == played.array.book
           r == played.ref.book
<1>1. OpsBin!Arr!HashInput(a) = Fast!Promise!HashInput(Fast!Q(a))
  BY BookArguments, FastHash, Fast!SameHashInput DEF PlayedInv
<1>2. OpsBin!Ref!HashInput(r) = Oracle!Promise!HashInput(Oracle!Q(r))
  BY BookArguments, OracleHash, Oracle!SameHashInput DEF PlayedInv
<1>3. Fast!Promise!HashInput(Fast!Q(a)) = Oracle!Promise!HashInput(Oracle!Q(r))
  BY BothHash DEF PlayedInv
<1> QED BY <1>1, <1>2, <1>3 DEF PlayedInv, OpsBin!BooksAgree

LEMMA PlayedStarts == OpsBin!Init => PlayedInv
<1> SUFFICES ASSUME OpsBin!Init PROVE PlayedInv
  OBVIOUS
<1>1. /\ played.ref.log = <<>> /\ played.array.log = <<>>
      /\ played.ref.errors = 0 /\ played.array.errors = 0
      /\ played.ref.book = Oracle!EmptyRefBook /\ played.array.book = Fast!EmptyArrayBook
  BY FastEmpty, OracleEmpty DEF OpsBin!Init, OpsBin!NotPlayed, OpsBin!Begin
<1>2. Fast!Sound(Fast!EmptyArrayBook) /\ Fast!Covered(Fast!EmptyArrayBook)
  BY BookArguments, Fast!EmptyIsSound
<1>3. Oracle!Sound(Oracle!EmptyRefBook)
  BY BookArguments, Oracle!EmptyIsSound
<1>4. Fast!Q(Fast!EmptyArrayBook) = Oracle!Q(Oracle!EmptyRefBook)
  BY BookArguments, Fast!EmptyIsPromised, Oracle!EmptyIsPromised, BothEmpty
<1>5. <<>> \in Seq({})
  BY EmptySeq
<1> QED BY <1>1, <1>2, <1>3, <1>4, <1>5 DEF PlayedInv

\* An operation is taken alike by two books that hold the same.
LEMMA TakenAlike ==
  ASSUME NEW a, NEW r, NEW o, Fast!Sound(a), Fast!Covered(a), Oracle!Sound(r),
         Fast!Q(a) = Oracle!Q(r), o \in Fast!Ops, o \in Oracle!Ops,
         o.kind \in {"Add", "Cancel", "Delete", "Exec", "Replace"}
  PROVE  LET a2 == OpsBin!Arr!Called(a, o)
             r2 == OpsBin!Ref!Called(r, o)
         IN  /\ Fast!Sound(a2.book) /\ Fast!Covered(a2.book) /\ Oracle!Sound(r2.book)
             /\ Fast!Q(a2.book) = Oracle!Q(r2.book)
             /\ a2.result = r2.result
<1> DEFINE a2 == OpsBin!Arr!Called(a, o)
           r2 == OpsBin!Ref!Called(r, o)
           pa == Fast!Promised(Fast!Q(a), o)
           pr == Oracle!Promised(Oracle!Q(r), o)
<1>1. a2 = Fast!Called(a, o) /\ r2 = Oracle!Called(r, o)
  BY FastCalled, OracleCalled
<1>2. pa = pr
  BY BothPromised
<1>3. Fast!Sound(a2.book) /\ Fast!Covered(a2.book) /\ Fast!Gives(a2, pa)
  BY BookArguments, <1>1, Fast!CalledGives
<1>4. Oracle!Sound(r2.book) /\ Oracle!Gives(r2, pr)
  BY BookArguments, <1>1, Oracle!CalledGives
<1> HIDE DEF a2, r2, pa, pr
<1>5. Fast!Q(a2.book) = pa.book /\ a2.result = pa.result
  BY <1>3 DEF Fast!Gives
<1>6. Oracle!Q(r2.book) = pr.book /\ r2.result = pr.result
  BY <1>4 DEF Oracle!Gives
<1> QED BY <1>2, <1>3, <1>4, <1>5, <1>6 DEF a2, r2

LEMMA ReplayAgrees == OpsInv /\ PlayedInv /\ OpsBin!Replay => PlayedInv'
<1> SUFFICES ASSUME OpsInv, PlayedInv, OpsBin!Replay PROVE PlayedInv'
  OBVIOUS
<1> DEFINE next == Len(played.ref.log) + 1
           o == decoded.ops[next]
           r == OpsBin!Ref!Called(played.ref.book, o)
           a == OpsBin!Arr!Called(played.array.book, o)
<1>1. /\ decoded.kind = "Ops" /\ next <= Len(decoded.ops)
      /\ played' = [ref |-> OpsBin!Took(played.ref, r), array |-> OpsBin!Took(played.array, a)]
  BY DEF OpsBin!Replay
<1>2. PICK S : played.ref.log \in Seq(S)
  BY DEF PlayedInv
<1>3. o \in Fast!Ops /\ o \in Oracle!Ops
      /\ o.kind \in {"Add", "Cancel", "Delete", "Exec", "Replace"}
  <2> DEFINE bad == {i \in DOMAIN recs : ~OpsBin!IsOp(recs[i])}
             read == [i \in DOMAIN recs |-> OpsBin!Decode(recs[i])]
  <2>1. decoded = OpsBin!Decoded(read) /\ bad = {}
    <3>1. /\ spare => OpsBin!DecodeOps = OpsBin!LengthError
          /\ ~spare /\ bad = {} => OpsBin!DecodeOps = OpsBin!Decoded(read)
          /\ ~spare /\ bad # {} =>
               \E m \in bad : OpsBin!DecodeOps = OpsBin!RecordError(m - 1, recs[m].kind)
      BY Decoding
    <3>2. decoded = OpsBin!NotDecoded \/ decoded = OpsBin!DecodeOps
      BY DEF OpsInv
    <3> HIDE DEF bad, read
    <3> QED BY <1>1, <3>1, <3>2
          DEF OpsBin!NotDecoded, OpsBin!LengthError, OpsBin!RecordError
  <2>2. decoded.ops = read
    BY <2>1 DEF OpsBin!Decoded
  <2>3. DOMAIN recs = 1 .. Len(recs) /\ Len(recs) \in Nat
    BY DEF OpsInv
  <2>4. Len(read) = Len(recs)
    BY <2>3
  <2>5. next \in DOMAIN recs
    <3>1. Len(played.ref.log) \in Nat
      BY <1>2
    <3>2. next <= Len(recs)
      BY <1>1, <2>2, <2>4
    <3> QED BY <2>3, <3>1, <3>2
  <2>6. o = OpsBin!Decode(recs[next])
    BY <2>2, <2>5
  <2>7. OpsBin!IsOp(recs[next])
    BY <2>1, <2>5
  <2>8. recs[next] \in AnyRecord
    BY <2>3, <2>5, ElementOfSeq DEF OpsInv
  <2> HIDE DEF o, next
  <2> QED BY <2>6, <2>7, <2>8, DecodedIsTaken
<1> HIDE DEF o
<1>4. /\ Fast!Sound(a.book) /\ Fast!Covered(a.book) /\ Oracle!Sound(r.book)
      /\ Fast!Q(a.book) = Oracle!Q(r.book)
      /\ a.result = r.result
  BY <1>3, TakenAlike DEF PlayedInv
<1> HIDE DEF a, r
<1> DEFINE logged == OpsBin!LoggedEvent(r.result)
<1>5. /\ played'.ref.book = r.book /\ played'.array.book = a.book
      /\ played'.ref.log = Append(played.ref.log, logged)
      /\ played'.array.log = Append(played.array.log, OpsBin!LoggedEvent(a.result))
      /\ played'.ref.errors = played.ref.errors + (IF r.result.ok THEN 0 ELSE 1)
      /\ played'.array.errors = played.array.errors + (IF a.result.ok THEN 0 ELSE 1)
  BY <1>1 DEF OpsBin!Took
<1>6. played'.ref.log = played'.array.log /\ played'.ref.errors = played'.array.errors
  BY <1>4, <1>5 DEF PlayedInv
<1> HIDE DEF logged
<1>7. played'.ref.log \in Seq(S \cup {logged})
  <2>1. played.ref.log \in Seq(S \cup {logged})
    <3>1. \A i \in 1 .. Len(played.ref.log) : played.ref.log[i] \in S
      BY <1>2, ElementOfSeq
    <3>2. /\ Len(played.ref.log) \in Nat
          /\ played.ref.log = [i \in 1 .. Len(played.ref.log) |-> played.ref.log[i]]
      BY <1>2
    <3> QED BY <3>1, <3>2
  <2> QED BY <1>5, <2>1
<1> QED BY <1>4, <1>5, <1>6, <1>7 DEF PlayedInv

LEMMA SamePlayed == PlayedInv /\ UNCHANGED played => PlayedInv'
BY DEF PlayedInv

\* The fast book and the oracle give the same log, the same number of errors and the
\* same input of the state hash for every operation file, damaged ones included.
THEOREM BooksAlwaysAgree == ReadersSpec => []BooksAgree
<1>1. ReadersInit => OpsInv /\ PlayedInv
  BY OpsStarts, PlayedStarts DEF ReadersInit
<1>2. OpsInv /\ PlayedInv /\ [ReadersNext]_readerVars => PlayedInv'
  <2> SUFFICES ASSUME OpsInv, PlayedInv, [ReadersNext]_readerVars PROVE PlayedInv'
    OBVIOUS
  <2>1. CASE ReadOps
    <3>1. CASE OpsBin!Replay
      BY <3>1, ReplayAgrees
    <3>2. CASE ~OpsBin!Replay
      <4>1. UNCHANGED played
        BY <2>1, <3>2
           DEF ReadOps, OpsBin!Next, OpsBin!Write, OpsBin!Lose, OpsBin!Damage, OpsBin!Read
      <4> QED BY <4>1, SamePlayed
    <3> QED BY <3>1, <3>2
  <2>2. CASE ~ReadOps
    <3>1. UNCHANGED played
      BY <2>2 DEF ReadersNext, ReadFrames, ReadPayloads, ReadRecords, ReadSnapshots, readerVars,
                  opsVars
    <3> QED BY <3>1, SamePlayed
  <2> QED BY <2>1, <2>2
<1>3. OpsInv /\ [ReadersNext]_readerVars => OpsInv'
  BY OpsFileStep
<1> QED BY <1>1, <1>2, <1>3, PlayedAgrees, PTL DEF ReadersSpec
=============================================================================
