--------------------------- MODULE SnapshotStream ---------------------------
(***************************************************************************)
(* A stream of L1 snapshots, locked, crossed and one-sided ones included,  *)
(* as a caller of lob-features/src/lib.rs hands them over, and what the    *)
(* features of the stream so far are to one another.                       *)
(***************************************************************************)
EXTENDS Features

CONSTANTS
  L1Prices, \* prices of either side
  L1Qtys,   \* quantities at the best levels, zero included
  MaxSnaps  \* bound on the length of the stream

ASSUME PricesAndQuantities == L1Prices \subseteq Int /\ L1Qtys \subseteq Nat

VARIABLE snaps

Snapshots == {L1(bp, bq, ap, aq) : bp \in L1Prices, bq \in L1Qtys, ap \in L1Prices, aq \in L1Qtys}

Init == snaps = <<>>

Snapshot == /\ Len(snaps) < MaxSnaps
            /\ \E l \in Snapshots : snaps' = Append(snaps, l)

Next == Snapshot

Spec == Init /\ [][Next]_snaps

-----------------------------------------------------------------------------

\* wmid = mid + (imb1 - 1/2) * spread, exactly, for every snapshot with a quantity
\* on a side (lib.rs:11-13).
WmidIsShiftedMid ==
  \A i \in DOMAIN snaps :
    LET l == snaps[i]
        imb == Imbalance(l.bidQty, l.askQty)
    IN  l.bidQty + l.askQty > 0 =>
          EqExact(Wmid(l),
                  Ratio(Mid(l).num * imb.den + SignedImb(imb).num * Spread(l), 2 * imb.den))

\* The weighted mid lies between the best prices, and the imbalance says whether
\* it lies on the side of the ask.
WmidLeans ==
  \A i \in DOMAIN snaps :
    LET l == snaps[i]
        w == Wmid(l)
        imb == SignedImb(Imbalance(l.bidQty, l.askQty))
    IN  l.bidQty + l.askQty > 0 /\ Spread(l) > 0 =>
          /\ l.bidPx * w.den <= w.num /\ w.num <= l.askPx * w.den
          /\ imb.num \in -imb.den .. imb.den
          /\ (2 * w.num > Mid(l).num * w.den <=> imb.num > 0)

\* A step back undoes a step forth, whatever the prices did in between.
StepsReverse ==
  \A i, j \in DOMAIN snaps : OfiStep(snaps[i], snaps[j]) = - OfiStep(snaps[j], snaps[i])

\* The features keep their identities on any snapshots.
FeaturesSound == WmidIsShiftedMid /\ WmidLeans /\ StepsReverse
=============================================================================
