------------------------------ MODULE Features ------------------------------
(***************************************************************************)
(* The features of lob-features/src/lib.rs as exact numbers: a ratio is a  *)
(* pair of integers with a positive denominator, never reduced, and a      *)
(* feature that would divide by nothing is Undefined.  An L1 snapshot has  *)
(* both sides; depths are sums of the first five levels.                   *)
(***************************************************************************)
EXTENDS Integers, Sequences, SequencesExt

L1(bidPx, bidQty, askPx, askQty) ==
  [bidPx |-> bidPx, bidQty |-> bidQty, askPx |-> askPx, askQty |-> askQty]

Ratio(num, den) == [num |-> num, den |-> den]

\* None: the caller decides how to show it.
Undefined == Ratio(0, 0)

\* Equality by cross-multiplication.
EqExact(r, t) == r.num * t.den = t.num * r.den

\* The price of each side weighted by the quantity of the other.
Wmid(l) ==
  LET den == l.bidQty + l.askQty
  IN  IF den = 0 THEN Undefined
      ELSE Ratio(l.bidPx * l.askQty + l.askPx * l.bidQty, den)

Mid(l) == Ratio(l.bidPx + l.askPx, 2)

\* Negative when the book is crossed.
Spread(l) == l.askPx - l.bidPx

Imbalance(bid, ask) ==
  IF bid + ask = 0 THEN Undefined ELSE Ratio(bid, bid + ask)

SignedImb(r) == Ratio(2 * r.num - r.den, r.den)

\* Sum of the quantities of one side.
Depth5(qtys) == FoldLeft(LAMBDA sum, q : sum + q, 0, qtys)

-----------------------------------------------------------------------------
(* Order-flow imbalance                                                    *)

OfiStepStrict(prev, cur) ==  \* mutant: an unchanged ask counts on one side only
  (IF cur.bidPx >= prev.bidPx THEN cur.bidQty ELSE 0)
    - (IF cur.bidPx <= prev.bidPx THEN prev.bidQty ELSE 0)
    - (IF cur.askPx < prev.askPx THEN cur.askQty ELSE 0)
    + (IF cur.askPx >= prev.askPx THEN prev.askQty ELSE 0)

OfiStep(prev, cur) ==
  (IF cur.bidPx >= prev.bidPx THEN cur.bidQty ELSE 0)
    - (IF cur.bidPx <= prev.bidPx THEN prev.bidQty ELSE 0)
    - (IF cur.askPx <= prev.askPx THEN cur.askQty ELSE 0)
    + (IF cur.askPx >= prev.askPx THEN prev.askQty ELSE 0)

\* The sum of the steps between consecutive snapshots; 0 for fewer than two.
OfiWindow(snaps) ==
  LET sum[n \in 0 .. Len(snaps)] ==
        IF n < 2 THEN 0 ELSE sum[n - 1] + OfiStep(snaps[n - 1], snaps[n])
  IN  sum[Len(snaps)]
=============================================================================
