---------------------------- MODULE MCSynthReplay ----------------------------
(***************************************************************************)
(* Days of a few messages and their replay: the mid starts at three ticks, *)
(* so that the floor is near, and the clock has times before and after the *)
(* open.  The configurations are one day of every kind of message, with    *)
(* crossed quotes, two shares to an order and the open in the middle; one  *)
(* of small orders, in which the open may use up the messages with a pair  *)
(* or in the middle of one; and one of dead references on a grid of less   *)
(* than a cent, where no quote may cross.                                  *)
(***************************************************************************)
EXTENDS SynthReplay

NoIds == {}
LowPlaceholders == [s \in Sides |-> IF s = "Bid" THEN Cent ELSE MaxPrice - Cent]

EveryKind ==
  [nMsgs |-> 11, mix |-> MixTypes, placeholders |-> BOOLEAN, subPenny |-> FALSE,
   crossedPreopen |-> TRUE, keepDead |-> FALSE, openTs |-> 2, closeTs |-> 4,
   shares |-> {1, 2}, maxOffset |-> 1, crossTicks |-> {2}]

BusyOpen ==
  [EveryKind EXCEPT !.nMsgs = 12, !.mix = {"A", "E"}, !.placeholders = {FALSE}, !.openTs = 1,
                    !.closeTs = 4, !.shares = {1}, !.maxOffset = 0]

DeadReferences ==
  [EveryKind EXCEPT !.mix = {"A", "D", "X", "U", "E", "P"}, !.subPenny = TRUE,
                    !.crossedPreopen = FALSE, !.keepDead = TRUE, !.openTs = 1, !.closeTs = 3]

MCConfigs == {EveryKind, BusyOpen, DeadReferences}

WideCrossing == {[EveryKind EXCEPT !.crossTicks = {1, 2, 3}]}

\* What comes next does not depend on the last message, its row and its answer; with
\* one locate the row shows the book of the truth, which the view holds.
DayView == <<config, pc, locs, clock, qDone, pair, emitted, sent, events, counters, replayed>>
=============================================================================
