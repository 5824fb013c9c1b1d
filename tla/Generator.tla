------------------------------ MODULE Generator ------------------------------
(***************************************************************************)
(* The synthetic day (lob-synth/src/generator.rs): a header, a mix of      *)
(* messages about random live orders, the open, at which crossed resting   *)
(* orders are executed against each other, and a trailer: exactly NMsgs    *)
(* messages in all.  A random draw is a choice among its outcomes.         *)
(*                                                                         *)
(* Each locate carries a price grid and a walking mid, the truth book, and *)
(* the list of its live orders with an index into it, from which an order  *)
(* is drawn and removed in constant time.                                  *)
(***************************************************************************)
EXTENDS TruthBook

CONSTANTS
  NLocates,       \* locates are 1 .. NLocates
  Bases,          \* base prices a locate may be given
  Dollar,         \* below it, and with subpenny, the tick is one unit
  Cent,           \* otherwise it is this
  PlaceholderPx,  \* [Sides -> price of a placeholder]
  MaxPrice,
  LeadShare,      \* the clock starts at open_ns minus this share of the day
  Configs         \* configurations of a run, with the bounds of its draws:
                  \* [nMsgs, mix: the types with a positive weight, placeholders:
                  \* the outcomes of their draw, subPenny, crossedPreopen,
                  \* keepDead: unknown_ref_rate > 0, openTs, closeTs,
                  \* shares: quantities drawn, maxOffset: MAX_OFFSET_TICKS,
                  \* crossTicks: by how many ticks a pre-open order may cross]

Locates == 1 .. NLocates

MixTypes == {"A", "F", "D", "X", "U", "E", "C", "P", "L"}

\* check_args
ASSUME ConfigIsValid ==
  /\ NLocates \in Nat \ {0} /\ LeadShare \in Nat \ {0}
  /\ \A c \in Configs :
       /\ c.nMsgs \in Nat /\ c.nMsgs >= 2 * NLocates + 6
       /\ c.mix # {} /\ c.mix \subseteq MixTypes
       /\ c.openTs \in Nat /\ c.closeTs \in Nat /\ c.openTs < c.closeTs
       /\ c.placeholders \subseteq BOOLEAN /\ c.placeholders # {}
       /\ c.shares \subseteq Nat \ {0}
       /\ c.maxOffset \in Nat /\ c.crossTicks \subseteq 1 .. 3

\* The constants of generator.rs and the base prices of new_locate: no bid reaches the
\* placeholder of the other side.
ASSUME PricesAreValid ==
  /\ Cent \in Nat \ {0} /\ MaxPrice \in Nat /\ 4 * Cent <= MaxPrice
  /\ Bases \subseteq 0 .. MaxPrice \div 2
  /\ PlaceholderPx["Bid"] = Cent
  /\ PlaceholderPx["Ask"] \in MaxPrice \div 2 + 3 * Cent + 1 .. MaxPrice

VARIABLES
  config,    \* the configuration of this run
  pc,        \* header, mix, step, open, done, or panicked
  locs,      \* [Locates -> [tick, mid, book, live, liveIdx, dead]]
  ts, resume,\* the clock, and where it resumes after the open
  qDone,     \* the open is over
  pair,      \* the second execution of an uncrossing pair: <<>> or <<[l, id, q]>>
  emitted,   \* messages of the mix and of the open
  sent,      \* all messages
  events,    \* the system events, in order: codes and times
  nextRef, nextMatch,
  msg,       \* the last message of the mix or the open, as a call on a book
  row        \* its row of the truth sidecar

NMsgs == config.nMsgs
OpenTs == config.openTs
CloseTs == config.closeTs

clock == <<ts, resume>>
counters == <<nextRef, nextMatch>>
vars == <<config, pc, locs, clock, qDone, pair, emitted, sent, events, counters, msg, row>>

-----------------------------------------------------------------------------
(* Arithmetic of the run                                                   *)

Smaller(x, y) == IF x < y THEN x ELSE y
Larger(x, y) == IF x > y THEN x ELSE y

MixBudget == NMsgs - (2 + 2 * NLocates + 1 + 3)

StartTs == Larger(0, OpenTs - (CloseTs - OpenTs) \div LeadShare)

GapMax == IF MixBudget = 0 THEN 0 ELSE 2 * ((CloseTs - StartTs) \div MixBudget)

-----------------------------------------------------------------------------
(* The list of live orders                                                 *)

TrackAdd(loc, id) ==
  [loc EXCEPT !.liveIdx = With(@, id, Len(loc.live) + 1), !.live = Append(@, id)]

TrackRemoveUnindexed(loc, id) ==  \* mutant: the order moved into the gap keeps its old index
  LET i == loc.liveIdx[id]
      shorter == Front(loc.live)
  IN  [loc EXCEPT
         !.live = IF i <= Len(shorter) THEN [shorter EXCEPT ![i] = Last(loc.live)] ELSE shorter,
         !.liveIdx = Without(@, id),
         !.dead = IF config.keepDead THEN @ \cup {id} ELSE @]

\* The last order of the list takes the place of the one removed.
TrackRemove(loc, id) ==
  LET i == loc.liveIdx[id]
      shorter == Front(loc.live)
      moves == i <= Len(shorter)
  IN  [loc EXCEPT
         !.live = IF moves THEN [shorter EXCEPT ![i] = Last(loc.live)] ELSE shorter,
         !.liveIdx = IF moves THEN With(Without(@, id), Last(loc.live), i) ELSE Without(@, id),
         !.dead = IF config.keepDead THEN @ \cup {id} ELSE @]

-----------------------------------------------------------------------------
(* Prices                                                                  *)

\* new_locate
NewLocate(base, subPenny) ==
  LET tick == IF base < Dollar /\ subPenny THEN 1 ELSE Cent
  IN  [tick |-> tick, mid |-> Larger((base \div tick) * tick, 2 * tick),
       book |-> EmptyTruth, live |-> <<>>, liveIdx |-> EmptyMap, dead |-> {}]

\* walk_mid: a tick up, a tick down, or neither, within bounds.
MidDraws(loc) ==
  {Smaller(Larger(loc.mid + step * loc.tick, 2 * loc.tick), MaxPrice \div 2) : step \in {-1, 0, 1}}

CrossingAllowed == config.crossedPreopen /\ ts < OpenTs

PriceUncapped(loc, side, offset, cross) ==  \* mutant: the opposite best is forgotten
  IF side = "Bid" THEN Larger(loc.mid + cross * loc.tick - offset * loc.tick, loc.tick)
  ELSE Smaller(loc.mid + loc.tick - cross * loc.tick + offset * loc.tick, MaxPrice)

\* price_for: `cross' ticks beyond the mid, at most a tick from the opposite best
\* unless crossing is allowed, then `offset' ticks away from it.
PriceFor(loc, side, offset, cross) ==
  LET opposite == IF side = "Bid" THEN "Ask" ELSE "Bid"
      capped == ~CrossingAllowed /\ ~IsEmpty(loc.book, opposite)
      other == BestPx(loc.book, opposite)
      t == loc.tick
      bid == LET m == loc.mid + cross * t IN IF capped THEN Smaller(m, other - t) ELSE m
      ask == LET m == loc.mid + t - cross * t IN IF capped THEN Larger(m, other + t) ELSE m
  IN  IF side = "Bid" THEN Larger(bid - offset * t, t)
                      ELSE Smaller(ask + offset * t, MaxPrice)

PriceDraws(loc, side) ==
  {PriceFor(loc, side, offset, cross) :
     offset \in 0 .. config.maxOffset, cross \in IF CrossingAllowed THEN {0} \cup config.crossTicks ELSE {0}}

-----------------------------------------------------------------------------
(* Writing a message and its row                                           *)

\* Levels in a row of the sidecar.
RowLevels == 5

RowOf(l, b) ==
  [locate |-> l, ts |-> ts,
   best |-> [s \in Sides |-> BestLevel(b, s)],
   depth |-> [s \in Sides |-> Depth(b, s, RowLevels)],
   live |-> Cardinality(DOMAIN b.orders),
   hashed |-> HashedBook(b)]

\* `after' is the locate as the message leaves it; it is bound so that TLC computes
\* it once.
Emit(l, after, type, o) ==
  /\ \E loc \in {after} : locs' = [locs EXCEPT ![l] = loc] /\ row' = RowOf(l, loc.book)
  /\ msg' = [locate |-> l, type |-> type, op |-> o]
  /\ emitted' = emitted + 1
  /\ sent' = sent + 1
  /\ UNCHANGED <<clock, qDone, events>>

EmitStep(l, loc, type, o) ==
  /\ Emit(l, loc, type, o)
  /\ pc' = "mix"
  /\ UNCHANGED pair

\* A failed assertion ends the run.
Panic ==
  /\ pc' = "panicked"
  /\ UNCHANGED <<locs, clock, qDone, pair, emitted, sent, events, counters, msg, row>>

NewRef == nextRef' = nextRef + 1 /\ UNCHANGED nextMatch
NewMatch == nextMatch' = nextMatch + 1 /\ UNCHANGED nextRef

-----------------------------------------------------------------------------
(* The messages of the mix                                                 *)

\* A new order at the price drawn.
Rest(l, loc, type, side, px, qty) ==
  IF px < 0 \/ ~AddLegal(loc.book, nextRef, qty) THEN Panic
  ELSE /\ EmitStep(l, TrackAdd([loc EXCEPT !.book = AddTail(@, nextRef, side, px, qty)], nextRef),
                   type, AddOp(nextRef, side, px, qty))
       /\ NewRef

\* A and F: a placeholder, or a price near the mid, which walks first.
Add(l, type) ==
  \E side \in Sides, qty \in config.shares, placeholder \in config.placeholders :
    \/ placeholder /\ Rest(l, locs[l], type, side, PlaceholderPx[side], qty)
    \/ /\ ~placeholder
       /\ \E mid \in MidDraws(locs[l]) :
            LET loc == [locs[l] EXCEPT !.mid = mid]
            IN  \E px \in PriceDraws(loc, side) : Rest(l, loc, type, side, px, qty)

NothingLive(l) == locs[l].live = <<>>

\* pick_live
Picks(l) == ToSet(locs[l].live)

\* A message about an order that has left: the truth stays as it is.
Unknown(l, type) ==
  /\ config.keepDead
  /\ \E id \in locs[l].dead, qty \in config.shares :
       \/ type = "D" /\ EmitStep(l, locs[l], "D", DeleteOp(id)) /\ UNCHANGED counters
       \/ type = "X" /\ EmitStep(l, locs[l], "X", CancelOp(id, qty)) /\ UNCHANGED counters
       \/ type = "U" /\ EmitStep(l, locs[l], "U", ReplaceOp(id, nextRef, locs[l].mid, qty)) /\ NewRef
       \/ type \in {"E", "C"} /\ EmitStep(l, locs[l], type, ExecuteOp(id, qty)) /\ NewMatch

RemoveLive(l, id) ==
  IF ~Knows(locs[l].book, id) THEN Panic
  ELSE /\ EmitStep(l, TrackRemove([locs[l] EXCEPT !.book = DeleteLive(@, id)], id),
                   "D", DeleteOp(id))
       /\ UNCHANGED counters

Delete(l) == \E id \in Picks(l) : RemoveLive(l, id)

\* X: a strict part of the order; an order of one share is deleted instead.
Cancel(l) ==
  \E id \in Picks(l) :
    LET rem == Qty(locs[l].book, id)
    IN  \/ rem <= 1 /\ RemoveLive(l, id)
        \/ \E k \in 1 .. rem - 1 :
             /\ EmitStep(l, [locs[l] EXCEPT !.book = ReduceLive(@, id, k)], "X", CancelOp(id, k))
             /\ UNCHANGED counters

Replace(l) ==
  \E old \in Picks(l), qty \in config.shares :
    \E px \in PriceDraws(locs[l], locs[l].book.orders[old].side) :
      IF px < 0 \/ Knows(locs[l].book, nextRef) THEN Panic
      ELSE /\ EmitStep(l, TrackAdd(TrackRemove(
                            [locs[l] EXCEPT !.book = ReplaceLive(@, old, nextRef, px, qty)], old), nextRef),
                       "U", ReplaceOp(old, nextRef, px, qty))
           /\ NewRef

\* execute_known: the order leaves the list of live orders when it is filled.
Executed(loc, id, q) ==
  LET after == [loc EXCEPT !.book = ReduceLive(@, id, q)]
  IN  IF Knows(after.book, id) THEN after ELSE TrackRemove(after, id)

\* E and C: part or all of the head of a best level.
Execute(l, type) ==
  \E first \in Sides :
    LET b == locs[l].book
        side == IF IsEmpty(b, first) THEN CHOOSE s \in Sides : s # first ELSE first
        head == HeadOfBest(b, side)
    IN  /\ ~IsEmpty(b, side)
        /\ \E q \in 1 .. head.qty :
             /\ EmitStep(l, Executed(locs[l], head.id, q), type, ExecuteOp(head.id, q))
             /\ NewMatch

OnLive(l, type) ==
  \/ type = "D" /\ Delete(l)
  \/ type = "X" /\ Cancel(l)
  \/ type = "U" /\ Replace(l)
  \/ type \in {"E", "C"} /\ Execute(l, type)

\* Rounding may leave the last cumulative weight below one, so that L is drawn
\* whatever its weight is.
Kinds == config.mix \cup {"L"}

Step(l, type) ==
  /\ pc = "step"
  /\ \/ type \in {"A", "F"} /\ Add(l, type)
     \/ /\ type \in {"D", "X", "U", "E", "C"}
        /\ \/ Unknown(l, type)
           \/ NothingLive(l) /\ Add(l, "A")
           \/ OnLive(l, type)
     \/ type = "P" /\ EmitStep(l, locs[l], "P", NoOp) /\ NewMatch
     \/ type = "L" /\ EmitStep(l, locs[l], "L", NoOp) /\ UNCHANGED counters

-----------------------------------------------------------------------------
(* The day                                                                 *)

SystemEvents(codes, at) == events \o [k \in DOMAIN codes |-> [code |-> codes[k], ts |-> at]]

\* O, S, and for every locate its R and its H.
Header ==
  /\ pc = "header"
  /\ pc' = "mix"
  /\ events' = SystemEvents(<<"O", "S">>, ts)
  /\ sent' = sent + 2 + 2 * NLocates
  /\ UNCHANGED <<locs, clock, qDone, pair, emitted, counters, msg, row>>

\* One turn of the loop begins: the clock, and the open the first time it is due.
Tick ==
  /\ pc = "mix" /\ emitted < MixBudget
  /\ \E gap \in 0 .. GapMax :
       LET now == Smaller(ts + gap, CloseTs - 1)
           opens == ~qDone /\ now >= OpenTs
       IN  /\ ts' = IF opens THEN OpenTs ELSE now
           /\ resume' = now
           /\ pc' = IF opens THEN "open" ELSE "step"
  /\ UNCHANGED <<locs, qDone, pair, emitted, sent, events, counters, msg, row>>

CrossedLoc(loc) ==
  /\ \A s \in Sides : ~IsEmpty(loc.book, s)
  /\ BestPx(loc.book, "Bid") >= BestPx(loc.book, "Ask")

CrossedLocates == {l \in Locates : CrossedLoc(locs[l])}

ExecuteKnown(l, id, q) ==
  IF ~ReduceLegal(locs[l].book, id, q) THEN Panic
  ELSE /\ Emit(l, Executed(locs[l], id, q), "E", ExecuteOp(id, q))
       /\ pc' = "open"
       /\ NewMatch

\* The heads of both best levels of the first crossed locate, by what the smaller
\* of them has: the bid first.
UncrossBid ==
  /\ pc = "open" /\ pair = <<>> /\ emitted < MixBudget
  /\ CrossedLocates # {}
  /\ LET l == Min(CrossedLocates)
         bid == HeadOfBest(locs[l].book, "Bid")
         ask == HeadOfBest(locs[l].book, "Ask")
         q == Smaller(bid.qty, ask.qty)
     IN  /\ ExecuteKnown(l, bid.id, q)
         /\ pair' = <<[l |-> l, id |-> ask.id, q |-> q]>>

UncrossAsk ==
  /\ pc = "open" /\ pair # <<>> /\ emitted < MixBudget
  /\ ExecuteKnown(pair[1].l, pair[1].id, pair[1].q)
  /\ pair' = <<>>

\* Nothing is crossed any more, or the messages are used up.
OpenEnds == emitted >= MixBudget \/ (pair = <<>> /\ CrossedLocates = {})

\* Q, and back to the message whose time has come.
OpenEvent ==
  /\ pc = "open" /\ OpenEnds
  /\ events' = SystemEvents(<<"Q">>, ts)
  /\ sent' = sent + 1
  /\ qDone' = TRUE
  /\ ts' = resume
  /\ pc' = IF emitted < MixBudget THEN "step" ELSE "mix"
  /\ pair' = <<>>
  /\ UNCHANGED <<locs, resume, emitted, counters, msg, row>>

TrailerAlways ==  \* mutant: Q is written whether or not the open has been
  <<"Q", "M", "E", "C">>

\* The codes still to write when the mix is over.
Trailer == IF qDone THEN <<"M", "E", "C">> ELSE <<"Q", "M", "E", "C">>

Close ==
  /\ pc = "mix" /\ emitted >= MixBudget
  /\ LET open == SystemEvents(IF Len(Trailer) = 4 THEN <<"Q">> ELSE <<>>, Larger(ts, OpenTs))
     IN  events' = open \o [k \in 1 .. 3 |-> [code |-> <<"M", "E", "C">>[k], ts |-> CloseTs]]
  /\ sent' = sent + Len(Trailer)
  /\ ts' = CloseTs
  /\ pc' = "done"
  /\ UNCHANGED <<locs, resume, qDone, pair, emitted, counters, msg, row>>

Init ==
  /\ config \in Configs
  /\ pc = "header"
  /\ \E base \in [Locates -> Bases] :
       locs = [l \in Locates |-> NewLocate(base[l], config.subPenny)]
  /\ ts = StartTs /\ resume = StartTs
  /\ qDone = FALSE /\ pair = <<>>
  /\ emitted = 0 /\ sent = 0 /\ events = <<>>
  /\ nextRef = 1 /\ nextMatch = 1
  /\ msg = [locate |-> 0, type |-> "S", op |-> NoOp]
  /\ row = RowOf(0, EmptyTruth)

\* The day is over, or an assertion has failed.
Over == pc \in {"done", "panicked"} /\ UNCHANGED vars

Next ==
  \/ Over
  \/ /\ UNCHANGED config
     /\ \/ Header
        \/ Tick
        \/ \E l \in Locates, type \in Kinds : Step(l, type)
        \/ UncrossBid
        \/ UncrossAsk
        \/ OpenEvent
        \/ Close

Spec == Init /\ [][Next]_vars

-----------------------------------------------------------------------------
(* Properties                                                              *)

\* Orders, counters and clock have the values they are meant to have.
TypeOK ==
  /\ pc \in {"header", "mix", "step", "open", "done", "panicked"}
  /\ ts \in StartTs .. CloseTs /\ resume \in StartTs .. CloseTs - 1
  /\ emitted \in 0 .. MixBudget /\ sent \in 0 .. NMsgs
  /\ nextRef \in 1 .. MixBudget + 1 /\ nextMatch \in 1 .. MixBudget + 1
  /\ \A l \in Locates :
       /\ locs[l].mid \in 2 * locs[l].tick .. MaxPrice \div 2
       /\ DOMAIN locs[l].book.orders \subseteq 1 .. nextRef - 1
       /\ locs[l].dead \subseteq 1 .. nextRef - 1

\* The list of live orders, the index into it and the book name the same orders,
\* each once, through every removal from the middle; none of them is among the
\* dead.  So no assertion fails: what is removed, reduced or replaced is there.
LiveListExact ==
  /\ pc # "panicked"
  /\ \A l \in Locates :
       LET loc == locs[l]
       IN  /\ ToSet(loc.live) = DOMAIN loc.book.orders
           /\ DOMAIN loc.liveIdx = ToSet(loc.live)
           /\ \A i \in DOMAIN loc.live : loc.liveIdx[loc.live[i]] = i
           /\ ToSet(loc.live) \cap loc.dead = {}

\* The two maps of a truth book agree: an order is in exactly the FIFO its entry
\* says, with something left, and no level is empty.
OrdersInStep ==
  \A l \in Locates :
    LET b == locs[l].book
    IN  /\ \A s \in Sides : \A px \in DOMAIN b.sides[s] :
             LET fifo == b.sides[s][px]
             IN  /\ fifo # <<>>
                 /\ \A i \in DOMAIN fifo :
                      /\ fifo[i].qty > 0
                      /\ PosOf(fifo, fifo[i].id) = i
                      /\ Knows(b, fifo[i].id)
                      /\ b.orders[fifo[i].id] = [side |-> s, px |-> px]
        /\ \A id \in DOMAIN b.orders : PosOf(FifoOf(b, id), id) # 0

\* What the generator knows of its live orders stays one story.
LedgersAgree == TypeOK /\ LiveListExact /\ OrdersInStep

\* A message sent after the open, or in a day without crossed_preopen, leaves no book
\* locked or crossed, unless an ask rests within a tick of zero, where no bid fits
\* below it, or a placeholder bid of a cent stands above an ask of less: the only
\* price the opposite best does not cap.
CrossedOnlyAtFloor ==
  [][emitted' # emitted /\ (qDone \/ ~config.crossedPreopen) =>
       \A l \in Locates :
         CrossedLoc(locs'[l]) =>
           \/ BestPx(locs'[l].book, "Ask") <= locs[l].tick
           \/ BestPx(locs'[l].book, "Bid") = PlaceholderPx["Bid"] /\ locs[l].tick < Cent]_vars

\* A finished day has exactly the messages asked for and the six system events in
\* order at rising times, wherever the clock was when the mix ended and however
\* much of it the open took.
DayComplete ==
  pc = "done" =>
    /\ sent = NMsgs
    /\ [k \in DOMAIN events |-> events[k].code] = <<"O", "S", "Q", "M", "E", "C">>
    /\ \A k \in 1 .. 5 : events[k].ts <= events[k+1].ts
    /\ events[3].ts >= OpenTs

\* An execution of a live order is one of the head of a best level, also when the
\* other half of its pair has just emptied the level of the other side.
HeadsExecuted ==
  [][emitted' # emitted /\ msg'.type \in {"E", "C"} =>
       LET b == locs[msg'.locate].book
           id == msg'.op.id
       IN  \/ id \in locs[msg'.locate].dead
           \/ \E s \in Sides : ~IsEmpty(b, s) /\ b.sides[s][BestPx(b, s)][1].id = id]_vars

-----------------------------------------------------------------------------
(* What the documentation promises and the code does not keep              *)

\* lob-synth/src/lib.rs:28-29: "the truth keeps them as `i32`, positive on both
\* sides".
PricesPositive ==
  \A l \in Locates, s \in Sides : \A px \in DOMAIN locs[l].book.sides[s] : px > 0
=============================================================================
