------------------------------- MODULE Session -------------------------------
(***************************************************************************)
(* Session (lob-feed/src/itch/apply.rs): one book per stock locate, fed by *)
(* ITCH messages.  A locate starts with a reference book (RefOps).  If it  *)
(* is on the watchlist, it moves to an array book (ArrayOps) after the     *)
(* first add or replace that the book accepted at a real price: the window *)
(* is centred on that price, and every resting order is added again.       *)
(*                                                                         *)
(* The statistics are kept from what the books return, never recounted.    *)
(* Those that only grow are modelled by `counted', the counters the last   *)
(* message added one to; the live counts are kept as they are.             *)
(***************************************************************************)
EXTENDS BookTypes, Maps

CONSTANTS
  Locates,        \* stock locates a message may carry
  MaxPx,          \* i32::MAX, beyond which a price field turns negative
  PlaceholderLow, \* prices at or below it are placeholders
  PlaceholderHigh,\* prices at or above it are placeholders
  Dollar,         \* prices at or above it have the coarse tick
  Cent,           \* the coarse tick
  NLevels,        \* array_window
  WordBits,       \* see Levels
  Feeds,          \* watchlists, each with what the messages of a file may hold:
                  \* [watch: [locates, symbols, all], locates, ids, prices: u32
                  \* fields, qtys, symbols, codes: of system events, states: of
                  \* trading actions]
  MaxHits         \* bound on the overflow counters, which only grow

ASSUME SessionConfigIsValid ==
  /\ NLevels \in Nat \ {0} /\ Cent \in Nat \ {0}
  /\ PlaceholderHigh <= MaxPx
  /\ \A f \in Feeds :
       /\ f.locates \subseteq Locates /\ f.ids \subseteq Ids /\ f.qtys \subseteq Qtys
       /\ f.prices \subseteq 0 .. 2 * MaxPx + 1
       /\ "None" \notin f.symbols \cup f.codes \cup f.states

VARIABLES
  feed,        \* the watchlist of the session, and its file
  books,       \* [Locates -> no book, a reference book or an array book]
  watched,     \* [Locates -> BOOLEAN]
  symbol,      \* [Locates -> symbol of the last directory message, or "None"]
  hState,      \* [Locates -> last trading state, or "None"]
  sState,      \* last system event code, or "None"
  afterQ,      \* whether the system event Q has been seen
  live,        \* [Locates -> live orders, from the events]
  liveHwm,     \* [Locates -> the most there have been]
  total,       \* live orders of all locates, and the most there have been
  totalHwm,
  realOffset,  \* [Locates -> max_abs_offset_real]
  op,          \* the last call on a book, and its result
  result,
  counted,     \* the counters the last message has added one to
  changed      \* what its handler returned: did a book change?

bookVars == <<books, live, liveHwm, total, totalHwm, realOffset, op, result>>
tableVars == <<watched, symbol>>
stateVars == <<hState, sState, afterQ>>
vars == <<feed, bookVars, tableVars, stateVars, counted, changed>>

-----------------------------------------------------------------------------
(* The two kinds of book behind one interface                              *)

Ref == INSTANCE RefOps

\* An array book over the window that starts at `base'.
Array(base, tick) == INSTANCE ArrayOps WITH BasePx <- base, Tick <- tick

NoBook == [kind |-> "None"]
RefKind(b) == [kind |-> "Ref", book |-> b]
ArrayKind(b, base, tick) ==
  [kind |-> "Array", book |-> b, base |-> base, tick |-> tick]

CallOn(lb, o) == IF lb.kind = "Ref" THEN Ref!Called(lb.book, o)
                                    ELSE Array(lb.base, lb.tick)!Called(lb.book, o)

BestOf(lb, side) == IF lb.kind = "Ref" THEN Ref!Best(lb.book, side)
                                       ELSE Array(lb.base, lb.tick)!Best(lb.book, side)

\* queue_ahead of a live id; -1, which is no quantity, of any other.
AheadOf(lb, id) ==
  IF id \notin DOMAIN lb.book.ids THEN -1
  ELSE IF lb.kind = "Ref" THEN Ref!QueueAhead(lb.book, id)
  ELSE Array(lb.base, lb.tick)!QueueAhead(lb.book, id)

SnapshotOf(lb, side) ==
  IF lb.kind = "Ref" THEN Ref!Snapshot(lb.book, side)
                     ELSE Array(lb.base, lb.tick)!Snapshot(lb.book, side)

LiveOrders(lb) == IF lb.kind = "None" THEN 0
                  ELSE IF lb.kind = "Ref" THEN Cardinality(DOMAIN lb.book.ids)
                  ELSE lb.book.slab.live

-----------------------------------------------------------------------------
(* Prices                                                                  *)

IsPlaceholder(px) == px <= PlaceholderLow \/ px >= PlaceholderHigh

TickFor(px) == IF px >= Dollar \/ px % Cent = 0 THEN Cent ELSE 1

\* The cast of a price field from u32 to i32.
AsPx(px) == IF px > MaxPx THEN px - 2 * (MaxPx + 1) ELSE px

-----------------------------------------------------------------------------
(* Moving a book to an array window                                        *)

\* The levels below the centre: half a window, or what fits above price zero.
HalfWindow(px) ==
  LET below == (px - 1) \div TickFor(px)
  IN  IF NLevels \div 2 < below THEN NLevels \div 2 ELSE below

\* The resting orders as calls, in snapshot order: bids, then asks, best price
\* first, each level in time priority.
RestingLast(lb) ==  \* mutant: each level from its tail
  LET adds(side) ==
        LET snap == SnapshotOf(lb, side)
        IN  FlattenSeq([k \in DOMAIN snap |->
              LET fifo == Reverse(snap[k].fifo)
              IN  [i \in DOMAIN fifo |-> AddOp(fifo[i].id, side, snap[k].px, fifo[i].qty)]])
  IN  adds("Bid") \o adds("Ask")

Resting(lb) ==
  LET adds(side) ==
        LET snap == SnapshotOf(lb, side)
        IN  FlattenSeq([k \in DOMAIN snap |->
              LET fifo == snap[k].fifo
              IN  [i \in DOMAIN fifo |-> AddOp(fifo[i].id, side, snap[k].px, fifo[i].qty)]])
  IN  adds("Bid") \o adds("Ask")

\* The array book centred on px, with the orders of lb added one by one.
Centred(lb, px) ==
  LET tick == TickFor(px)
      base == px - HalfWindow(px) * tick
      readd(b, o) == Array(base, tick)!Called(b, o).book
  IN  ArrayKind(FoldLeft(readd, Array(base, tick)!EmptyArrayBook, Resting(lb)), base, tick)

\* Distance of a price from the base of the window, in ticks; the division is
\* toward zero.
Offset(lb, px) == (IF px < lb.base THEN lb.base - px ELSE px - lb.base) \div lb.tick

Moves(isWatched, lb) == isWatched /\ lb.kind = "Ref"

EnsureArrayOffCentre(isWatched, lb, px) ==  \* mutant: the window is centred a tick higher
  IF Moves(isWatched, lb) THEN Centred(lb, px + (HalfWindow(px) + 1) * TickFor(px)) ELSE lb

\* ensure_array after an accepted order at the real price px.
EnsureArray(isWatched, lb, px) == IF Moves(isWatched, lb) THEN Centred(lb, px) ELSE lb

\* The largest offset of a real price since the window was centred.
OffsetAfter(isWatched, lb, px, before) ==
  IF Moves(isWatched, lb) THEN HalfWindow(px)
  ELSE IF isWatched /\ Offset(lb, px) > before THEN Offset(lb, px)
  ELSE before

-----------------------------------------------------------------------------
(* The pieces every order message goes through                             *)

\* ensure_book: the book of the locate, a new reference book if it has none.
Known(l) == books[l].kind # "None"

BookOrNew(l) == IF Known(l) THEN books[l] ELSE RefKind(Ref!EmptyRefBook)

\* A locate without a book can only be watched by its number.
WatchedNow(l) == watched[l] \/ (~Known(l) /\ (feed.watch.all \/ l \in feed.watch.locates))

LiveChangeNoFill(r) ==  \* mutant: an execution never ends an order
  IF ~r.ok THEN 0
  ELSE IF r.value.kind = "Add" THEN 1
  ELSE IF r.value.kind = "Delete" THEN -1
  ELSE IF r.value.kind = "Cancel" /\ r.value.b = 0 THEN -1
  ELSE 0

\* record: how the event changes the number of live orders.
LiveChange(r) ==
  IF ~r.ok THEN 0
  ELSE IF r.value.kind = "Add" THEN 1
  ELSE IF r.value.kind = "Delete" THEN -1
  ELSE IF r.value.kind \in {"Cancel", "Exec"} /\ r.value.b = 0 THEN -1
  ELSE 0

\* record: the counter of an error.
ErrorCounter == [UnknownId |-> "unknown_id", OverExecute |-> "over_execute",
                 DuplicateId |-> "duplicate_id", BadQty |-> "bad_qty",
                 BadPrice |-> "bad_price"]

Larger(x, y) == IF x > y THEN x ELSE y

\* The high-water mark after a change.
Raised(hwm, before, delta) == Larger(hwm, before + delta)

CrossedStrictly(lb) ==  \* mutant: a locked book does not count
  LET bid == BestOf(lb, "Bid")
      ask == BestOf(lb, "Ask")
  IN  bid # <<>> /\ ask # <<>> /\ bid[1] > ask[1]

Crossed(lb) ==
  LET bid == BestOf(lb, "Bid")
      ask == BestOf(lb, "Ask")
  IN  bid # <<>> /\ ask # <<>> /\ bid[1] >= ask[1]

\* check_crossed, on the book as the message left it.
CrossedCounters(l, lb) ==
  IF ~Crossed(lb) THEN {}
  ELSE IF ~afterQ THEN {"crossed_before_q"}
  ELSE IF hState[l] = "T" THEN {"crossed_after_q", "crossed_after_q_trading"}
  ELSE {"crossed_after_q"}

EnsureBookCounters(l) == IF Known(l) THEN {"messages"} ELSE {"messages", "no_directory"}

ChangedByCount(r) ==  \* mutant: only a change of the live count is reported
  LiveChange(r) # 0

\* What a handler returns: whether the book accepted the call.
BookChanged(r) == r.ok

\* The call of an order message: on the book ensure_book gives, recorded; if it
\* was accepted, `centre' says whether its price may centre a window, and `bump'
\* what else is counted.  `always' is counted whatever the book answers.
CallBook(l, o, centre, always, bump) ==
  \E lb \in {BookOrNew(l)}, isWatched \in {WatchedNow(l)} :
  \E after \in {CallOn(lb, o)} :
  \E r \in {after.result}, called \in {[lb EXCEPT !.book = after.book]} :
  \E settled \in {IF r.ok /\ centre THEN EnsureArray(isWatched, called, o.px) ELSE called},
     delta \in {LiveChange(r)} :
      /\ books' = [books EXCEPT ![l] = settled]
      /\ settled.kind = "Array" =>
           \A s \in Sides : settled.book.sides[s].hits <= MaxHits
      /\ realOffset' = [realOffset EXCEPT ![l] =
           IF r.ok /\ centre THEN OffsetAfter(isWatched, called, o.px, @) ELSE @]
      /\ watched' = [watched EXCEPT ![l] = isWatched]
      /\ live' = [live EXCEPT ![l] = @ + delta]
      /\ liveHwm' = [liveHwm EXCEPT ![l] = Raised(@, live[l], delta)]
      /\ total' = total + delta
      /\ totalHwm' = Raised(totalHwm, total, delta)
      /\ op' = o
      /\ result' = r
      /\ counted' = EnsureBookCounters(l) \cup always \cup
           (IF r.ok THEN bump \cup CrossedCounters(l, settled)
                    ELSE {ErrorCounter[r.value.error]})
      /\ changed' = BookChanged(r)
      /\ UNCHANGED <<symbol, stateVars>>

-----------------------------------------------------------------------------
(* The messages                                                            *)

System(code) ==
  /\ sState' = code
  /\ afterQ' = (afterQ \/ code = "Q")
  /\ counted' = {"messages"}
  /\ changed' = FALSE
  /\ UNCHANGED <<bookVars, tableVars, hState>>

\* R: the first one for a locate creates its book.
Directory(l, stock) ==
  /\ symbol' = [symbol EXCEPT ![l] = stock]
  /\ watched' = [watched EXCEPT ![l] =
       @ \/ feed.watch.all \/ l \in feed.watch.locates \/ stock \in feed.watch.symbols]
  /\ books' = [books EXCEPT ![l] = BookOrNew(l)]
  /\ counted' = {"messages"}
  /\ changed' = FALSE
  /\ UNCHANGED <<live, liveHwm, total, totalHwm, realOffset, op, result, stateVars>>

\* H
TradingAction(l, state) ==
  /\ hState' = [hState EXCEPT ![l] = state]
  /\ counted' = {"messages"}
  /\ changed' = FALSE
  /\ UNCHANGED <<bookVars, tableVars, sState, afterQ>>

NothingElse == {}

Placeholder(px) == IF IsPlaceholder(px) THEN {"placeholder_adds"} ELSE {}

\* A and F with a side byte other than B and S: counted, and dropped before the
\* book sees it.
AddWithoutSide(l, px) ==
  /\ books' = [books EXCEPT ![l] = BookOrNew(l)]
  /\ watched' = [watched EXCEPT ![l] = WatchedNow(l)]
  /\ counted' = EnsureBookCounters(l) \cup Placeholder(px) \cup {"bad_side"}
  /\ changed' = FALSE
  /\ UNCHANGED <<live, liveHwm, total, totalHwm, realOffset, op, result, symbol, stateVars>>

\* A and F
AddOrder(l, id, side, px, qty) ==
  CallBook(l, AddOp(id, side, AsPx(px), qty), ~IsPlaceholder(px),
           Placeholder(px), NothingElse)

AtHeadAfterwards(l, o) ==  \* mutant: the place is looked up too late
  LET lb == BookOrNew(l)
  IN  IF AheadOf([lb EXCEPT !.book = CallOn(lb, o).book], o.id) = 0
      THEN {"ec_total", "ec_at_head"} ELSE {"ec_total"}

\* queue_ahead is read before the execution.
AtHead(l, o) ==
  IF AheadOf(BookOrNew(l), o.id) = 0 THEN {"ec_total", "ec_at_head"} ELSE {"ec_total"}

\* E and C
ExecuteOrder(l, id, qty) ==
  LET o == ExecuteOp(id, qty) IN CallBook(l, o, FALSE, {}, AtHead(l, o))

\* The order had less than the message took.
OverCancel(l, o) ==
  IF CallOn(BookOrNew(l), o).result.value.qty < o.qty THEN {"over_cancel"} ELSE {}

\* X
CancelOrder(l, id, qty) ==
  LET o == CancelOp(id, qty) IN CallBook(l, o, FALSE, {}, OverCancel(l, o))

\* D
DeleteOrder(l, id) == CallBook(l, DeleteOp(id), FALSE, {}, NothingElse)

\* U: no placeholder is counted, but none centres a window either.
ReplaceOrder(l, old, new, px, qty) ==
  CallBook(l, ReplaceOp(old, new, AsPx(px), qty), ~IsPlaceholder(px), {}, NothingElse)

\* P, Q, B, the types that are only counted, and a type byte outside the table.
OtherMessage(unknown) ==
  /\ counted' = IF unknown THEN {"messages", "unknown_type"} ELSE {"messages"}
  /\ changed' = FALSE
  /\ UNCHANGED <<bookVars, tableVars, stateVars>>

-----------------------------------------------------------------------------

Init ==
  /\ feed \in Feeds
  /\ books = [l \in Locates |-> NoBook]
  /\ watched = [l \in Locates |-> FALSE]
  /\ symbol = [l \in Locates |-> "None"]
  /\ hState = [l \in Locates |-> "None"]
  /\ sState = "None" /\ afterQ = FALSE
  /\ live = [l \in Locates |-> 0] /\ liveHwm = [l \in Locates |-> 0]
  /\ total = 0 /\ totalHwm = 0
  /\ realOffset = [l \in Locates |-> 0]
  /\ op = NoOp /\ result = NoResult
  /\ counted = {} /\ changed = FALSE

\* The order messages that reach a book.
BookMessage(l) ==
  \/ \E id \in feed.ids, side \in Sides, px \in feed.prices, qty \in feed.qtys : AddOrder(l, id, side, px, qty)
  \/ \E id \in feed.ids, qty \in feed.qtys : ExecuteOrder(l, id, qty)
  \/ \E id \in feed.ids, qty \in feed.qtys : CancelOrder(l, id, qty)
  \/ \E id \in feed.ids : DeleteOrder(l, id)
  \/ \E old, new \in feed.ids, px \in feed.prices, qty \in feed.qtys : ReplaceOrder(l, old, new, px, qty)

OrderMessage(l) == BookMessage(l) \/ \E px \in feed.prices : AddWithoutSide(l, px)

Next ==
  /\ UNCHANGED feed
  /\ \/ \E code \in feed.codes : System(code)
     \/ \E l \in feed.locates, stock \in feed.symbols : Directory(l, stock)
     \/ \E l \in feed.locates, state \in feed.states : TradingAction(l, state)
     \/ \E l \in feed.locates : OrderMessage(l)
     \/ \E unknown \in BOOLEAN : OtherMessage(unknown)

Spec == Init /\ [][Next]_vars

-----------------------------------------------------------------------------
(* Properties                                                              *)

ValidPrices == {p \in Prices : p > 0}

\* The book of a locate as the trait's promise sees it.
QueueOf(lb) ==
  [s \in Sides |-> [p \in ValidPrices |->
     IF lb.kind = "None" THEN <<>>
     ELSE IF lb.kind = "Ref" THEN Ref!Fifo(lb.book, s, p)
     ELSE LET arr(base, tick) == Array(base, tick)!Fifo(lb.book,
                Array(base, tick)!LevelAt(lb.book.sides[s], Array(base, tick)!Locate(p)))
          IN  arr(lb.base, lb.tick)]]

\* Every locate has a book of one kind; the counts are natural numbers.
TypeOK ==
  /\ DOMAIN books = Locates
  /\ \A l \in Locates : books[l].kind \in {"None", "Ref", "Array"}
  /\ watched \in [Locates -> BOOLEAN]
  /\ symbol \in [Locates -> feed.symbols \cup {"None"}]
  /\ hState \in [Locates -> feed.states \cup {"None"}]
  /\ sState \in feed.codes \cup {"None"} /\ afterQ \in BOOLEAN
  /\ live \in [Locates -> Nat] /\ liveHwm \in [Locates -> Nat]
  /\ total \in Nat /\ totalHwm \in Nat
  /\ realOffset \in [Locates -> Nat]
  /\ changed \in BOOLEAN

\* The live counts, kept from the returned events alone, are the numbers of orders
\* the books hold, on both kinds of book and across the change of kind; the total
\* is their sum.
LiveExact ==
  /\ \A l \in Locates : live[l] = LiveOrders(books[l])
  /\ total = SumFunction(live)

\* The high-water marks cover what they measure, and the mark of the total is no
\* more than the marks of the locates together.
HwmCovers ==
  /\ \A l \in Locates : live[l] <= liveHwm[l] /\ liveHwm[l] <= totalHwm
  /\ total <= totalHwm
  /\ totalHwm <= SumFunction(liveHwm)

\* A window begins above price zero, only a watched locate has one, and a real
\* order never rests farther from its base than max_abs_offset says.
WindowValid ==
  \A l \in Locates : books[l].kind = "Array" =>
    /\ watched[l]
    /\ books[l].base >= 1
    /\ realOffset[l] <= Larger(books[l].book.sides["Bid"].maxOffset,
                               books[l].book.sides["Ask"].maxOffset)

\* What the session keeps beside its books agrees with them.
Bookkeeping == TypeOK /\ LiveExact /\ HwmCovers /\ WindowValid

\* The session keeps what is promised of its books: each order message is one
\* call on the book of its locate, answered as the trait promises, and moving a
\* book to an array window is invisible, whatever rests in it.
Promise == INSTANCE MarketBooks WITH queues <- [l \in Locates |-> QueueOf(books[l])]

KeepsPromise == Promise!Spec

\* A book moves to an array window only in the step of an order message that the
\* book accepted, and the order that centres the window rests inside it.
CentredOnRestingOrder ==
  [][\A l \in Locates :
       books[l].kind # "Array" /\ books'[l].kind = "Array" =>
         LET lb == books'[l]
         IN  /\ result'.ok /\ changed'
             /\ op'.px - lb.base \in 0 .. (NLevels - 1) * lb.tick
             /\ (op'.px - lb.base) % lb.tick = 0
             /\ \E s \in Sides :
                  QueueOf(lb)[s][op'.px] # <<>>]_vars

\* apply_msg returns true exactly when a book changed: what a sampler counts on.
ChangedExact ==
  [][changed' <=> \E l \in Locates : QueueOf(books'[l]) # QueueOf(books[l])]_vars

\* An execution counts as one at the head of its level exactly if the order was
\* the first of its FIFO before it, full executions included.
AtHeadExact ==
  []["ec_total" \in counted' =>
       ("ec_at_head" \in counted' <=>
          \E l \in Locates, s \in Sides : \E p \in ValidPrices :
            /\ books[l] # books'[l]
            /\ QueueOf(books[l])[s][p] # <<>>
            /\ QueueOf(books[l])[s][p][1].id = op'.id)]_vars

\* No crossing is missed: a message that leaves its book locked or crossed, when
\* it was not, is counted, in the regime the last Q and H messages set.
CrossingCounted ==
  [][\A l \in Locates :
       LET crossed(lb) ==
             \E q \in {QueueOf(lb)} : \E bid, ask \in ValidPrices :
               bid >= ask /\ q["Bid"][bid] # <<>> /\ q["Ask"][ask] # <<>>
       IN  books'[l] # books[l] /\ crossed(books'[l]) /\ ~crossed(books[l]) =>
             /\ (afterQ <=> "crossed_after_q" \in counted')
             /\ (~afterQ <=> "crossed_before_q" \in counted')
             /\ ("crossed_after_q_trading" \in counted' <=> afterQ /\ hState[l] = "T")]_vars
=============================================================================
