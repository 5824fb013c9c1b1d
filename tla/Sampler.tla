------------------------------- MODULE Sampler -------------------------------
(***************************************************************************)
(* The sampling loop of replay_itch (python/lobcore/src/replay.rs) around  *)
(* a Session: after a message that changed the book of a sampled locate, a *)
(* row of the book and its features is written if the cadence says so.     *)
(* Every locate has a sampler of its own.  With an empty watchlist every   *)
(* locate is sampled, otherwise the watched ones.                          *)
(*                                                                         *)
(* Of the columns the last row of each locate is kept; `rows' and the      *)
(* variables after it are history, for the properties.                     *)
(***************************************************************************)
EXTENDS Session, Features

CONSTANTS
  Replays       \* arguments of a replay and bounds of its file: [cadence, feed,
                \* times: the timestamps of its messages, which may come in any
                \* order, changes: how many are sampled, per locate]

EveryN(n) == [mode |-> "EveryN", n |-> n]
EveryNs(d) == [mode |-> "EveryNs", n |-> d]

ASSUME CadenceIsValid ==
  \A r \in Replays :
    /\ r.cadence.mode \in {"EveryN", "EveryNs"} /\ r.cadence.n \in Nat \ {0}
    /\ r.times \subseteq Nat

VARIABLES
  replay,    \* the replay this is
  samplers,  \* [Locates -> since, lastTs and prevL1]
  lastRow,   \* [Locates -> the last row of the locate]
  rows,      \* [Locates -> number of rows]
  sampled,   \* [Locates -> changes of the book while it was sampled]
  quiet,     \* [Locates -> latest time of those since the last row, -1 for none]
  chain,     \* [Locates -> L1 of its last rows that had both sides]
  flow       \* [Locates -> sum of the ofi column over them]

samplerVars == <<samplers, lastRow>>
historyVars == <<rows, sampled, quiet, chain, flow>>
Cadence == replay.cadence

allVars == <<vars, replay, samplerVars, historyVars>>

NoTs == -1
NoL1 == L1(0, 0, 0, 0)
NoRow == [ts |-> NoTs]

SampleAll == feed.watch.locates = {} /\ feed.watch.symbols = {} /\ ~feed.watch.all

-----------------------------------------------------------------------------
(* One row                                                                 *)

L2Of(lb, side, depth) ==
  IF lb.kind = "Ref" THEN Ref!L2(lb.book, side, depth)
                     ELSE Array(lb.base, lb.tick)!L2(lb.book, side, depth)

\* The L1 of a book that has both sides.
CurL1(lb) ==
  LET bid == BestOf(lb, "Bid")
      ask == BestOf(lb, "Ask")
  IN  IF bid = <<>> \/ ask = <<>> THEN NoL1 ELSE L1(bid[1], bid[2], ask[1], ask[2])

Step(prev, cur) == IF prev = NoL1 \/ cur = NoL1 THEN 0 ELSE OfiStep(prev, cur)

\* emit: an empty side has price and quantity zero.
Row(s, ts, lb) ==
  LET best(side) == BestOf(lb, side)
      px(side) == IF best(side) = <<>> THEN 0 ELSE best(side)[1]
      qty(side) == IF best(side) = <<>> THEN 0 ELSE best(side)[2]
      levels(side) == L2Of(lb, side, 5)
      depth(side) == Depth5([k \in DOMAIN levels(side) |-> levels(side)[k][2]])
      cur == CurL1(lb)
  IN  [ts |-> ts,
       bidPx |-> px("Bid"), bidQty |-> qty("Bid"), askPx |-> px("Ask"), askQty |-> qty("Ask"),
       depth |-> <<depth("Bid"), depth("Ask")>>,
       imb5 |-> Imbalance(depth("Bid"), depth("Ask")),
       wmid |-> Wmid(cur),
       imb1 |-> Imbalance(cur.bidQty, cur.askQty),
       spread |-> Spread(cur),
       ofi |-> Step(s.prevL1, cur)]

-----------------------------------------------------------------------------
(* The loop                                                                *)

NewSampler == [since |-> 0, lastTs |-> NoTs, prevL1 |-> NoL1]

DueBackwards(s, ts) ==  \* mutant: the time since the last row wraps when it is negative
  IF Cadence.mode = "EveryN" THEN s.since >= Cadence.n
  ELSE s.lastTs = NoTs \/ ts < s.lastTs \/ ts - s.lastTs >= Cadence.n

\* The subtraction saturates at zero, which no cadence is at most.
Due(s, ts) ==
  IF Cadence.mode = "EveryN" THEN s.since >= Cadence.n
  ELSE s.lastTs = NoTs \/ ts - s.lastTs >= Cadence.n

EmittedKeepsL1(s, ts, lb) ==  \* mutant: a row without a side leaves the L1 before it
  [since |-> 0, lastTs |-> ts, prevL1 |-> IF CurL1(lb) = NoL1 THEN s.prevL1 ELSE CurL1(lb)]

Emitted(s, ts, lb) == [since |-> 0, lastTs |-> ts, prevL1 |-> CurL1(lb)]

BookBefore(l) ==  \* mutant: the row is taken before the message is applied
  IF books[l].kind = "None" THEN RefKind(Ref!EmptyRefBook) ELSE books[l]

\* Session::book after apply_msg.
BookNow(l) == books'[l]

\* Whether the message that apply_msg took counts at all.
Counts(l) == changed' /\ (SampleAll \/ watched'[l])

Sample(l, ts) ==
  IF ~Counts(l) THEN UNCHANGED samplerVars
  ELSE LET s == [samplers[l] EXCEPT !.since = @ + 1]
       IN  IF ~Due(s, ts)
           THEN /\ samplers' = [samplers EXCEPT ![l] = s]
                /\ UNCHANGED lastRow
           ELSE /\ samplers' = [samplers EXCEPT ![l] = Emitted(s, ts, BookNow(l))]
                /\ lastRow' = [lastRow EXCEPT ![l] = Row(s, ts, BookNow(l))]

-----------------------------------------------------------------------------
(* History                                                                 *)

\* What a reader of the file would say: the message changed a sampled book.
Sampled(l) ==
  /\ QueueOf(books'[l]) # QueueOf(books[l])
  /\ SampleAll \/ watched'[l]

\* A row was written for l: its sampler starts counting again.
RowWritten(l) == Sampled(l) /\ samplers'[l].since = 0

TwoSided(row) == row.bidQty > 0 /\ row.askQty > 0

Remember(l, ts) ==
  LET row == lastRow'[l]
  IN  /\ sampled' = [sampled EXCEPT ![l] = IF Sampled(l) THEN @ + 1 ELSE @]
      /\ sampled'[l] <= replay.changes
      /\ rows' = [rows EXCEPT ![l] = IF RowWritten(l) THEN @ + 1 ELSE @]
      /\ quiet' = [quiet EXCEPT ![l] = IF RowWritten(l) THEN NoTs
                                       ELSE IF Sampled(l) THEN Larger(@, ts) ELSE @]
      /\ IF ~RowWritten(l) THEN UNCHANGED <<chain, flow>>
         ELSE IF ~TwoSided(row)
         THEN /\ chain' = [chain EXCEPT ![l] = <<>>]
              /\ flow' = [flow EXCEPT ![l] = 0]
         ELSE /\ chain' = [chain EXCEPT ![l] =
                   Append(@, L1(row.bidPx, row.bidQty, row.askPx, row.askQty))]
              /\ flow' = [flow EXCEPT ![l] = @ + row.ofi]

-----------------------------------------------------------------------------

SampleInit ==
  /\ Init
  /\ replay \in Replays /\ feed = replay.feed
  /\ samplers = [l \in Locates |-> NewSampler]
  /\ lastRow = [l \in Locates |-> NoRow]
  /\ rows = [l \in Locates |-> 0]
  /\ sampled = [l \in Locates |-> 0]
  /\ quiet = [l \in Locates |-> NoTs]
  /\ chain = [l \in Locates |-> <<>>]
  /\ flow = [l \in Locates |-> 0]

\* An order message of l at time ts, then the sampler of l.
SampledMessage(l, ts) == OrderMessage(l) /\ Sample(l, ts) /\ Remember(l, ts)

\* Any other message reaches the session alone.
OtherMessages ==
  /\ \/ \E code \in feed.codes : System(code)
     \/ \E l \in feed.locates, stock \in feed.symbols : Directory(l, stock)
  /\ UNCHANGED <<samplerVars, historyVars>>

SampleNext ==
  /\ UNCHANGED <<feed, replay>>
  /\ \/ \E l \in feed.locates, ts \in replay.times : SampledMessage(l, ts)
     \/ OtherMessages

SampleSpec == SampleInit /\ [][SampleNext]_allVars

-----------------------------------------------------------------------------
(* Properties                                                              *)

\* Every n-th change of a sampled book has a row: none is counted twice, none of
\* a rejected message is counted, and a locate watched late counts from there.
EveryNthHasRow ==
  \A l \in Locates :
    /\ rows[l] = sampled[l] \div Cadence.n
    /\ samplers[l].since = sampled[l] % Cadence.n

\* With a cadence in time the first change has a row, and no change at least the
\* cadence after the last row has gone without one, even when times run backwards.
NoneOverdue ==
  \A l \in Locates :
    /\ sampled[l] > 0 => rows[l] > 0
    /\ quiet[l] # NoTs => quiet[l] < lastRow[l].ts + Cadence.n

\* With a cadence in time rows of one locate are at least that far apart, so their
\* times increase.
RowsApart ==
  [][\A l \in Locates :
       Cadence.mode = "EveryNs" /\ rows[l] > 0 /\ rows'[l] > rows[l] =>
         lastRow'[l].ts >= lastRow[l].ts + Cadence.n]_allVars

\* Rows come when the cadence of the replay says: none late, lost, doubled or early.
RowsOnTime ==
  /\ [](IF Cadence.mode = "EveryN" THEN EveryNthHasRow ELSE NoneOverdue)
  /\ RowsApart

\* A row shows what the trait promises of the book after its message, also when
\* the same message moved the book to an array window.
RowShowsBook ==
  [][\A l \in Locates : rows'[l] > rows[l] =>
       LET q == QueueOf(books'[l])
           best(s) == Promise!Book(l)!Best(q, s)
           shown == [Bid |-> <<lastRow'[l].bidPx, lastRow'[l].bidQty>>,
                     Ask |-> <<lastRow'[l].askPx, lastRow'[l].askQty>>]
       IN  /\ \A s \in Sides :
                shown[s] = IF best(s) = <<>> THEN <<0, 0>> ELSE SubSeq(best(s), 1, 2)
           /\ lastRow'[l].depth =
                [k \in {1, 2} |-> LET s == IF k = 1 THEN "Bid" ELSE "Ask"
                                  IN  Depth5([i \in DOMAIN Promise!Book(l)!L2(q, s, 5) |->
                                                Promise!Book(l)!L2(q, s, 5)[i][2]])]]_allVars

\* The ofi column adds up to the imbalance over the rows: since the last row that
\* lacked a side it is the windowed imbalance of the rows' own levels.
OfiTelescopes == \A l \in Locates : flow[l] = OfiWindow(chain[l])
=============================================================================
