---------------------------- MODULE SessionReport ----------------------------
(***************************************************************************)
(* What a Session (lob-feed/src/itch/apply.rs) reports: the event log, the *)
(* messages counted per locate, and the close state that finish fills in   *)
(* and into_stats hands out.  Messages go on being applied as the caller   *)
(* likes, before and after finish.                                         *)
(*                                                                         *)
(* A hash is modelled by what it digests.  The table of locates grows to   *)
(* the highest locate a message has made it hold.                          *)
(***************************************************************************)
EXTENDS Session

CONSTANTS
  MaxEvents,    \* bound on the records of the log
  MaxCarried    \* bound on the messages of a locate

ASSUME LocatesAreNumbers == Locates \subseteq Nat

VARIABLES
  tableLen,  \* length of the table of locates
  msgs,      \* [Locates -> msgs, once in the table]
  log,       \* the records of the event log
  finished,  \* whether finish has run
  closed,    \* what finish filled in
  taken,     \* what into_stats returned, or Alive
  carried,   \* history: [Locates -> messages that carried it]
  fresh      \* history: nothing has been applied since finish

reportVars == <<tableLen, msgs, log, finished, closed, taken>>
allVars == <<vars, reportVars, carried, fresh>>

NotClosed == [kind |-> "None"]
Alive == [kind |-> "Alive"]

-----------------------------------------------------------------------------
(* Counting messages                                                       *)

InTable(l) == l < tableLen

\* ensure_locate
Ensured(l) == IF InTable(l) THEN tableLen ELSE l + 1

\* A message that makes the table hold its locate and is counted there.
CountedAt(l) ==
  /\ tableLen' = Ensured(l)
  /\ msgs' = [msgs EXCEPT ![l] = @ + 1]

\* P, Q, B and the rest: counted only in a table that is long enough.
CountedIfKnown(l) ==
  /\ msgs' = IF InTable(l) THEN [msgs EXCEPT ![l] = @ + 1] ELSE msgs
  /\ UNCHANGED tableLen

Carries(l) ==
  /\ carried' = [carried EXCEPT ![l] = @ + 1]
  /\ carried'[l] <= MaxCarried

\* The caller applies one more message.
Applies ==
  /\ taken = Alive
  /\ fresh' = FALSE
  /\ UNCHANGED <<finished, closed, taken>>

-----------------------------------------------------------------------------
(* Messages                                                                *)

PushAccepted(events, r) ==  \* mutant: a rejection leaves no record
  IF r.ok THEN Append(events, LoggedEvent(r)) ELSE events

\* record: one record per call on a book, accepted or not.
Push(events, r) == Append(events, LoggedEvent(r))

BookCall(l) ==
  /\ Applies /\ Len(log) < MaxEvents
  /\ BookMessage(l) /\ CountedAt(l) /\ Carries(l)
  /\ log' = Push(log, result')

DroppedAdd(l) ==
  /\ Applies
  /\ \E px \in feed.prices : AddWithoutSide(l, px)
  /\ CountedAt(l) /\ Carries(l)
  /\ UNCHANGED log

DirectoryOrAction(l) ==
  /\ Applies
  /\ \/ \E stock \in feed.symbols : Directory(l, stock)
     \/ \E state \in feed.states : TradingAction(l, state)
  /\ CountedAt(l) /\ Carries(l)
  /\ UNCHANGED log

TradeOrOther(l) ==
  /\ Applies
  /\ OtherMessage(FALSE) /\ CountedIfKnown(l) /\ Carries(l)
  /\ UNCHANGED log

-----------------------------------------------------------------------------
(* The end                                                                 *)

HashInputOf(lb) ==
  IF lb.kind = "Ref" THEN Ref!HashInput(lb.book)
                     ELSE Array(lb.base, lb.tick)!HashInput(lb.book)

WindowOf(lb) == IF lb.kind = "Array" THEN <<lb.base, NLevels, lb.tick>> ELSE <<>>

\* What finish fills in for the books there are, and for the log.
Close ==
  [kind |-> "Some",
   hash |-> [l \in {l \in Locates : Known(l)} |-> HashInputOf(books[l])],
   live |-> [l \in {l \in Locates : Known(l)} |-> LiveOrders(books[l])],
   window |-> [l \in {l \in Locates : Known(l)} |-> WindowOf(books[l])],
   events |-> log]

Finish ==
  /\ taken = Alive
  /\ finished' = TRUE /\ closed' = Close /\ fresh' = TRUE
  /\ UNCHANGED <<vars, tableLen, msgs, log, taken, carried>>

IntoStatsUnfinished ==  \* mutant: into_stats leaves the closing to the caller
  closed

\* The close state that into_stats returns: the last one filled in, if any.
IntoStatsClose == IF finished THEN closed ELSE Close

IntoStats ==
  /\ taken = Alive
  /\ taken' = IntoStatsClose
  /\ UNCHANGED <<vars, tableLen, msgs, log, finished, closed, carried, fresh>>

ReportInit ==
  /\ Init
  /\ tableLen = 0
  /\ msgs = [l \in Locates |-> 0]
  /\ log = <<>>
  /\ finished = FALSE /\ closed = NotClosed /\ taken = Alive
  /\ carried = [l \in Locates |-> 0]
  /\ fresh = FALSE

ReportNext ==
  /\ UNCHANGED feed
  /\ \/ \E l \in feed.locates :
          BookCall(l) \/ DroppedAdd(l) \/ DirectoryOrAction(l) \/ TradeOrOther(l)
     \/ Finish
     \/ IntoStats

ReportSpec == ReportInit /\ [][ReportNext]_allVars

-----------------------------------------------------------------------------
(* Properties                                                              *)

\* The close state as a reader of the books would have it: the queues the trait
\* promises, whatever structure holds them.
Expected(l) ==
  [hash |-> Promise!Book(l)!HashInput(QueueOf(books[l])),
   live |-> Cardinality(Promise!Book(l)!LiveIds(QueueOf(books[l])))]

Shows(stats) ==
  /\ stats.events = log
  /\ DOMAIN stats.hash = {l \in Locates : Known(l)}
  /\ \A l \in DOMAIN stats.hash :
       /\ [hash |-> stats.hash[l], live |-> stats.live[l]] = Expected(l)
       /\ (stats.window[l] # <<>> => watched[l])

\* A session that finished after its last message, or never, hands out statistics
\* that show its books and its log, the same for either kind of book.
ReportIsTrue ==
  taken # Alive /\ (fresh \/ ~finished) => taken.kind = "Some" /\ Shows(taken)

\* The effect of one record of the log on the queues of its book.
Replayed(l, q, e) ==
  LET side == IF e.side = 0 THEN "Bid" ELSE "Ask"
      f == Promise!Book(l)!Find(q, e.a)
  IN  IF e.kind = "Add" THEN Promise!Book(l)!PushTail(q, side, e.px, Order(e.a, e.qty))
      ELSE IF e.kind \in {"Cancel", "Exec", "Delete"} THEN Promise!Book(l)!TakeFrom(q, f, e.qty)
      ELSE IF e.kind = "Replace"
      THEN Promise!Book(l)!PushTail(Promise!Book(l)!TakeFrom(q, f, f.qty), side, e.px, Order(e.b, e.qty))
      ELSE q

\* The event log alone is enough to rebuild the book, order by order: an accepted
\* call is in it with what it did, a rejected one with nothing to do.
LogRebuildsBook ==
  \A l \in Locates : Locates = {l} =>
    QueueOf(books[l]) =
      FoldLeft(LAMBDA q, e : Replayed(l, q, e), Promise!Book(l)!EmptyBook, log)

\* No call is missing from the log: one that is rejected adds a record that says so.
RejectsLogged ==
  [][result' # result /\ ~result'.ok =>
       /\ Len(log') = Len(log) + 1
       /\ Last(log').kind \in {"Unknown", "Reject"}]_allVars

\* The log is complete: it rebuilds the book, and lists the rejected calls.
LogComplete == []LogRebuildsBook /\ RejectsLogged
=============================================================================
