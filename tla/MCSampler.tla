------------------------------ MODULE MCSampler ------------------------------
(***************************************************************************)
(* One locate on the watchlist by symbol, whose directory message may come *)
(* late; prices as in MCSession.  A row per change, over times that do not *)
(* matter; a row per two changes; and a row per two nanoseconds over times *)
(* that may run backwards, with one order.                                 *)
(***************************************************************************)
EXTENDS Sampler

CONSTANTS a, b, la

MCIds == {a, b}
MCLocates == {la}
SwapIds == Permutations(MCIds)

WatchX ==
  [watch |-> [locates |-> {}, symbols |-> {"x"}, all |-> FALSE], locates |-> {la},
   ids |-> {a, b}, prices |-> {4, 9}, qtys |-> {1, 2}, symbols |-> {"x", "y"},
   codes |-> {}, states |-> {}]

OnePrice == [WatchX EXCEPT !.prices = {9}, !.qtys = {1}]

Everything == [WatchX EXCEPT !.watch.symbols = {}, !.ids = {a}, !.qtys = {1}, !.symbols = {}]

MCReplays ==
  {[cadence |-> EveryN(1), feed |-> WatchX, times |-> {1}, changes |-> 4],
   [cadence |-> EveryN(2), feed |-> OnePrice, times |-> {1}, changes |-> 4],
   [cadence |-> EveryNs(2), feed |-> Everything, times |-> {0, 1, 2, 4}, changes |-> 4]}

MCFeeds == {r.feed : r \in MCReplays}

CastPrices == {AsPx(p) : p \in UNION {f.prices : f \in MCFeeds}}

SamplerView == <<books, tableVars, stateVars, replay, samplerVars, historyVars>>
=============================================================================
