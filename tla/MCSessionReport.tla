--------------------------- MODULE MCSessionReport ---------------------------
(***************************************************************************)
(* A watched locate with short days; prices as in MCSession.               *)
(***************************************************************************)
EXTENDS SessionReport

CONSTANTS a, b

MCIds == {a, b}
SwapIds == Permutations(MCIds)

MCFeeds ==
  {[watch |-> [locates |-> {1}, symbols |-> {}, all |-> FALSE], locates |-> {1},
    ids |-> {a, b}, prices |-> {2, 9}, qtys |-> {1, 2}, symbols |-> {"x"},
    codes |-> {}, states |-> {"T"}]}

CastPrices == {AsPx(p) : p \in UNION {f.prices : f \in MCFeeds}}

ReportView == <<books, tableVars, stateVars, reportVars, carried, fresh>>
=============================================================================
