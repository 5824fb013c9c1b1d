------------------------------ MODULE MCSession ------------------------------
(***************************************************************************)
(* Session on prices scaled down: a cent is two units, a dollar eight; 2   *)
(* is a placeholder at the near end and 12 at the far one, 3 and 4 are     *)
(* below a dollar, off the one-cent grid and on it, 9 is above a dollar    *)
(* and 16 turns negative when cast.  The feeds: a watched locate with      *)
(* prices of three classes; the messages that set the regime a crossing is *)
(* counted in; two locates watched by symbol, with directory messages      *)
(* before, between and after their orders, and the near placeholder; a     *)
(* window with a tick of one unit, and the far placeholder; and a move to  *)
(* the array window with up to three orders at rest.                       *)
(***************************************************************************)
EXTENDS Session

CONSTANTS a, b, c, l1, l2

MCIds == {a, b, c}
MCLocates == {l1, l2}
IdsAndLocates == Permutations(MCIds) \cup Permutations(MCLocates)

Nothing == [locates |-> {}, symbols |-> {}, all |-> FALSE]

Coarse ==
  [watch |-> [Nothing EXCEPT !.locates = {l1}], locates |-> {l1}, ids |-> {a, b},
   prices |-> {4, 9, 16}, qtys |-> {1, 2}, symbols |-> {}, codes |-> {}, states |-> {}]

Regimes ==
  [Coarse EXCEPT !.prices = {9}, !.qtys = {0, 1}, !.codes = {"Q", "C"}, !.states = {"T", "H"}]

Directories ==
  [Coarse EXCEPT !.watch = [Nothing EXCEPT !.symbols = {"x"}], !.locates = {l1, l2}, !.ids = {a},
                     !.prices = {2, 9}, !.qtys = {1}, !.symbols = {"x", "y"}]

SubPenny ==
  [Coarse EXCEPT !.prices = {3, 12}, !.qtys = {1}]

ThreeAtRest ==
  [Coarse EXCEPT !.watch = [Nothing EXCEPT !.symbols = {"x"}], !.ids = {a, b, c},
                     !.prices = {9}, !.qtys = {1}, !.symbols = {"x"}]

MCFeeds == {Coarse, Regimes, Directories, SubPenny, ThreeAtRest}

CastPrices == {AsPx(p) : p \in UNION {f.prices : f \in MCFeeds}}

\* What a message does depends on the state of the session alone: the last call,
\* its result and what was counted of it are not read again.
SessionView ==
  <<feed, books, tableVars, stateVars, live, liveHwm, total, totalHwm, realOffset>>
=============================================================================
