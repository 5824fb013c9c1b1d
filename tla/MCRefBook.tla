------------------------------ MODULE MCRefBook ------------------------------
(***************************************************************************)
(* RefBook on a small instance: four ids, one bad and two good prices,    *)
(* and a level total that three orders can exceed.                         *)
(***************************************************************************)
EXTENDS RefBook

CONSTANTS a, b, c, d

MCIds == {a, b, c, d}
ThreeIds == {a, b, c}
MCPrices == {0, 1, 2}
MCQtys == 0 .. 2
IdSymmetry == Permutations(MCIds)

\* What a call does, and returns, depends on the book alone: states that differ
\* only in the last call and its result need no second visit.  Not for a
\* property of the result itself.
BookView == book
=============================================================================
