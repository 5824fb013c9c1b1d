------------------------------ MODULE MCReaders ------------------------------
(***************************************************************************)
(* Byte strings of at most MaxData digits; payloads of every type at every *)
(* length up to two bytes beyond the longest message, and one type outside *)
(* the size table; DBN files of up to two records, or that and a zero      *)
(* length, cut anywhere; operations on two ids at a price on the grid of   *)
(* the array window, in files that may lose their end and have a record    *)
(* with a kind that is none (6) or an id2 that is no side (2); pairs of    *)
(* snapshots over three prices, so that each side may rise, fall or stay   *)
(* between them.                                                           *)
(***************************************************************************)
EXTENDS Readers

CONSTANT MaxData

MCInputs == UNION {[1 .. n -> 0 .. Base - 1] : n \in 0 .. MaxData}
=============================================================================
