----------------------------- MODULE MCArrayBook -----------------------------
(***************************************************************************)
(* ArrayBook on a window of three levels in two bitmap words, at prices    *)
(* 2, 4 and 6: 0 is a bad price, 2 and 6 lie in different words, 3 and 1   *)
(* are off the grid, above and below the base, and 8 is out of range.      *)
(***************************************************************************)
EXTENDS ArrayBook

CONSTANTS a, b, c

MCIds == {a, b, c}
MCQtys == 0 .. 2
IdSymmetry == Permutations(MCIds)

VARIABLE callers   \* how the book is used: by two ids everywhere, by three in one level,
                   \* or by three of one share on and off the grid

SpreadOps ==
  {o \in Ops : o.id \in {a, b} /\ (o.kind = "Replace" => o.new \in {a, b})}

OneLevelOps ==
  {o \in Ops : /\ o.kind \in {"Add", "Replace"} => o.px = 2
               /\ o.kind # "Delete" => o.qty # 0}

ShareOps ==
  {o \in Ops : /\ o.kind \in {"Add", "Replace"} => o.px \in {2, 3}
               /\ o.kind # "Delete" => o.qty = 1}

OpsOf == [Spread |-> SpreadOps, OneLevel |-> OneLevelOps, Shares |-> ShareOps]

MCInit == Init /\ callers \in DOMAIN OpsOf

MCNext ==
  /\ \E o \in OpsOf[callers] : Do(o)
  /\ UNCHANGED callers

MCSpec == MCInit /\ [][MCNext]_<<vars, callers>>

\* What a call does, and returns, depends on the book alone, and every step of
\* the property is on the state it leads to: states that differ only in the
\* last call and its result need no second visit.
BookView == <<book, callers>>
=============================================================================
