---------------------------- MODULE MCGzMembers ----------------------------
(***************************************************************************)
(* Files of one to MaxMembers members that inflate to at most MaxData      *)
(* bytes each: whole, cut at any place after the magic bytes that made     *)
(* `open' choose gzip, and followed by up to three bytes that are no       *)
(* member.                                                                 *)
(***************************************************************************)
EXTENDS GzMembers, SequencesExt

CONSTANTS MaxMembers, MaxData

Member(k) ==
  <<Magic1, Magic2>> \o [i \in 1 .. k |-> DataByte] \o <<Trailer>>

Whole ==
  {FlattenSeq([i \in DOMAIN sizes |-> Member(sizes[i])]) :
     sizes \in UNION {[1 .. n -> 0 .. MaxData] : n \in 1 .. MaxMembers}}

CutFiles == UNION {{SubSeq(f, 1, n) : n \in 2 .. Len(f)} : f \in Whole}

Junk ==
  {j \in UNION {[1 .. n -> {Magic1, Magic2, Other}] : n \in 1 .. 3} :
     ~ (Len(j) > 1 /\ j[1] = Magic1 /\ j[2] = Magic2)}

MCFiles == CutFiles \cup {f \o j : f \in Whole, j \in Junk}
=============================================================================
