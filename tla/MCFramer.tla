------------------------------ MODULE MCFramer ------------------------------
(***************************************************************************)
(* The streaming framer over every binary input of at most MaxData bytes,  *)
(* with each of the three endings.  With base 2 a payload has at most 3    *)
(* bytes and the smallest buffer 5, so an input of 8 bytes moves the       *)
(* window more than once.                                                  *)
(***************************************************************************)
EXTENDS Framer

CONSTANT MaxData

MCInputs == UNION {[1 .. n -> 0 .. Base - 1] : n \in 0 .. MaxData}

MCEndings == {Source!Eof, Source!Cut, Source!Trailing(3)}
=============================================================================
