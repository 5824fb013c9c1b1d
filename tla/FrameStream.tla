---------------------------- MODULE FrameStream ----------------------------
(***************************************************************************)
(* SliceFrames (lob-feed/src/itch/frame.rs): a byte string cut into        *)
(* length-prefixed frames.  It is also what the streaming framer promises  *)
(* over the bytes its source delivers, except that a call of the streaming *)
(* framer may fail without losing its place.                               *)
(*                                                                         *)
(* Bytes are digits of the base Base (256 in the code): a length prefix is *)
(* two of them, so a payload has at most Base^2 - 1 bytes.                 *)
(***************************************************************************)
EXTENDS Integers, Sequences

CONSTANTS
  Base,   \* 256 in the code
  Inputs  \* what a byte string may hold

VARIABLES
  data,       \* the input
  pos,        \* bytes consumed
  frames,     \* frames returned
  truncated,  \* incomplete last messages discarded
  result      \* what the last call returned

vars == <<data, pos, frames, truncated, result>>

Byte == 0 .. Base - 1

Frame(payload) == [kind |-> "Frame", payload |-> payload]
End == [kind |-> "End", payload |-> <<>>]
Error == [kind |-> "Error", payload |-> <<>>]
NotCalled == [kind |-> "NotCalled", payload |-> <<>>]

\* The payload length the two bytes after place p announce.
Announced(p) == data[p + 1] * Base + data[p + 2]

\* A whole frame starts at place p.
FrameAt(p) ==
  /\ p + 2 <= Len(data)
  /\ p + 2 + Announced(p) <= Len(data)

Init ==
  /\ data \in Inputs
  /\ pos = 0
  /\ frames = 0
  /\ truncated = 0
  /\ result = NotCalled

TakeFrame ==
  /\ FrameAt(pos)
  /\ pos' = pos + 2 + Announced(pos)
  /\ frames' = frames + 1
  /\ result' = Frame(SubSeq(data, pos + 3, pos + 2 + Announced(pos)))
  /\ UNCHANGED <<data, truncated>>

\* Nothing whole is left: what is left, if anything, is discarded and counted.
TakeEnd ==
  /\ ~ FrameAt(pos)
  /\ truncated' = IF pos < Len(data) THEN truncated + 1 ELSE truncated
  /\ pos' = Len(data)
  /\ result' = End
  /\ UNCHANGED <<data, frames>>

\* mutant: the count of discarded messages survives.
ResetPlaceOnly ==
  /\ pos' = 0
  /\ frames' = 0
  /\ UNCHANGED <<data, truncated, result>>

Reset ==
  /\ pos' = 0
  /\ frames' = 0
  /\ truncated' = 0
  /\ UNCHANGED <<data, result>>

Fail ==
  /\ result' = Error
  /\ UNCHANGED <<data, pos, frames, truncated>>

Advance == TakeFrame \/ TakeEnd

\* The in-memory framer, and the promise of the streaming one.
SliceSpec == Init /\ [][Advance \/ Reset]_vars
Spec == Init /\ [][Advance \/ Fail]_vars

-----------------------------------------------------------------------------
\* Where the first k frames of the input end, read one after another.
EndOfFrame[k \in Nat] ==
  IF k = 0 THEN 0
  ELSE LET p == EndOfFrame[k - 1] IN p + 2 + Announced(p)

(***************************************************************************)
(* The counters describe the place reached, over any number of passes:     *)
(* frames counts the frames before it and truncated tells whether a        *)
(* message that is not whole was discarded there.                          *)
(***************************************************************************)
CountsExact ==
  LET p == EndOfFrame[frames]
  IN  \/ truncated = 0 /\ pos = p
      \/ truncated = 1 /\ p < pos /\ pos = Len(data) /\ ~ FrameAt(p)
=============================================================================
