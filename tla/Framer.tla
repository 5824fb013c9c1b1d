------------------------------- MODULE Framer -------------------------------
(***************************************************************************)
(* Framer (lob-feed/src/itch/frame.rs): frames from a source that delivers *)
(* its bytes in pieces, through one buffer of fixed length.  A frame that  *)
(* straddles the end of the buffer is completed by moving the unconsumed   *)
(* tail to the front and reading on.                                       *)
(*                                                                         *)
(* buf is the filled part of the code's buffer, so the code's `end' is     *)
(* Len(buf): nothing beyond it is ever read.  One call of next_frame is    *)
(* several steps, one for each read of the source, because every read may  *)
(* deliver less than it was asked for, be interrupted, end the input or    *)
(* fail the call.                                                          *)
(***************************************************************************)
EXTENDS Integers, Sequences

CONSTANTS
  Base,      \* 256 in the code; see FrameStream
  AskedLen,  \* the buffer length the caller of with_buffer asks for
  Inputs,    \* what a source may hold
  Endings    \* how it may end

VARIABLES
  data,       \* what the source can deliver (total bytes of ByteSource)
  ending,     \* how the source ends
  sent,       \* how much the source has delivered
  report,     \* what the source returned last
  buf,        \* the filled part of the buffer
  start,      \* the part of it already returned
  eof,        \* the source has ended
  cut,        \* ... in the middle of a gzip member
  trailing,   \* ... with this many bytes that are no member
  frames,     \* frames returned
  truncated,  \* incomplete last messages discarded
  bytes_in,   \* bytes taken from the source
  pc,         \* where a call of next_frame is
  result      \* what the last call returned

source == <<data, ending, sent, report>>
counts == <<frames, truncated>>
end_of_input == <<eof, cut, trailing>>
vars == <<source, buf, start, end_of_input, counts, bytes_in, pc, result>>

Source == INSTANCE ByteSource WITH total <- Len(data)

MaxLen == Base * Base - 1

\* mutant: the caller's length is taken as it is.
AskedLenOnly == AskedLen

\* with_buffer: a buffer that could not hold the longest frame is enlarged.
BufLen == IF AskedLen < 2 + MaxLen THEN 2 + MaxLen ELSE AskedLen

\* Bytes of the input that calls have consumed.
Consumed == bytes_in - (Len(buf) - start)

Promise == INSTANCE FrameStream WITH pos <- Consumed

Byte == Promise!Byte

ASSUME FramerAssumption ==
  /\ Base \in Nat \ {0, 1}
  /\ AskedLen \in Nat
  /\ \A input \in Inputs : input \in Seq(0 .. Base - 1)
  /\ \A end \in Endings : end.kind \in {"Eof", "Cut", "Trailing"} /\ end.bytes \in Nat
  /\ \A end \in Endings : end.kind # "Trailing" => end.bytes = 0

\* The payload length the first two bytes of the window announce.
Announced == buf[start + 1] * Base + buf[start + 2]

\* The window holds a whole frame.
FrameBuffered ==
  /\ start + 2 <= Len(buf)
  /\ start + 2 + Announced <= Len(buf)

-----------------------------------------------------------------------------
Init ==
  /\ data \in Inputs
  /\ ending \in Endings
  /\ Source!Init
  /\ buf = <<>>
  /\ start = 0
  /\ eof = FALSE
  /\ cut = FALSE
  /\ trailing = 0
  /\ frames = 0
  /\ truncated = 0
  /\ bytes_in = 0
  /\ pc = "Returned"
  /\ result = Promise!NotCalled

Call ==
  /\ pc = "Returned"
  /\ pc' = "Framing"
  /\ UNCHANGED <<source, buf, start, end_of_input, counts, bytes_in, result>>

Return(r) ==
  /\ pc' = "Returned"
  /\ result' = r

TakeFrame ==
  /\ pc = "Framing"
  /\ FrameBuffered
  /\ start' = start + 2 + Announced
  /\ frames' = frames + 1
  /\ Return(Promise!Frame(SubSeq(buf, start + 3, start + 2 + Announced)))
  /\ UNCHANGED <<source, buf, end_of_input, truncated, bytes_in>>

\* mutant: the discarded tail stays in the window.
TakeEndKeepsTail ==
  /\ pc = "Framing"
  /\ ~ FrameBuffered
  /\ eof
  /\ truncated' = IF start < Len(buf) THEN truncated + 1 ELSE truncated
  /\ start' = start
  /\ Return(Promise!End)
  /\ UNCHANGED <<source, buf, end_of_input, frames, bytes_in>>

TakeEnd ==
  /\ pc = "Framing"
  /\ ~ FrameBuffered
  /\ eof
  /\ truncated' = IF start < Len(buf) THEN truncated + 1 ELSE truncated
  /\ start' = Len(buf)
  /\ Return(Promise!End)
  /\ UNCHANGED <<source, buf, end_of_input, frames, bytes_in>>

\* mutant: the window is shortened but its bytes are not moved.
RefillUnmoved ==
  /\ pc = "Framing"
  /\ ~ FrameBuffered
  /\ ~ eof
  /\ buf' = SubSeq(buf, 1, Len(buf) - start)
  /\ start' = 0
  /\ pc' = "Reading"
  /\ UNCHANGED <<source, end_of_input, counts, bytes_in, result>>

\* refill moves the window to the front of the buffer before it reads.
Refill ==
  /\ pc = "Framing"
  /\ ~ FrameBuffered
  /\ ~ eof
  /\ buf' = SubSeq(buf, start + 1, Len(buf))
  /\ start' = 0
  /\ pc' = "Reading"
  /\ UNCHANGED <<source, end_of_input, counts, bytes_in, result>>

Filled ==
  /\ pc = "Reading"
  /\ Len(buf) = BufLen
  /\ pc' = "Framing"
  /\ UNCHANGED <<source, buf, start, end_of_input, counts, bytes_in, result>>

\* A read is only made into a part of the buffer that is not empty.
Reading == pc = "Reading" /\ Len(buf) < BufLen

ReadData(n) ==
  /\ Reading
  /\ UNCHANGED <<data, start, end_of_input, counts, pc, result>>
  /\ Source!Deliver(n)
  /\ buf' = buf \o SubSeq(data, sent + 1, sent + n)
  /\ bytes_in' = bytes_in + n

\* mutant: only a plain end of the source is taken for the end of the input.
ReadPlainEnd ==
  /\ Reading
  /\ UNCHANGED <<data, buf, start, counts, bytes_in, result>>
  /\ Source!Finish
  /\ eof' = (ending.kind = "Eof")
  /\ cut' = (ending.kind = "Cut")
  /\ trailing' = IF ending.kind = "Trailing" THEN ending.bytes ELSE 0
  /\ pc' = "Framing"

ReadEnd ==
  /\ Reading
  /\ UNCHANGED <<data, buf, start, counts, bytes_in, result>>
  /\ Source!Finish
  /\ eof' = TRUE
  /\ cut' = (ending.kind = "Cut")
  /\ trailing' = IF ending.kind = "Trailing" THEN ending.bytes ELSE 0
  /\ pc' = "Framing"

\* mutant: a failed call forgets what its reads had put into the buffer.
ReadFailsForgetting ==
  /\ Reading
  /\ UNCHANGED <<data, start, end_of_input, counts, bytes_in>>
  /\ Source!Fail
  /\ buf' = <<>>
  /\ IF report' = Source!Interrupted
       THEN UNCHANGED <<pc, result>>
       ELSE Return(Promise!Error)

\* An interrupted read is repeated, any other error ends the call.
ReadFails ==
  /\ Reading
  /\ UNCHANGED <<data, buf, start, end_of_input, counts, bytes_in>>
  /\ Source!Fail
  /\ IF report' = Source!Interrupted
       THEN UNCHANGED <<pc, result>>
       ELSE Return(Promise!Error)

ReadProgress ==
  \/ \E n \in 1 .. BufLen - Len(buf) : ReadData(n)
  \/ ReadEnd

Step == TakeFrame \/ TakeEnd \/ Refill \/ Filled

Next == Call \/ Step \/ ReadProgress \/ ReadFails

Spec == Init /\ [][Next]_vars

(***************************************************************************)
(* A call runs on by itself, and a source that is read again and again is  *)
(* not interrupted for ever: each of its reads delivers, ends or fails     *)
(* sooner or later.                                                        *)
(***************************************************************************)
CallFairness ==
  /\ WF_vars(Step)
  /\ WF_vars(ReadProgress \/ (ReadFails /\ pc' = "Returned"))

\* Session::replay calls until the end of the input.
ReplayFairness == CallFairness /\ WF_vars(Call)

FairSpec == Spec /\ CallFairness

ReplaySpec == Spec /\ ReplayFairness

-----------------------------------------------------------------------------
TypeOK ==
  /\ data \in Seq(Byte)
  /\ ending \in Endings
  /\ sent \in 0 .. Len(data)
  /\ buf \in Seq(Byte)
  /\ Len(buf) <= BufLen
  /\ start \in 0 .. Len(buf)
  /\ eof \in BOOLEAN
  /\ cut \in BOOLEAN
  /\ trailing \in Nat
  /\ frames \in Nat
  /\ truncated \in Nat
  /\ pc \in {"Returned", "Framing", "Reading"}

(***************************************************************************)
(* However the reads cut the input and however often the window moved, it  *)
(* holds the bytes of the input that end at the byte count, in their       *)
(* order, and the byte count is what the source has delivered.             *)
(***************************************************************************)
WindowExact ==
  /\ bytes_in = sent
  /\ Len(buf) - start <= bytes_in
  /\ \A i \in start + 1 .. Len(buf) : buf[i] = data[Consumed + i - start]

\* Both together: the framer is where its byte counts say it is in the input.
InStep == TypeOK /\ WindowExact

(***************************************************************************)
(* When the framer says the input has ended, it has: every byte was taken, *)
(* the flags a replay copies into its statistics tell how the source       *)
(* ended, and at most one message was cut.                                 *)
(***************************************************************************)
EndReported ==
  result = Promise!End =>
    /\ Consumed = Len(data)
    /\ cut = (ending.kind = "Cut")
    /\ trailing = ending.bytes
    /\ truncated <= 1

(***************************************************************************)
(* The frames, the end and the counts are those the in-memory framer gives *)
(* for all the bytes at once, whatever the pieces they came in and however *)
(* many calls failed in between.                                           *)
(***************************************************************************)
KeepsPromise == Promise!Spec

\* A call returns: the buffer always has room to complete the next frame.
CallReturns == (pc # "Returned") ~> (pc = "Returned")

\* A replay that is not stopped by errors again and again reaches the end.
ReplayEnds ==
  <>(result = Promise!End) \/ []<><<ReadFails>>_vars
=============================================================================
