----------------------------- MODULE GzMembers -----------------------------
(***************************************************************************)
(* GzMembers (lob-feed/src/itch/frame.rs): the gzip members of a file,     *)
(* decoded one after another, and the bytes after the last one counted.    *)
(*                                                                         *)
(* A file is a sequence of symbols: the two magic bytes, a data symbol for *)
(* each byte a member inflates to, a symbol for its trailer, and any other *)
(* byte.  The decoder of one member (flate2, external) is a cursor over    *)
(* these.  The file is read through a BufReader, whose fill_buf returns    *)
(* what is left of its buffer and reads the file only when nothing is:     *)
(* `buffered' is what is left, so the place where a member ends in the     *)
(* buffer, which next_member depends on, is any place.                     *)
(***************************************************************************)
EXTENDS Integers, Sequences, FiniteSets

CONSTANTS
  Files,        \* what a file may hold
  BufReaderLen, \* 1 MB in the code
  FailsIn,      \* where a read of the file may fail: within a member
                \* ("Member") or in next_member ("Boundary")
  FileErrors    \* how: "Interrupted", or "Failed" for any other error

Magic1 == "1f"
Magic2 == "8b"
DataByte == "data"
Trailer == "trailer"
Other == "other"

Symbols == {Magic1, Magic2, DataByte, Trailer, Other}

\* `open' decodes only a file that starts with both magic bytes.
ASSUME GzAssumption ==
  /\ \A f \in Files : f \in Seq(Symbols) /\ Len(f) >= 2 /\ f[1] = Magic1 /\ f[2] = Magic2
  /\ BufReaderLen \in Nat \ {0}
  /\ FailsIn \subseteq {"Member", "Boundary"}
  /\ FileErrors \subseteq {"Interrupted", "Failed"}

VARIABLES
  file,      \* the bytes of the file
  at,        \* consumed by the reader on top of the BufReader
  buffered,  \* left in its buffer
  dec,       \* where the decoder is in a member; "None" once it is gone
  sent,      \* bytes read() has returned
  report     \* what it returned last

vars == <<file, at, buffered, dec, sent, report>>

Rest == Len(file) - at

\* fill_buf: the lengths it may return, and with `at' what it returns.
Heads ==
  IF buffered > 0 THEN {buffered}
  ELSE IF Rest = 0 THEN {0}
  ELSE {n \in 1 .. Rest : n <= BufReaderLen}


-----------------------------------------------------------------------------
(* What a file holds, from its members alone.                              *)

\* The first place after p with the symbol s, or the end of the file.
NextPlace(p, s) ==
  LET places == {q \in p + 1 .. Len(file) : file[q] = s}
  IN  IF places = {} THEN Len(file) ELSE CHOOSE q \in places : \A r \in places : q <= r

StartsMember(p) ==
  /\ p + 2 <= Len(file)
  /\ file[p + 1] = Magic1
  /\ file[p + 2] = Magic2

\* The place after the last member, a cut one included, that starts at p or later.
EndOfMembers[p \in 0 .. Len(file)] ==
  IF StartsMember(p) THEN EndOfMembers[NextPlace(p, Trailer)] ELSE p

(***************************************************************************)
(* How the file ends for one who reads its members and nothing else.       *)
(***************************************************************************)
total == Cardinality({q \in 1 .. EndOfMembers[0] : file[q] = DataByte})

Source == INSTANCE ByteSource WITH ending <- report

Ending ==
  IF EndOfMembers[0] < Len(file) THEN Source!Trailing(Len(file) - EndOfMembers[0])
  ELSE IF file[Len(file)] = Trailer THEN Source!Eof ELSE Source!Cut

Promise == INSTANCE ByteSource WITH ending <- Ending

-----------------------------------------------------------------------------
Init ==
  /\ file \in Files
  /\ at = 0
  /\ buffered = 0
  /\ dec = "Header1"
  /\ sent = 0
  /\ report = Source!Fresh

\* The framer reads no more once the source has ended.
Open == report.kind \notin Source!EndKinds

\* The decoder consumes the next byte of a member.
DecodeByte ==
  /\ Open
  /\ dec \in {"Header1", "Header2", "Body"}
  /\ \E head \in Heads \ {0} :
       /\ at' = at + 1
       /\ buffered' = head - 1
  /\ LET byte == file[at + 1]
     IN  /\ dec' = CASE dec = "Header1" -> "Header2"
                     [] dec = "Header2" -> "Body"
                     [] dec = "Body" -> IF byte = Trailer THEN "Ended" ELSE "Body"
         /\ IF byte = DataByte
              THEN sent' = sent + 1 /\ report' = Source!Data(1)
              ELSE UNCHANGED <<sent, report>>
  /\ UNCHANGED file

\* The file ends within a member.
DecoderCut ==
  /\ Open
  /\ dec \in {"Header1", "Header2", "Body"}
  /\ Heads = {0}
  /\ report' = Source!Cut
  /\ UNCHANGED <<file, at, buffered, dec, sent>>

\* What a failing read of the file returns.
Errors == {Source!Report(kind, 0) : kind \in FileErrors}

\* An error of the file, which is read when nothing is buffered, leaves the
\* decoder of a member where it was.  (flate2 fails for good when the error is not an
\* interruption and the header of a later member is being read; no caller reads on
\* after such an error, and what would follow it is not modelled.)
MemberReadFails ==
  /\ Open
  /\ dec \in {"Header1", "Header2", "Body"}
  /\ "Member" \in FailsIn
  /\ buffered = 0
  /\ report' \in Errors
  /\ UNCHANGED <<file, at, buffered, dec, sent>>

\* drain: the rest of the file after `place' is counted, and `taken' with it.
Drain(place, taken) ==
  /\ report' = Source!Trailing(taken + Len(file) - place)
  /\ at' = Len(file)
  /\ buffered' = 0
  /\ dec' = "None"

\* next_member with nothing left.
NoMember ==
  /\ Open
  /\ dec = "Ended"
  /\ Heads = {0}
  /\ dec' = "None"
  /\ report' = Source!Eof
  /\ UNCHANGED <<file, at, buffered, sent>>

\* next_member with both magic bytes, or what is there instead, in the buffer.
NextMember ==
  /\ Open
  /\ dec = "Ended"
  /\ \E head \in Heads \ {0, 1} :
       IF StartsMember(at)
         THEN dec' = "Header1" /\ buffered' = head /\ UNCHANGED <<at, report>>
         ELSE Drain(at, 0)
  /\ UNCHANGED <<file, sent>>

\* mutant: the byte consumed to look behind it is not counted.
NextMemberUncounted ==
  /\ Open
  /\ dec = "Ended"
  /\ 1 \in Heads
  /\ IF StartsMember(at)
       THEN /\ dec' = "Header2"
            /\ at' = at + 1
            /\ buffered' \in {n \in 1 .. Rest - 1 : n <= BufReaderLen}
            /\ UNCHANGED report
       ELSE Drain(at + 1, 0)
  /\ UNCHANGED <<file, sent>>

\* mutant: one byte at the end of the buffer is never a member.
NextMemberNeverSplit ==
  /\ Open
  /\ dec = "Ended"
  /\ 1 \in Heads
  /\ Drain(at + 1, 1)
  /\ UNCHANGED <<file, sent>>

\* next_member with one byte buffered.  It is consumed to see the one behind it,
\* and put back in front of a member: the new decoder has it as its first.
NextMemberSplit ==
  /\ Open
  /\ dec = "Ended"
  /\ 1 \in Heads
  /\ IF StartsMember(at)
       THEN /\ dec' = "Header2"
            /\ at' = at + 1
            /\ buffered' \in {n \in 1 .. Rest - 1 : n <= BufReaderLen}
            /\ UNCHANGED report
       ELSE Drain(at + 1, 1)
  /\ UNCHANGED <<file, sent>>

(***************************************************************************)
(* An error of the file within next_member: in its first or its second     *)
(* look, or, unless it was an interruption, in the middle of drain.  The   *)
(* decoder was taken before, and nothing puts it back.                     *)
(***************************************************************************)
BoundaryReadFails ==
  /\ Open
  /\ dec = "Ended"
  /\ "Boundary" \in FailsIn
  /\ \/ buffered = 0 /\ UNCHANGED at /\ report' \in Errors
     \/ 1 \in Heads /\ at' = at + 1 /\ report' \in Errors
     \/ /\ Rest > 0 /\ ~ StartsMember(at)
        /\ at' \in at + 1 .. Len(file)
        /\ report' \in Errors \ {Source!Interrupted}
  /\ buffered' = 0
  /\ dec' = "None"
  /\ UNCHANGED <<file, sent>>

\* A read without a decoder says that the input has ended.
ReadWithoutDecoder ==
  /\ Open
  /\ dec = "None"
  /\ report' = Source!Eof
  /\ UNCHANGED <<file, at, buffered, dec, sent>>

Decode == DecodeByte \/ DecoderCut \/ MemberReadFails

Boundary == NoMember \/ NextMember \/ NextMemberSplit \/ BoundaryReadFails

Next == Decode \/ Boundary \/ ReadWithoutDecoder

Spec == Init /\ [][Next]_vars

-----------------------------------------------------------------------------
(***************************************************************************)
(* Wherever the buffer cuts the file, the reads deliver what the members   *)
(* hold and end as the file does: plainly, in a cut member, or with the    *)
(* exact number of bytes that are no member.  A read that fails within a   *)
(* member loses nothing, and one that fails between two nothing before it: *)
(* the promise is kept until the decoder is gone.  (frame.rs, GzMembers)   *)
(***************************************************************************)
KeepsPromise ==
  /\ Promise!Init
  /\ [][dec # "None" => Promise!Next \/ UNCHANGED <<sent, report>>]_vars

(***************************************************************************)
(* Whatever reads failed, a cut and a count of trailing bytes are true of  *)
(* the file, and come after everything its members hold.                   *)
(***************************************************************************)
TellsTheTruth ==
  /\ sent <= total
  /\ report.kind \in {"Cut", "Trailing"} => report = Ending /\ sent = total

(***************************************************************************)
(* `gzip members decoded one after another (like MultiGzDecoder)': a read  *)
(* says that the input has ended only after the last member.  (The comment *)
(* of GzMembers.)                                                          *)
(***************************************************************************)
AllMembersDecoded ==
  report = Source!Eof => sent = total
=============================================================================
