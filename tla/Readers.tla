------------------------------- MODULE Readers -------------------------------
(***************************************************************************)
(* The parts that only read what they are given, one of them to a          *)
(* behaviour: the in-memory framer over a byte string, the ITCH parser     *)
(* over payloads, the DBN iterator over a file, the decoder of operation   *)
(* files with its replay, and the features over a stream of snapshots.     *)
(* They share nothing; those that do not run stay at an empty input.       *)
(***************************************************************************)
EXTENDS SnapshotStream

CONSTANTS
  Base, Inputs,                                          \* of FrameStream
  OtherTypes, MaxLen,                                    \* of ItchWire
  MetaLens, OtherLens, MaxRecords, MaxCalls,             \* of MboRecords
  Ids, Prices, Qtys, MaxQty, BasePx, Tick, NLevels, WordBits,
  MaxOps, BadKinds, BadId2s                              \* of OpsFile

ASSUME ReadersInput ==
  /\ Base \in Nat \ {0, 1}
  /\ \A input \in Inputs : input \in Seq(0 .. Base - 1)
  /\ MaxCalls > MaxRecords + 2  \* a call for every record, one for a cut, one for the end
  /\ Ids # {} /\ Prices # {} /\ Qtys # {}  \* a file may hold every kind of operation

\* What OpsFile assumes through the modules of the books.
ASSUME BooksInput ==
  /\ Prices \subseteq Int
  /\ Qtys \subseteq 0 .. MaxQty
  /\ MaxQty \in Nat \ {0}
  /\ BasePx \in Nat \ {0}
  /\ Tick \in Nat \ {0}
  /\ WordBits \in Nat \ {0}
  /\ NLevels \in 1 .. WordBits * WordBits

VARIABLES
  part,                                                  \* the part that runs
  data, place, frames, truncated, result,                \* of FrameStream
  payload, writer, parsed,                               \* of ItchWire
  written, cut, file, opened, pos, got,                  \* of MboRecords
  ops, recs, spare, decoded, played                      \* of OpsFile

sliceVars == <<data, place, frames, truncated, result>>
wireVars == <<payload, writer, parsed>>
mboVars == <<written, cut, file, opened, pos, got>>
opsVars == <<ops, recs, spare, decoded, played>>

Slice == INSTANCE FrameStream WITH pos <- place
Wire == INSTANCE ItchWire
Mbo == INSTANCE MboRecords
OpsBin == INSTANCE OpsFile

Runs(p) == part = p /\ UNCHANGED part

ReadersInit ==
  /\ part \in {"Frames", "Payloads", "Records", "Ops", "Snapshots"}
  /\ part = "Frames" \/ data = <<>>
  /\ part = "Records" \/ (written = <<>> /\ cut = 0)
  /\ Slice!Init /\ Wire!Init /\ Mbo!Init /\ OpsBin!Init /\ Init

ReadFrames ==
  /\ Runs("Frames") /\ UNCHANGED <<snaps, wireVars, mboVars, opsVars>>
  /\ Slice!Advance \/ Slice!Reset

ReadPayloads ==
  /\ Runs("Payloads") /\ UNCHANGED <<snaps, sliceVars, mboVars, opsVars>>
  /\ Wire!Next

ReadRecords ==
  /\ Runs("Records") /\ UNCHANGED <<snaps, sliceVars, wireVars, opsVars>>
  /\ Mbo!Next

ReadOps ==
  /\ Runs("Ops") /\ UNCHANGED <<snaps, sliceVars, wireVars, mboVars>>
  /\ OpsBin!Next

ReadSnapshots ==
  /\ Runs("Snapshots") /\ UNCHANGED <<sliceVars, wireVars, mboVars, opsVars>>
  /\ Next

ReadersNext == ReadFrames \/ ReadPayloads \/ ReadRecords \/ ReadOps \/ ReadSnapshots

readerVars == <<part, snaps, sliceVars, wireVars, mboVars, opsVars>>

ReadersSpec == ReadersInit /\ [][ReadersNext]_readerVars

-----------------------------------------------------------------------------
(* Properties: each is stated in the module of its part.                   *)

\* The in-memory framer's counters describe the place it has reached.
CountsExact == Slice!CountsExact

\* Every view of a payload tiles it, whatever its type and length, and reads back
\* what the writer of its type wrote.
ViewsExact ==
  Wire!AccessorsInside /\ Wire!FieldsTile /\ Wire!ReadsBack /\ Wire!LengthsAgree

\* The iterator over a DBN file returns the records it was written with, and tells
\* once and at its place where it was cut.
IteratorTells ==
  Mbo!ReturnsWhatWasWritten /\ Mbo!CutReported /\ Mbo!ErrorIsLast /\ Mbo!EncodeInvertsDecode
    /\ Mbo!OpensWhole /\ Mbo!IterationEnds

\* An operation file gives the operations of all its records, or names the first
\* record that is none.
OpsReadBack == OpsBin!ReadsBack /\ OpsBin!ErrorsNamed

\* Both kinds of book replay it alike.
BooksAgree == OpsBin!BooksAgree
=============================================================================
