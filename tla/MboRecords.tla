------------------------------ MODULE MboRecords ------------------------------
(***************************************************************************)
(* DBN files (lob-feed/src/mbo/record.rs): the header, the part of the     *)
(* metadata that is exposed, and the iterator over the records, on a file  *)
(* that may be cut anywhere.  Each record begins with its own length, in   *)
(* words of four bytes, and the iterator trusts nothing else.              *)
(*                                                                         *)
(* A byte is a cell: <<"length", words>> and <<"rtype", type>> hold their  *)
(* value; any other is <<field, k>>, the k-th byte of a field, least       *)
(* significant first.  Offsets are those of the source, from zero.         *)
(***************************************************************************)
EXTENDS Integers, Sequences, SequencesExt, FiniteSets

CONSTANTS
  MetaLens,     \* lengths of the metadata
  OtherLens,    \* lengths in words of records that are not MBO records
  MaxRecords,   \* bound on the records of a file
  MaxCalls      \* bound on the calls of the iterator, more than a file needs

HeaderLen == 8
MboLen == 56
MboWords == MboLen \div 4
RTypeMbo == 160
OtherType == 1

-----------------------------------------------------------------------------
(* The layout of an MBO record                                             *)

\* What decode reads: field, offset and width.
DecodeLayout ==
  {<<"length", 0, 1>>, <<"rtype", 1, 1>>, <<"publisher_id", 2, 2>>, <<"instrument_id", 4, 4>>,
   <<"ts_event", 8, 8>>, <<"order_id", 16, 8>>, <<"price", 24, 8>>, <<"size", 32, 4>>,
   <<"flags", 36, 1>>, <<"channel_id", 37, 1>>, <<"action", 38, 1>>, <<"side", 39, 1>>,
   <<"ts_recv", 40, 8>>, <<"ts_in_delta", 48, 4>>, <<"sequence", 52, 4>>}

\* What encode copies, from where and to where (the end is exclusive).
EncodeLayout ==
  {<<"length", 0, 1>>, <<"rtype", 1, 2>>, <<"publisher_id", 2, 4>>, <<"instrument_id", 4, 8>>,
   <<"ts_event", 8, 16>>, <<"order_id", 16, 24>>, <<"price", 24, 32>>, <<"size", 32, 36>>,
   <<"flags", 36, 37>>, <<"channel_id", 37, 38>>, <<"action", 38, 39>>, <<"side", 39, 40>>,
   <<"ts_recv", 40, 48>>, <<"ts_in_delta", 48, 52>>, <<"sequence", 52, 56>>}

Fields == {f[1] : f \in DecodeLayout}

Slice(bytes, at, width) == SubSeq(bytes, at + 1, at + width)

Decode(rec) ==
  [f \in Fields |-> LET d == CHOOSE d \in DecodeLayout : d[1] = f IN Slice(rec, d[2], d[3])]

\* A byte that no field covers stays zero.
Encode(msg) ==
  [k \in 1 .. MboLen |->
     LET over == {e \in EncodeLayout : e[2] < k /\ k <= e[3]}
         e == CHOOSE e \in over : TRUE
     IN  IF over = {} THEN <<"zero", 0>> ELSE msg[e[1]][k - e[2]]]

-----------------------------------------------------------------------------
(* Files as a writer leaves them                                           *)

\* An MBO message whose every byte can be told from every other.
Message ==
  [f \in {e[1] : e \in EncodeLayout} |->
     LET e == CHOOSE e \in EncodeLayout : e[1] = f
     IN  [k \in 1 .. e[3] - e[2] |->
            IF f = "length" THEN <<"length", MboWords>>
            ELSE IF f = "rtype" THEN <<"rtype", RTypeMbo>>
            ELSE <<f, k>>]]

OtherRecord(words, rtype) ==
  [k \in 1 .. 4 * words |-> IF k = 1 THEN <<"length", words>>
                            ELSE IF k = 2 THEN <<"rtype", rtype>> ELSE <<"other", k>>]

\* A record of another type, of another length under the MBO type, and an MBO record.
WholeRecords ==
  {Encode(Message), OtherRecord(MboWords, OtherType)}
    \cup {OtherRecord(w, t) : w \in OtherLens, t \in {OtherType, RTypeMbo}}

\* Four bytes that begin with the length zero.
ZeroRecord == <<<<"length", 0>>, <<"rtype", OtherType>>, <<"other", 3>>, <<"other", 4>>>>

Header(metaLen) ==
  <<<<"magic", 1>>, <<"magic", 2>>, <<"magic", 3>>, <<"version", 3>>>>
    \o [k \in 1 .. 4 |-> <<"metadata_len", metaLen>>]

MetaCells(metaLen) == [k \in 1 .. metaLen |-> <<"metadata", k>>]

-----------------------------------------------------------------------------

VARIABLES
  written,  \* the records the file was written with
  cut,      \* how many of their bytes are left, with the header and metadata
  file,     \* the bytes
  opened,   \* what records() returned
  pos,      \* place of the iterator in the record area
  got       \* what the iterator has returned

vars == <<written, cut, file, opened, pos, got>>

NotOpened == [kind |-> "NotOpened"]
BadMagic == [kind |-> "BadMagic"]
MetadataError(len, have) == [kind |-> "Metadata", len |-> len, have |-> have]
MboItem(msg) == [kind |-> "Mbo", msg |-> msg]
OtherItem(rtype, len) == [kind |-> "Other", rtype |-> rtype, len |-> len]
ErrorItem(at, len, have) == [kind |-> "Error", at |-> at, len |-> len, have |-> have]
None == [kind |-> "None"]

\* The first three fields of the metadata, if it is long enough.
Metadata(meta) ==
  IF Len(meta) < 26 THEN None
  ELSE [kind |-> "Some", dataset |-> Slice(meta, 0, 16), schema |-> Slice(meta, 16, 2),
        start |-> Slice(meta, 18, 8)]

\* DbnHeader::parse, and what records() returns.
Parse(bytes) ==
  IF Len(bytes) < HeaderLen \/ Slice(bytes, 0, 3) # <<<<"magic", 1>>, <<"magic", 2>>, <<"magic", 3>>>>
  THEN BadMagic
  ELSE LET metaLen == bytes[5][2]
           end == HeaderLen + metaLen
       IN  IF end > Len(bytes) THEN MetadataError(metaLen, Len(bytes) - HeaderLen)
           ELSE [kind |-> "Records",
                 metadata |-> Metadata(Slice(bytes, HeaderLen, metaLen)),
                 area |-> SubSeq(bytes, end + 1, Len(bytes))]

Init ==
  /\ written \in UNION {[1 .. n -> WholeRecords] : n \in 0 .. MaxRecords}
  /\ \E metaLen \in MetaLens, tail \in {<<>>, ZeroRecord} :
       LET whole == Header(metaLen) \o MetaCells(metaLen) \o FlattenSeq(written) \o tail
       IN  /\ cut \in 0 .. Len(whole)
           /\ file = SubSeq(whole, 1, cut)
  /\ opened = NotOpened
  /\ pos = 0
  /\ got = <<>>

Open ==
  /\ opened = NotOpened
  /\ opened' = Parse(file)
  /\ UNCHANGED <<written, cut, file, pos, got>>

Area == opened.area
Rest == SubSeq(Area, pos + 1, Len(Area))
LenOf(rest) == rest[1][2] * 4

\* The length of the next record is zero or runs past the end.
BadLen(rest) == LenOf(rest) = 0 \/ LenOf(rest) > Len(rest)

Item(rec) ==
  IF rec[2][2] = RTypeMbo /\ Len(rec) = MboLen THEN MboItem(Decode(rec))
                                               ELSE OtherItem(rec[2][2], Len(rec))

PlaceKept(place) ==  \* mutant: the iterator stays at the record that is not whole
  place

\* The place after a record that is not whole.
PlaceAfterError(place) == Len(Area)

Ended == IF got = <<>> THEN FALSE ELSE Last(got).kind = "None"

Calls == opened.kind = "Records" /\ ~Ended /\ Len(got) < MaxCalls

\* One call of next().
NextRecord ==
  /\ Calls /\ Rest # <<>> /\ ~BadLen(Rest)
  /\ got' = Append(got, Item(Slice(Rest, 0, LenOf(Rest))))
  /\ pos' = pos + LenOf(Rest)
  /\ UNCHANGED <<written, cut, file, opened>>

NextError ==
  /\ Calls /\ Rest # <<>> /\ BadLen(Rest)
  /\ got' = Append(got, ErrorItem(pos, LenOf(Rest), Len(Rest)))
  /\ pos' = PlaceAfterError(pos)
  /\ UNCHANGED <<written, cut, file, opened>>

NextNone ==
  /\ Calls /\ Rest = <<>>
  /\ got' = Append(got, None)
  /\ UNCHANGED <<written, cut, file, opened, pos>>

Next == Open \/ NextRecord \/ NextError \/ NextNone

Spec == Init /\ [][Next]_vars

-----------------------------------------------------------------------------
(* Properties                                                              *)

\* The length a writer gave the first n records.
WrittenLen(n) == Len(FlattenSeq(SubSeq(written, 1, n)))

Items == SelectSeq(got, LAMBDA i : i.kind \in {"Mbo", "Other"})
Errors == SelectSeq(got, LAMBDA i : i.kind = "Error")

\* The iterator returns the records that were written, in their order, wherever
\* the file is cut: an MBO record with every field as it was written, any other
\* by its type and length.
ReturnsWhatWasWritten ==
  /\ Len(Items) <= Len(written)
  /\ \A i \in DOMAIN Items :
       LET rec == written[i]
       IN  Items[i] = IF rec = Encode(Message) THEN MboItem(Message)
                                               ELSE OtherItem(rec[2][2], Len(rec))

\* The end is told without an error exactly if every byte of the record area was
\* in a whole record, and the error names the first record that was not whole.
CutReported ==
  /\ Ended /\ Errors = <<>> =>
       Len(Area) = WrittenLen(Len(Items))
  /\ Errors # <<>> =>
       /\ Errors[1].at = WrittenLen(Len(Items))
       /\ Errors[1].have = Len(Area) - Errors[1].at
       /\ Len(Items) < Len(written) => Errors[1].have < Len(written[Len(Items) + 1])

\* At most one error, and nothing after it but the end.
ErrorIsLast ==
  \A i \in DOMAIN got : got[i].kind = "Error" => \A j \in i + 1 .. Len(got) : got[j].kind = "None"

\* Every byte of an MBO record is in one field, so that decoding loses nothing.
EncodeInvertsDecode ==
  \A i \in DOMAIN Items :
    Items[i].kind = "Mbo" => Encode(Items[i].msg) = written[i]

\* A file opens exactly if header and metadata are whole; the exposed fields are
\* the first 26 bytes of metadata that has them.
OpensWhole ==
  opened # NotOpened =>
    /\ (opened.kind = "BadMagic" <=> cut < HeaderLen)
    /\ (opened.kind = "Metadata" => opened.have < opened.len)
    /\ opened.kind = "Records" =>
         LET metaLen == cut - HeaderLen - Len(Area)
         IN  /\ metaLen \in MetaLens
             /\ opened.metadata.kind = "Some" <=> metaLen >= 26
             /\ opened.metadata.kind = "Some" =>
                  opened.metadata.dataset \o opened.metadata.schema \o opened.metadata.start
                    = MetaCells(26)

\* Iteration ends, whatever length bytes the file holds: more calls than it has
\* records, with one for a cut and one for the end, have reached the end.
IterationEnds == opened.kind = "Records" /\ Len(got) = MaxCalls => Ended
=============================================================================
