------------------------------- MODULE OpsFile -------------------------------
(***************************************************************************)
(* ops.bin (lob-core/src/ops.rs): calls encoded as records of 25 bytes, to *)
(* be decoded elsewhere and replayed into either book, whose event logs    *)
(* and state hashes are then compared.  Between writing and reading, the   *)
(* file may lose its end or have one field of one record overwritten.      *)
(*                                                                         *)
(* A record is [kind, id, id2, px, qty], with kind a byte, id and id2 u64, *)
(* px i32 and qty u32; order ids are numbers here.                         *)
(***************************************************************************)
EXTENDS BookTypes, Maps

CONSTANTS
  MaxOps,     \* bound on the operations of a file
  BadKinds,   \* kind bytes a damaged record may have
  BadId2s,    \* values of id2 it may have
  BasePx, Tick, NLevels, WordBits  \* the window of the array book

Ref == INSTANCE RefOps
Arr == INSTANCE ArrayOps

VARIABLES
  ops,      \* the operations written
  recs,     \* the whole records of the file
  spare,    \* whether bytes of an incomplete record follow
  decoded,  \* what decode_ops returned
  played    \* what replaying them into each kind of book has given so far

vars == <<ops, recs, spare, decoded, played>>

Record(kind, id, id2, px, qty) == [kind |-> kind, id |-> id, id2 |-> id2, px |-> px, qty |-> qty]

-----------------------------------------------------------------------------
(* One record                                                              *)

\* Op::encode: unused fields are zero.
Encode(o) ==
  LET code == KindCode[o.kind]
  IN  CASE o.kind = "Add"     -> Record(code, o.id, SideCode[o.side], o.px, o.qty)
        [] o.kind \in {"Cancel", "Exec"} -> Record(code, o.id, 0, 0, o.qty)
        [] o.kind = "Delete"  -> Record(code, o.id, 0, 0, 0)
        [] o.kind = "Replace" -> Record(code, o.id, o.new, o.px, o.qty)

KindOf(code) == {k \in {"Add", "Cancel", "Exec", "Delete", "Replace"} : KindCode[k] = code}

\* Whether Op::decode finds an operation in a record: one of the five kinds, and for
\* an add a side code in id2.
IsOp(r) == KindOf(r.kind) # {} /\ (KindOf(r.kind) = {"Add"} => r.id2 \in {0, 1})

Decode(r) ==
  LET kind == CHOOSE k \in KindOf(r.kind) : TRUE
  IN  CASE kind = "Add"     -> AddOp(r.id, IF r.id2 = 0 THEN "Bid" ELSE "Ask", r.px, r.qty)
        [] kind = "Cancel"  -> CancelOp(r.id, r.qty)
        [] kind = "Exec"    -> ExecuteOp(r.id, r.qty)
        [] kind = "Delete"  -> DeleteOp(r.id)
        [] kind = "Replace" -> ReplaceOp(r.id, r.id2, r.px, r.qty)

-----------------------------------------------------------------------------
(* Files                                                                   *)

NotDecoded == [kind |-> "None"]
LengthError == [kind |-> "Length"]
RecordError(index, byte) == [kind |-> "Record", index |-> index, byte |-> byte]
Decoded(os) == [kind |-> "Ops", ops |-> os]

DecodeOpsShort ==  \* mutant: the loop stops before the last record
  LET bad == {i \in DOMAIN recs : ~IsOp(recs[i])}
  IN  IF spare THEN LengthError
      ELSE IF bad = {} THEN Decoded(Front([i \in DOMAIN recs |-> Decode(recs[i])]))
      ELSE RecordError(Min(bad) - 1, recs[Min(bad)].kind)

\* decode_ops: everything, or the first record that is no operation.
DecodeOps ==
  LET bad == {i \in DOMAIN recs : ~IsOp(recs[i])}
  IN  IF spare THEN LengthError
      ELSE IF bad = {} THEN Decoded([i \in DOMAIN recs |-> Decode(recs[i])])
      ELSE RecordError(Min(bad) - 1, recs[Min(bad)].kind)

-----------------------------------------------------------------------------
(* Replay                                                                  *)

Begin(book) == [book |-> book, log |-> <<>>, errors |-> 0]

\* One operation of replay: its record, and whether it returned an error.
Took(run, after) ==
  [book |-> after.book, log |-> Append(run.log, LoggedEvent(after.result)),
   errors |-> run.errors + (IF after.result.ok THEN 0 ELSE 1)]

NotPlayed == [ref |-> Begin(Ref!EmptyRefBook), array |-> Begin(Arr!EmptyArrayBook)]

-----------------------------------------------------------------------------

Init == ops = <<>> /\ recs = <<>> /\ spare = FALSE /\ decoded = NotDecoded /\ played = NotPlayed

\* encode_ops, one operation at a time.
Write ==
  /\ decoded = NotDecoded /\ ~spare /\ Len(ops) < MaxOps /\ Len(recs) = Len(ops)
  /\ \A i \in DOMAIN ops : recs[i] = Encode(ops[i])
  /\ \E o \in Ops : ops' = Append(ops, o) /\ recs' = Append(recs, Encode(o))
  /\ UNCHANGED <<spare, decoded, played>>

\* The file loses its end, inside a record or between two.
Lose ==
  /\ decoded = NotDecoded /\ ~spare /\ recs # <<>>
  /\ recs' = Front(recs)
  /\ spare' \in BOOLEAN
  /\ UNCHANGED <<ops, decoded, played>>

Damage(i) ==
  /\ decoded = NotDecoded /\ Len(recs) = Len(ops)
  /\ \A j \in DOMAIN ops : recs[j] = Encode(ops[j])
  /\ \/ \E k \in BadKinds : recs' = [recs EXCEPT ![i].kind = k]
     \/ \E v \in BadId2s : recs' = [recs EXCEPT ![i].id2 = v]
  /\ UNCHANGED <<ops, spare, decoded, played>>

Read ==
  /\ decoded = NotDecoded
  /\ decoded' = DecodeOps
  /\ UNCHANGED <<ops, recs, spare, played>>

\* replay, one operation at a time, into a book of each kind.
Replay ==
  LET next == Len(played.ref.log) + 1
  IN  /\ decoded.kind = "Ops" /\ next <= Len(decoded.ops)
      /\ \E r \in {Ref!Called(played.ref.book, decoded.ops[next])},
            a \in {Arr!Called(played.array.book, decoded.ops[next])} :
           played' = [ref |-> Took(played.ref, r), array |-> Took(played.array, a)]
      /\ UNCHANGED <<ops, recs, spare, decoded>>

Next ==
  \/ Write
  \/ Lose
  \/ \E i \in DOMAIN recs : Damage(i)
  \/ Read
  \/ Replay

Spec == Init /\ [][Next]_vars

-----------------------------------------------------------------------------
(* Properties                                                              *)

Damaged(i) == recs[i] # Encode(ops[i])

\* A file that is read gives one operation for each of its records, each as it was
\* written unless its own record is damaged; so a file cut between records gives all
\* the operations before the cut.
ReadsBack ==
  decoded.kind = "Ops" =>
    /\ Len(decoded.ops) = Len(recs)
    /\ \A i \in DOMAIN recs : ~Damaged(i) => decoded.ops[i] = ops[i]

\* No operation is made up: an error is reported exactly if bytes are left over or a
\* record holds a kind or a side that no operation is written with, and the first
\* such record is the one named.
ErrorsNamed ==
  decoded # NotDecoded =>
    LET kinds == {Encode(o).kind : o \in Ops}
        alien(r) == r.kind \notin kinds
        badSide(r) == r.kind = KindCode["Add"] /\ \A s \in Sides : r.id2 # SideCode[s]
        bad == {i \in DOMAIN recs : alien(recs[i]) \/ badSide(recs[i])}
    IN  /\ (decoded.kind = "Length" <=> spare)
        /\ (decoded.kind = "Record" <=> ~spare /\ bad # {})
        /\ decoded.kind = "Record" =>
             decoded.index + 1 \in bad /\ \A i \in 1 .. decoded.index : i \notin bad

\* Both kinds of book give the same event log, the same number of errors and the
\* same input of the state hash for any sequence of operations, legal or not.
BooksAgree ==
  /\ played.ref.log = played.array.log
  /\ played.ref.errors = played.array.errors
  /\ Ref!HashInput(played.ref.book) = Arr!HashInput(played.array.book)
=============================================================================
