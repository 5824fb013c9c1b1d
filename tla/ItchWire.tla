------------------------------- MODULE ItchWire -------------------------------
(***************************************************************************)
(* Payloads on their way into a session: any type byte at any length, or a *)
(* message of the synthetic generator, parsed one by one.  The first one   *)
(* that cannot be parsed ends the replay: there is no resynchronisation.   *)
(***************************************************************************)
EXTENDS ItchMessages

VARIABLES
  payload,  \* the payload taken from its frame
  writer,   \* the type whose writer wrote it, or "None"
  parsed    \* what parse made of it; "None" between two payloads

vars == <<payload, writer, parsed>>

NotYet == [kind |-> "None"]

Init == payload = <<>> /\ writer = "None" /\ parsed = NotYet

\* A payload of unknown origin.
Receive(ty, len) ==
  /\ parsed = NotYet /\ writer = "None" /\ payload = <<>>
  /\ payload' = [k \in 1 .. len |-> IF k = 1 THEN TypeCell(ty) ELSE <<"any", k>>]
  /\ writer' = "None"
  /\ parsed' = Parse(payload')

ReceiveWritten(ty) ==
  /\ parsed = NotYet
  /\ payload' = Written[ty]
  /\ writer' = ty
  /\ parsed' = Parse(payload')

\* The session has used the message.
Applied ==
  /\ parsed # NotYet /\ ~Fatal(parsed)
  /\ payload' = <<>> /\ writer' = "None" /\ parsed' = NotYet

Next ==
  \/ \E ty \in KnownTypes \cup OtherTypes, len \in 0 .. MaxLen : Receive(ty, len)
  \/ \E ty \in DOMAIN Written : ReceiveWritten(ty)
  \/ Applied

Spec == Init /\ [][Next]_vars

-----------------------------------------------------------------------------
(* Properties                                                              *)

\* The arguments of the writers that the session's calls and counters are made
\* from, and the accessors it takes them from.
Means ==
  [S |-> [event_code |-> "code"],
   R |-> [stock |-> "stock"],
   H |-> [stock |-> "stock", trading_state |-> "state"],
   A |-> [order_ref |-> "r", side_byte |-> "side", shares |-> "qty", stock |-> "stock", price |-> "px"],
   F |-> [order_ref |-> "r", side_byte |-> "side", shares |-> "qty", stock |-> "stock", price |-> "px",
          attribution |-> "mpid"],
   E |-> [order_ref |-> "r", executed |-> "qty", match_number |-> "match_no"],
   C |-> [order_ref |-> "r", executed |-> "qty", match_number |-> "match_no",
          printable |-> "printable", execution_price |-> "px"],
   X |-> [order_ref |-> "r", cancelled |-> "qty"],
   D |-> [order_ref |-> "r"],
   U |-> [original_ref |-> "old", new_ref |-> "new", shares |-> "qty", price |-> "px"],
   P |-> [shares |-> "qty", stock |-> "stock", price |-> "px", match_number |-> "match_no"]]

\* No accessor of a parsed message reads past the end of its payload, whatever
\* type byte came with whatever length, unknown types shorter than a header
\* included.
AccessorsInside ==
  parsed # NotYet /\ ~Fatal(parsed) =>
    \A f \in Accessors(payload, parsed) : Bytes(payload, f[2], f[3]) # <<>>

\* The accessors of a view and the header read every byte of the payload but the
\* type, and none twice: no field is too wide, too narrow or misplaced.
FieldsTile ==
  parsed.kind = "View" =>
    \A at \in 1 .. Len(payload) - 1 :
      Cardinality({f \in Accessors(payload, parsed) : at \in f[2] .. f[2] + f[3] - 1}) = 1

\* What the generator's writers write is parsed, and each accessor returns the
\* whole argument that was written for it and nothing else, the timestamp in its
\* six low bytes.
ReadsBack ==
  writer # "None" =>
    /\ parsed.kind = IF writer \in DOMAIN Means THEN "View" ELSE "Other"
    /\ \A f \in Accessors(payload, parsed) :
         LET read == Bytes(payload, f[2], f[3])
         IN  /\ f[1] \in {"locate", "tracking"} => read = Put(f[1], 2)
             /\ f[1] = "ts" => read = Field("ts", 3, 8)
             /\ writer \in DOMAIN Means /\ f[1] \in DOMAIN Means[writer] =>
                  read = Put(Means[writer][f[1]], f[3])

\* A writer's message has the length its own table promises, which is the length
\* the reader's table asks for.
LengthsAgree ==
  writer # "None" => Len(payload) = WriterLen[writer] /\ Len(payload) = SpecLen[writer]
=============================================================================
