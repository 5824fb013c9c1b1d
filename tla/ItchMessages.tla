---------------------------- MODULE ItchMessages ----------------------------
(***************************************************************************)
(* ITCH payloads: what the views of lob-feed/src/itch/msg.rs read, at      *)
(* fixed offsets, and what the writers of lob-synth/src/itch.rs append,    *)
(* field after field.  The two crates share no code, only the layout.      *)
(*                                                                         *)
(* A payload is a sequence of cells.  A cell written from an argument is   *)
(* <<argument, k>>, its k-th byte, most significant first; offsets are     *)
(* those of the source, from zero.                                         *)
(***************************************************************************)
EXTENDS Integers, Sequences, SequencesExt, FiniteSets

CONSTANTS
  OtherTypes,  \* type bytes outside the size table
  MaxLen       \* longest payload received

-----------------------------------------------------------------------------
(* Lengths                                                                 *)

HeaderLen == 11

\* spec_len of the reader.
SpecLen ==
  [S |-> 12, R |-> 39, H |-> 25, Y |-> 20, L |-> 26, V |-> 35, W |-> 12, K |-> 28,
   J |-> 35, h |-> 21, A |-> 36, F |-> 40, E |-> 31, C |-> 36, X |-> 23, D |-> 19,
   U |-> 35, P |-> 44, Q |-> 40, B |-> 19, I |-> 50, N |-> 20, O |-> 48]

\* SPEC_LEN of the writer, which does not know the type O.
WriterLen ==
  [S |-> 12, R |-> 39, H |-> 25, Y |-> 20, L |-> 26, V |-> 35, W |-> 12, K |-> 28,
   J |-> 35, h |-> 21, A |-> 36, F |-> 40, E |-> 31, C |-> 36, X |-> 23, D |-> 19,
   U |-> 35, P |-> 44, Q |-> 40, B |-> 19, I |-> 50, N |-> 20]

KnownTypes == DOMAIN SpecLen

-----------------------------------------------------------------------------
(* The views: the accessors of each, with offset and width                 *)

HeaderFields == {<<"locate", 1, 2>>, <<"tracking", 3, 2>>, <<"ts", 5, 6>>}

SystemEvent == {<<"event_code", 11, 1>>}

StockDirectory ==
  {<<"stock", 11, 8>>, <<"market_category", 19, 1>>, <<"financial_status", 20, 1>>,
   <<"round_lot_size", 21, 4>>, <<"round_lots_only", 25, 1>>, <<"issue_classification", 26, 1>>,
   <<"issue_subtype", 27, 2>>, <<"authenticity", 29, 1>>, <<"short_sale_threshold", 30, 1>>,
   <<"ipo_flag", 31, 1>>, <<"luld_tier", 32, 1>>, <<"etp_flag", 33, 1>>,
   <<"etp_leverage", 34, 4>>, <<"inverse", 38, 1>>}

TradingAction ==
  {<<"stock", 11, 8>>, <<"trading_state", 19, 1>>, <<"reserved", 20, 1>>, <<"reason", 21, 4>>}

AddOrder ==
  {<<"order_ref", 11, 8>>, <<"side_byte", 19, 1>>, <<"shares", 20, 4>>,
   <<"stock", 24, 8>>, <<"price", 32, 4>>}

AddOrderMpid ==
  {<<"order_ref", 11, 8>>, <<"side_byte", 19, 1>>, <<"shares", 20, 4>>,
   <<"stock", 24, 8>>, <<"price", 32, 4>>, <<"attribution", 36, 4>>}

OrderExecuted == {<<"order_ref", 11, 8>>, <<"executed", 19, 4>>, <<"match_number", 23, 8>>}

OrderExecutedWithPrice ==
  {<<"order_ref", 11, 8>>, <<"executed", 19, 4>>, <<"match_number", 23, 8>>,
   <<"printable", 31, 1>>, <<"execution_price", 32, 4>>}

OrderCancel == {<<"order_ref", 11, 8>>, <<"cancelled", 19, 4>>}

OrderDelete == {<<"order_ref", 11, 8>>}

OrderReplaceSwapped ==  \* mutant: price before shares, as in no other message
  {<<"original_ref", 11, 8>>, <<"new_ref", 19, 8>>, <<"price", 27, 4>>, <<"shares", 31, 4>>}

OrderReplace ==
  {<<"original_ref", 11, 8>>, <<"new_ref", 19, 8>>, <<"shares", 27, 4>>, <<"price", 31, 4>>}

Trade ==
  {<<"order_ref", 11, 8>>, <<"side_byte", 19, 1>>, <<"shares", 20, 4>>,
   <<"stock", 24, 8>>, <<"price", 32, 4>>, <<"match_number", 36, 8>>}

CrossTrade ==
  {<<"shares", 11, 8>>, <<"stock", 19, 8>>, <<"cross_price", 27, 4>>,
   <<"match_number", 31, 8>>, <<"cross_type", 39, 1>>}

BrokenTrade == {<<"match_number", 11, 8>>}

\* The accessors of the view of each type that has one.
View ==
  [S |-> SystemEvent, R |-> StockDirectory, H |-> TradingAction, A |-> AddOrder,
   F |-> AddOrderMpid, E |-> OrderExecuted, C |-> OrderExecutedWithPrice, X |-> OrderCancel,
   D |-> OrderDelete, U |-> OrderReplace, P |-> Trade, Q |-> CrossTrade, B |-> BrokenTrade]

-----------------------------------------------------------------------------
(* Reading                                                                 *)

TypeCell(ty) == <<"type", ty>>
TypeOf(payload) == payload[1][2]

\* The bytes of a field; none stands for the bounds check that would fail.
Bytes(payload, at, width) ==
  IF at + width > Len(payload) THEN <<>> ELSE SubSeq(payload, at + 1, at + width)

\* parse: the length of a known type must be that of the table; one with a view
\* is given it.
Parse(payload) ==
  IF payload = <<>> THEN [kind |-> "Empty"]
  ELSE LET ty == TypeOf(payload)
       IN  IF ty \notin KnownTypes THEN [kind |-> "Unknown"]
           ELSE IF Len(payload) # SpecLen[ty] THEN [kind |-> "Length", ty |-> ty, got |-> Len(payload)]
           ELSE IF ty \in DOMAIN View THEN [kind |-> "View", ty |-> ty]
           ELSE [kind |-> "Other"]

Fatal(m) == m.kind \in {"Empty", "Length"}

\* locate() and ts() of a message: only with a full header.
HeaderOf(payload) == IF Len(payload) >= HeaderLen THEN HeaderFields ELSE {}

\* Every accessor a caller may use on a parsed message.
Accessors(payload, m) ==
  HeaderOf(payload) \cup (IF m.kind = "View" THEN View[m.ty] ELSE {})

-----------------------------------------------------------------------------
(* Writing                                                                 *)

\* The bytes first .. last of an argument.
Field(arg, first, last) == [k \in 1 .. last - first + 1 |-> <<arg, first + k - 1>>]

Put(arg, width) == Field(arg, 1, width)

\* Frame::open: type, locate, tracking and the six low bytes of the timestamp.
Opened(ty) == <<TypeCell(ty)>> \o Put("locate", 2) \o Put("tracking", 2) \o Field("ts", 3, 8)

WriteSystemEvent == Opened("S") \o Put("code", 1)

WriteStockDirectory ==
  Opened("R") \o Put("stock", 8) \o Put("category Q", 1) \o Put("status blank", 1)
    \o Put("lot 100", 4) \o Put("lots only N", 1) \o Put("class C", 1) \o Put("sub-type Z", 2)
    \o Put("production P", 1) \o Put("short sale N", 1) \o Put("ipo N", 1) \o Put("tier 1", 1)
    \o Put("etp N", 1) \o Put("leverage 0", 4) \o Put("inverse N", 1)

WriteTradingAction ==
  Opened("H") \o Put("stock", 8) \o Put("state", 1) \o Put("blank", 1) \o Put("reason blank", 4)

WriteMpidPosition ==
  Opened("L") \o Put("mpid", 4) \o Put("stock", 8) \o Put("primary Y", 1) \o Put("mode N", 1)
    \o Put("state A", 1)

WriteAddOrder ==
  Opened("A") \o Put("r", 8) \o Put("side", 1) \o Put("qty", 4) \o Put("stock", 8) \o Put("px", 4)

WriteAddOrderMpid ==
  Opened("F") \o Put("r", 8) \o Put("side", 1) \o Put("qty", 4) \o Put("stock", 8) \o Put("px", 4)
    \o Put("mpid", 4)

WriteOrderExecuted == Opened("E") \o Put("r", 8) \o Put("qty", 4) \o Put("match_no", 8)

WriteExecutedWithPrice ==
  Opened("C") \o Put("r", 8) \o Put("qty", 4) \o Put("match_no", 8) \o Put("printable", 1)
    \o Put("px", 4)

WriteOrderCancel == Opened("X") \o Put("r", 8) \o Put("qty", 4)

WriteOrderDelete == Opened("D") \o Put("r", 8)

WriteOrderReplace == Opened("U") \o Put("old", 8) \o Put("new", 8) \o Put("qty", 4) \o Put("px", 4)

WriteTrade ==
  Opened("P") \o Put("no ref", 8) \o Put("side B", 1) \o Put("qty", 4) \o Put("stock", 8)
    \o Put("px", 4) \o Put("match_no", 8)

Written ==
  [S |-> WriteSystemEvent, R |-> WriteStockDirectory, H |-> WriteTradingAction,
   L |-> WriteMpidPosition, A |-> WriteAddOrder, F |-> WriteAddOrderMpid,
   E |-> WriteOrderExecuted, C |-> WriteExecutedWithPrice, X |-> WriteOrderCancel,
   D |-> WriteOrderDelete, U |-> WriteOrderReplace, P |-> WriteTrade]
=============================================================================
