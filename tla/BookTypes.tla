------------------------------ MODULE BookTypes ------------------------------
(***************************************************************************)
(* The public vocabulary of the order books (lob-core/src/types.rs and     *)
(* api.rs): the two sides, the canonical events, the errors, and the event *)
(* an error is logged as.  Order ids are uninterpreted, prices and         *)
(* quantities are integers; `error' fields and `event' fields carry what   *)
(* the Rust values carry.                                                  *)
(***************************************************************************)
EXTENDS Integers, Sequences, SequencesExt, PriceTime

CONSTANTS
  Ids,     \* order ids a caller may name (u64, sparse venue references)
  Prices,  \* price arguments a caller may pass (i32, so also bad ones)
  Qtys,    \* quantity arguments a caller may pass (u32, so also zero)
  MaxQty   \* u32::MAX, the largest total a level may reach

ASSUME ArgumentTypes ==
  /\ Prices \subseteq Int
  /\ Qtys \subseteq 0 .. MaxQty
  /\ MaxQty \in Nat \ {0}

Sides == {"Bid", "Ask"}

\* The side byte of an event record.
SideCode == [Bid |-> 0, Ask |-> 1]

\* The type codes the books emit; the other codes (modify, trade, ...) belong
\* to producers that do not exist in this version.
KindCode == [Add |-> 1, Cancel |-> 2, Exec |-> 3, Delete |-> 4,
             Replace |-> 5, Unknown |-> 7, Reject |-> 8]

-----------------------------------------------------------------------------
(* Events *)

Event(kind, a, b, px, qty, side) ==
  [kind |-> kind, a |-> a, b |-> b, px |-> px, qty |-> qty, side |-> side]

AddEvent(id, side, px, qty) ==
  Event("Add", id, 0, px, qty, SideCode[side])

CancelEvent(id, side, px, removed, remaining) ==
  Event("Cancel", id, remaining, px, removed, SideCode[side])

ExecEvent(id, side, px, executed, remaining) ==
  Event("Exec", id, remaining, px, executed, SideCode[side])

DeleteEvent(id, side, px, removed) ==
  Event("Delete", id, 0, px, removed, SideCode[side])

ReplaceEvent(old, new, side, px, qty) ==
  Event("Replace", old, new, px, qty, SideCode[side])

UnknownEvent(kind, id) == Event("Unknown", id, KindCode[kind], 0, 0, 0)

RejectEvent(kind, id, want) == Event("Reject", id, KindCode[kind], 0, want, 0)

-----------------------------------------------------------------------------
(* Errors.  NoError is the absence of one: it is never returned.           *)

NoError == [error |-> "None"]

UnknownId(kind, id) == [error |-> "UnknownId", kind |-> kind, id |-> id]

OverExecute(id, have, want) ==
  [error |-> "OverExecute", id |-> id, have |-> have, want |-> want]

DuplicateId(id) == [error |-> "DuplicateId", id |-> id]

BadQty == [error |-> "BadQty"]

BadPrice == [error |-> "BadPrice"]

\* BookError::event: the record the log gets for an error, from the error alone.
ErrorEvent(e) ==
  CASE e.error = "UnknownId"   -> UnknownEvent(e.kind, e.id)
    [] e.error = "OverExecute" -> RejectEvent("Exec", e.id, e.want)
    [] e.error = "DuplicateId" -> RejectEvent("Add", e.id, 0)
    [] e.error \in {"BadQty", "BadPrice"} -> Event("Reject", 0, 0, 0, 0, 0)

-----------------------------------------------------------------------------
(* Calls, with their arguments, by the kind they are logged under.         *)

AddOp(id, side, px, qty) ==
  [kind |-> "Add", id |-> id, side |-> side, px |-> px, qty |-> qty]

CancelOp(id, qty) == [kind |-> "Cancel", id |-> id, qty |-> qty]

ExecuteOp(id, qty) == [kind |-> "Exec", id |-> id, qty |-> qty]

DeleteOp(id) == [kind |-> "Delete", id |-> id]

ReplaceOp(old, new, px, qty) ==
  [kind |-> "Replace", id |-> old, new |-> new, px |-> px, qty |-> qty]

\* Every call with arguments a caller may pass.
Ops ==
  {AddOp(id, side, px, qty) : id \in Ids, side \in Sides, px \in Prices, qty \in Qtys}
    \cup {CancelOp(id, qty) : id \in Ids, qty \in Qtys}
    \cup {ExecuteOp(id, qty) : id \in Ids, qty \in Qtys}
    \cup {DeleteOp(id) : id \in Ids}
    \cup {ReplaceOp(old, new, px, qty) :
            old \in Ids, new \in Ids, px \in Prices, qty \in Qtys}

-----------------------------------------------------------------------------
(* What a call returns: Ok(event) or Err(error).                           *)

Ok(event) == [ok |-> TRUE, value |-> event]

Err(e) == [ok |-> FALSE, value |-> e]

\* The book after a call and its result: a call that returns an error changes
\* nothing.
Outcome(before, e, after, event) ==
  IF e = NoError THEN [book |-> after, result |-> Ok(event)]
                 ELSE [book |-> before, result |-> Err(e)]

\* The operation and the result before the first call.
NoOp == [kind |-> "None"]
NoResult == Ok(NoError)

\* logged_event: the event itself on success, the event of the error otherwise.
LoggedEvent(r) == IF r.ok THEN r.value ELSE ErrorEvent(r.value)
=============================================================================
