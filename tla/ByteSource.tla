----------------------------- MODULE ByteSource -----------------------------
(***************************************************************************)
(* What the framer expects of its source, a std::io::Read                  *)
(* (lob-feed/src/itch/frame.rs): it delivers `total' bytes in order, some  *)
(* at each read, and then reports how it ended: plainly, by a cut gzip     *)
(* member, or by bytes that are no member.  A read may also fail without   *)
(* losing anything: an interrupted read and any other I/O error leave the  *)
(* source where it was.                                                    *)
(***************************************************************************)
EXTENDS Integers

VARIABLES
  total,   \* bytes this source can deliver
  ending,  \* what it reports after the last one
  sent,    \* bytes delivered so far
  report   \* what the last read returned

vars == <<total, ending, sent, report>>

Report(kind, bytes) == [kind |-> kind, bytes |-> bytes]

Data(n) == Report("Data", n)
Eof == Report("Eof", 0)
Cut == Report("Cut", 0)
Trailing(n) == Report("Trailing", n)
Interrupted == Report("Interrupted", 0)
Failed == Report("Failed", 0)

\* Nothing has been read yet.
Fresh == Data(0)

EndKinds == {"Eof", "Cut", "Trailing"}

Init ==
  /\ sent = 0
  /\ report = Fresh

Deliver(n) ==
  /\ sent + n <= total
  /\ sent' = sent + n
  /\ report' = Data(n)
  /\ UNCHANGED <<total, ending>>

Finish ==
  /\ sent = total
  /\ report' = ending
  /\ UNCHANGED <<total, ending, sent>>

Fail ==
  /\ report' \in {Interrupted, Failed}
  /\ UNCHANGED <<total, ending, sent>>

Next ==
  /\ report.kind \notin EndKinds
  /\ \/ \E n \in 1 .. total - sent : Deliver(n)
     \/ Finish
     \/ Fail

Spec == Init /\ [][Next]_vars
=============================================================================
