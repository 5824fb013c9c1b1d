--------------------------- MODULE GzMembersProofs ---------------------------
(***************************************************************************)
(* The reader of gzip members, for every file that starts with the magic   *)
(* bytes, every length of the buffer and every place a read may fail: it   *)
(* delivers what the members hold and says nothing untrue of the file.     *)
(***************************************************************************)
EXTENDS GzMembers, DataProofs

-----------------------------------------------------------------------------
(* What the file holds                                                     *)

Places == 0 .. Len(file)

LEMMA FileFacts ==
  ASSUME file \in Files
  PROVE  /\ Len(file) \in Nat /\ Len(file) >= 2
         /\ \A q \in 1 .. Len(file) : file[q] \in Symbols
         /\ StartsMember(0)
<1>1. /\ file \in Seq(Symbols) /\ Len(file) >= 2
      /\ file[1] = Magic1 /\ file[2] = Magic2
  BY GzAssumption
<1> QED BY <1>1 DEF StartsMember

\* The next trailer is the first one after p, or the file has none there and ends.
LEMMA NextTrailer ==
  ASSUME Len(file) \in Nat, NEW p \in Places
  PROVE  LET n == NextPlace(p, Trailer)
         IN  /\ n \in p .. Len(file) /\ (p < Len(file) => p < n)
             /\ \A q \in p + 1 .. Len(file) : file[q] = Trailer => file[n] = Trailer /\ n <= q
             /\ p < n => file[n] = Trailer \/ n = Len(file)
             /\ file[n] # Trailer => n = Len(file)
<1> DEFINE T == {q \in p + 1 .. Len(file) : file[q] = Trailer}
           n == NextPlace(p, Trailer)
<1>1. n = IF T = {} THEN Len(file) ELSE CHOOSE q \in T : \A r \in T : q <= r
  BY DEF NextPlace
<1>2. p \in Nat /\ p <= Len(file)
  BY DEF Places
<1>3. CASE T = {}
  <2>1. \A q \in p + 1 .. Len(file) : file[q] # Trailer
    BY <1>3
  <2>2. n = Len(file)
    BY <1>1, <1>3
  <2> HIDE DEF n, T
  <2> QED BY <1>2, <2>1, <2>2 DEF n
<1>4. CASE T # {}
  <2>1. T \in SUBSET Nat
    BY <1>2
  <2>2. \E q \in T : \A r \in T : q <= r
    <3> HIDE DEF T
    <3> QED BY <1>4, <2>1, LeastNatural
  <2>3. n \in T /\ \A r \in T : n <= r
    BY <1>1, <1>4, <2>2
  <2>4. /\ n \in p + 1 .. Len(file) /\ file[n] = Trailer
        /\ \A q \in p + 1 .. Len(file) : file[q] = Trailer => n <= q
    BY <2>3
  <2> HIDE DEF n, T
  <2> QED BY <1>2, <2>4 DEF n
<1> QED BY <1>3, <1>4

\* One byte further on, the next trailer is the same, or it was that byte.
LEMMA NextTrailerMoves ==
  ASSUME Len(file) \in Nat, NEW p \in Places, p < Len(file)
  PROVE  NextPlace(p, Trailer) =
           IF file[p + 1] = Trailer THEN p + 1 ELSE NextPlace(p + 1, Trailer)
<1> DEFINE n == NextPlace(p, Trailer)
           m == NextPlace(p + 1, Trailer)
<1>1. p \in Nat /\ p + 1 \in Places
  BY DEF Places
<1>2. /\ n \in p .. Len(file) /\ p < n
      /\ \A q \in p + 1 .. Len(file) : file[q] = Trailer => file[n] = Trailer /\ n <= q
      /\ file[n] # Trailer => n = Len(file)
  BY NextTrailer
<1>3. /\ m \in p + 1 .. Len(file)
      /\ \A q \in (p + 1) + 1 .. Len(file) : file[q] = Trailer => file[m] = Trailer /\ m <= q
      /\ file[m] # Trailer => m = Len(file)
      /\ p + 1 < m => file[m] = Trailer \/ m = Len(file)
  BY <1>1, NextTrailer
<1> HIDE DEF n, m
<1>4. CASE file[p + 1] = Trailer
  BY <1>1, <1>2, <1>4 DEF n
<1>5. CASE file[p + 1] # Trailer
  <2>1. n >= m
    <3>1. CASE n = p + 1
      <4>1. n = Len(file)
        BY <1>2, <1>5, <3>1
      <4> QED BY <1>1, <1>3, <4>1
    <3>2. CASE n # p + 1
      <4>1. n \in (p + 1) + 1 .. Len(file)
        BY <1>1, <1>2, <3>2
      <4>2. file[n] = Trailer => m <= n
        BY <1>3, <4>1
      <4> QED BY <1>1, <1>2, <1>3, <4>2
    <3> QED BY <3>1, <3>2
  <2>2. n <= m
    <3>1. m \in p + 1 .. Len(file)
      BY <1>3
    <3>2. file[m] = Trailer => n <= m
      BY <1>2, <3>1
    <3> QED BY <1>1, <1>2, <1>3, <3>2
  <2>3. n = m
    BY <1>1, <1>2, <1>3, <2>1, <2>2
  <2> QED BY <1>5, <2>3 DEF n, m
<1> QED BY <1>4, <1>5

-----------------------------------------------------------------------------
(* The place after the last member.  It is defined by recursion towards    *)
(* the end of the file; that there is such a function is shown by          *)
(* induction on the distance to the end.                                   *)

EndsAt(g, p) == g[p] = IF StartsMember(p) THEN g[NextPlace(p, Trailer)] ELSE p

EndsFrom(g, p) == \A q \in Places : q >= p => EndsAt(g, q)

LEMMA EndExists ==
  ASSUME Len(file) \in Nat
  PROVE  \E g \in [Places -> Places] : EndsFrom(g, 0)
<1> DEFINE len == Len(file)
           S == {n \in Nat : n <= len => \E g \in [Places -> Places] : EndsFrom(g, len - n)}
<1>1. 0 \in S
  <2> DEFINE g == [p \in Places |-> p]
  <2>1. g \in [Places -> Places]
    OBVIOUS
  <2>2. \A q \in Places : q >= len - 0 => q = len
    BY DEF Places
  <2>3. EndsFrom(g, len - 0)
    <3>1. ~StartsMember(len) /\ len \in Places
      BY DEF StartsMember, Places
    <3> QED BY <2>2, <3>1 DEF EndsFrom, EndsAt, Places
  <2> QED BY <2>1, <2>3
<1>2. ASSUME NEW n \in Nat, n \in S PROVE n + 1 \in S
  <2>1. SUFFICES ASSUME n + 1 <= len
                 PROVE  \E g \in [Places -> Places] : EndsFrom(g, len - (n + 1))
    OBVIOUS
  <2>2. PICK h \in [Places -> Places] : EndsFrom(h, len - n)
    BY <1>2, <2>1
  <2> DEFINE p == len - (n + 1)
             next == NextPlace(p, Trailer)
             e == IF StartsMember(p) THEN h[next] ELSE p
             g == [h EXCEPT ![p] = e]
  <2>3. p \in Places /\ p \in Nat /\ p < len /\ len - n = p + 1
    BY <2>1 DEF Places
  <2>4. next \in Places /\ next > p
    <3>1. next \in p .. Len(file) /\ p < next
      BY <2>3, NextTrailer
    <3> QED BY <2>3, <3>1 DEF Places
  <2>6. e \in Places
    BY <2>3, <2>4
  <2>7. g \in [Places -> Places] /\ g[p] = e /\ \A q \in Places : q # p => g[q] = h[q]
    BY <2>3, <2>6
  <2> HIDE DEF g, p, e
  <2>8. EndsAt(g, p)
    <3>1. next # p
      BY <2>3, <2>4 DEF Places
    <3> QED BY <2>4, <2>7, <3>1 DEF EndsAt, e
  <2>9. ASSUME NEW q \in Places, q > p PROVE EndsAt(g, q)
    <3>1. EndsAt(h, q)
      BY <2>2, <2>3, <2>9 DEF EndsFrom, Places
    <3>2. NextPlace(q, Trailer) \in q .. Len(file)
      BY NextTrailer
    <3>3. NextPlace(q, Trailer) \in Places /\ NextPlace(q, Trailer) # p /\ q # p
      BY <2>3, <2>9, <3>2 DEF Places
    <3> QED BY <2>7, <3>1, <3>3 DEF EndsAt
  <2>10. EndsFrom(g, p)
    BY <2>3, <2>8, <2>9 DEF EndsFrom, Places
  <2> QED BY <2>7, <2>10 DEF p
<1>3. len \in S
  <2>1. len \in Nat
    OBVIOUS
  <2> HIDE DEF S, len
  <2>2. Nat \subseteq S
    BY <1>1, <1>2, NaturalsInducted
  <2> QED BY <2>1, <2>2
<1>4. len - len = 0 /\ len <= len
  OBVIOUS
<1> QED BY <1>3, <1>4

LEMMA EndIs ==
  ASSUME Len(file) \in Nat
  PROVE  \A p \in Places : /\ EndsAt(EndOfMembers, p)
                          /\ EndOfMembers[p] \in p .. Len(file)
<1> DEFINE Solves(g) == g = [q \in Places |-> IF StartsMember(q) THEN g[NextPlace(q, Trailer)] ELSE q]
           end == EndOfMembers
           len == Len(file)
<1>1. EndOfMembers = CHOOSE g : Solves(g)
  BY DEF EndOfMembers, Places
<1>2. PICK g \in [Places -> Places] : EndsFrom(g, 0)
  BY EndExists
<1>3. Solves(g)
  <2>1. \A q \in Places : g[q] = IF StartsMember(q) THEN g[NextPlace(q, Trailer)] ELSE q
    BY <1>2 DEF EndsFrom, EndsAt, Places
  <2> QED BY <1>2, <2>1
<1>4. Solves(end)
  BY <1>1, <1>3
<1>5. \A p \in Places : EndsAt(end, p)
  <2> HIDE DEF end
  <2> QED BY <1>4 DEF EndsAt
<1> HIDE DEF end, Solves
<1> DEFINE S == {n \in Nat : \A p \in Places : p >= len - n => end[p] \in p .. len}
<1>6. 0 \in S
  <2>1. \A p \in Places : p >= len - 0 => p = len
    BY DEF Places
  <2>2. ~StartsMember(len) /\ (len \in Places => end[len] = len)
    BY <1>5 DEF StartsMember, EndsAt
  <2> QED BY <2>1, <2>2 DEF Places
<1>7. ASSUME NEW n \in Nat, n \in S PROVE n + 1 \in S
  <2>1. SUFFICES ASSUME NEW p \in Places, p >= len - (n + 1) PROVE end[p] \in p .. len
    OBVIOUS
  <2>2. p \in Nat /\ p <= len
    BY DEF Places
  <2>3. CASE StartsMember(p)
    <3> DEFINE next == NextPlace(p, Trailer)
    <3>1. p < len
      BY <2>2, <2>3 DEF StartsMember
    <3>2. next \in p .. len /\ p < next
      BY <3>1, NextTrailer
    <3>3. end[p] = end[next]
      BY <1>5, <2>3 DEF EndsAt
    <3> HIDE DEF next
    <3>4. next \in Places /\ next >= len - n
      BY <2>1, <2>2, <3>2 DEF Places
    <3>5. end[next] \in next .. len
      BY <1>7, <3>4
    <3> QED BY <2>2, <3>2, <3>3, <3>5
  <2>4. CASE ~StartsMember(p)
    <3>1. end[p] = p
      BY <1>5, <2>4 DEF EndsAt
    <3> QED BY <2>2, <3>1
  <2> QED BY <2>3, <2>4
<1>8. len \in S
  <2>1. len \in Nat
    OBVIOUS
  <2> HIDE DEF S, len
  <2>2. Nat \subseteq S
    BY <1>6, <1>7, NaturalsInducted
  <2> QED BY <2>1, <2>2
<1>9. \A p \in Places : end[p] \in p .. len
  <2>1. \A p \in Places : p >= len - len
    BY DEF Places
  <2> QED BY <1>8, <2>1
<1> QED BY <1>5, <1>9 DEF end

\* Both places are those of the file that is being read, and no step changes it.
LEMMA SameFile ==
  ASSUME file' = file
  PROVE  /\ EndOfMembers' = EndOfMembers
         /\ Places' = Places
         /\ \A p : StartsMember(p)' = StartsMember(p)
         /\ \A p : NextPlace(p, Trailer)' = NextPlace(p, Trailer)
<1>1. \A p : StartsMember(p)' = StartsMember(p)
  BY DEF StartsMember
<1>2. \A p, s : NextPlace(p, s)' = NextPlace(p, s)
  BY DEF NextPlace
<1>3. Places' = Places
  BY DEF Places
<1>4. EndOfMembers' = EndOfMembers
  BY DEF EndOfMembers, StartsMember, NextPlace
<1> QED BY <1>1, <1>2, <1>3, <1>4

-----------------------------------------------------------------------------
(* The data in it                                                          *)

DataIn(p) == Cardinality({q \in 1 .. p : file[q] = DataByte})

LEMMA DataCounted ==
  ASSUME NEW p \in Nat
  PROVE  /\ DataIn(p) \in Nat /\ DataIn(0) = 0
         /\ DataIn(p + 1) = DataIn(p) + IF file[p + 1] = DataByte THEN 1 ELSE 0
<1> DEFINE D(n) == {q \in 1 .. n : file[q] = DataByte}
<1>1. IsFiniteSet(D(p))
  <2>1. IsFiniteSet(1 .. p)
    BY FS_Interval
  <2> QED BY <2>1, FS_Subset
<1>2. D(0) = {}
  OBVIOUS
<1>3. D(p + 1) = IF file[p + 1] = DataByte THEN D(p) \cup {p + 1} ELSE D(p)
  <2>1. \A q : q \in 1 .. p + 1 <=> q \in 1 .. p \/ q = p + 1
    OBVIOUS
  <2> QED BY <2>1
<1>4. p + 1 \notin D(p)
  OBVIOUS
<1>5. \A n : DataIn(n) = Cardinality(D(n))
  BY DEF DataIn
<1> HIDE DEF D
<1>6. Cardinality(D(p)) \in Nat
  BY <1>1, FS_CardinalityType
<1>7. Cardinality(D(p) \cup {p + 1}) = Cardinality(D(p)) + 1
  BY <1>1, <1>4, FS_AddElement
<1>8. Cardinality(D(0)) = 0
  BY <1>2, FS_EmptySet
<1> QED BY <1>3, <1>5, <1>6, <1>7, <1>8

LEMMA DataGrows ==
  ASSUME NEW n \in Nat, NEW p \in 0 .. n
  PROVE  DataIn(p) <= DataIn(n)
<1> DEFINE D(k) == {q \in 1 .. k : file[q] = DataByte}
<1>1. IsFiniteSet(D(n))
  <2>1. IsFiniteSet(1 .. n)
    BY FS_Interval
  <2> QED BY <2>1, FS_Subset
<1>2. D(p) \subseteq D(n)
  OBVIOUS
<1>3. \A k : DataIn(k) = Cardinality(D(k))
  BY DEF DataIn
<1> HIDE DEF D
<1> QED BY <1>1, <1>2, <1>3, FS_Subset

-----------------------------------------------------------------------------
(* The invariant: wherever the decoder is, the members from there on end   *)
(* where those of the whole file end, and the data so far has been sent.   *)

InMember == dec \in {"Header1", "Header2", "Body"}

TypeOK ==
  /\ file \in Files /\ at \in Places /\ buffered \in 0 .. Rest /\ sent \in Nat
  /\ dec \in {"Header1", "Header2", "Body", "Ended", "None"}

\* Where the decoder is in the member that holds the next byte.
Placed ==
  /\ InMember => EndOfMembers[NextPlace(at, Trailer)] = EndOfMembers[0]
  /\ dec = "Header1" => StartsMember(at)
  /\ dec = "Header2" => at < Len(file) /\ file[at + 1] = Magic2
  /\ dec \in {"Header2", "Body"} => at > 0 /\ file[at] # Trailer
  /\ dec = "Ended" =>
       /\ at > 0 /\ file[at] = Trailer
       /\ EndOfMembers[at] = EndOfMembers[0]

IInv ==
  /\ TypeOK /\ Placed
  /\ dec # "None" => sent = DataIn(at)
  /\ TellsTheTruth

\* Nothing of it depends on what was read last, but for the last conjunct.
LEMMA TotalIs ==
  ASSUME file \in Files
  PROVE  /\ total = DataIn(EndOfMembers[0]) /\ total \in Nat
         /\ EndOfMembers[0] \in 0 .. Len(file)
         /\ \A p \in 0 .. EndOfMembers[0] : DataIn(p) <= total
<1>1. Len(file) \in Nat /\ 0 \in Places
  BY FileFacts DEF Places
<1>2. EndOfMembers[0] \in 0 .. Len(file)
  BY <1>1, EndIs
<1>3. total = DataIn(EndOfMembers[0])
  BY DEF total, DataIn
<1>4. EndOfMembers[0] \in Nat
  BY <1>1, <1>2
<1> QED BY <1>1, <1>2, <1>3, <1>4, DataCounted, DataGrows

\* Within a member: what is still to come, and what the next byte leads to.
LEMMA WithinMember ==
  ASSUME IInv, InMember
  PROVE  /\ at \in Nat /\ Len(file) \in Nat /\ sent = DataIn(at)
         /\ at <= Len(file)
         /\ at = Len(file) => dec = "Body" /\ sent = total /\ Ending = Source!Cut
         /\ at < Len(file) =>
              /\ sent + (IF file[at + 1] = DataByte THEN 1 ELSE 0) = DataIn(at + 1)
              /\ DataIn(at + 1) <= total /\ at + 1 \in Places
              /\ IF file[at + 1] = Trailer
                   THEN EndOfMembers[at + 1] = EndOfMembers[0]
                   ELSE EndOfMembers[NextPlace(at + 1, Trailer)] = EndOfMembers[0]
<1> DEFINE n == NextPlace(at, Trailer)
           end == EndOfMembers[0]
<1>1. /\ at \in Nat /\ Len(file) \in Nat /\ at <= Len(file) /\ at \in Places /\ file \in Files
      /\ sent = DataIn(at) /\ EndOfMembers[n] = end
  BY FileFacts DEF IInv, TypeOK, Placed, InMember, Places
<1>2. n \in at .. Len(file) /\ (at < Len(file) => at < n)
  BY <1>1, NextTrailer
<1>3. n \in Places /\ end \in n .. Len(file)
  BY <1>1, <1>2, EndIs DEF Places
<1>4. total = DataIn(end) /\ \A p \in 0 .. end : DataIn(p) <= total
  BY <1>1, TotalIs
<1> HIDE DEF n, end
<1>5. CASE at = Len(file)
  <2>1. end = Len(file) /\ sent = total
    BY <1>1, <1>2, <1>3, <1>4, <1>5
  <2>2. dec # "Header1" /\ dec # "Header2" /\ dec = "Body"
    BY <1>1, <1>5 DEF IInv, Placed, StartsMember, InMember
  <2>3. file[Len(file)] # Trailer
    BY <1>5, <2>2 DEF IInv, Placed
  <2>4. Ending = Source!Cut
    BY <1>1, <2>1, <2>3 DEF Ending, end
  <2> QED BY <1>1, <1>5, <2>1, <2>2, <2>4
<1>6. CASE at < Len(file)
  <2>1. at + 1 \in Places /\ at + 1 \in 0 .. end
    BY <1>1, <1>2, <1>3, <1>6 DEF Places
  <2>2. DataIn(at + 1) = sent + (IF file[at + 1] = DataByte THEN 1 ELSE 0)
    BY <1>1, DataCounted
  <2>3. DataIn(at + 1) <= total
    BY <1>4, <2>1
  <2>4. n = IF file[at + 1] = Trailer THEN at + 1 ELSE NextPlace(at + 1, Trailer)
    BY <1>1, <1>6, NextTrailerMoves DEF n
  <2> QED BY <1>1, <1>6, <2>1, <2>2, <2>3, <2>4 DEF end
<1> QED BY <1>1, <1>5, <1>6

\* Between two members: another one starts, or what the file ends with is known.
LEMMA BetweenMembers ==
  ASSUME IInv, dec = "Ended"
  PROVE  /\ at \in Nat /\ Len(file) \in Nat /\ at <= Len(file)
         /\ StartsMember(at) =>
              /\ EndOfMembers[NextPlace(at, Trailer)] = EndOfMembers[0]
              /\ EndOfMembers[NextPlace(at + 1, Trailer)] = EndOfMembers[0]
         /\ ~StartsMember(at) =>
              /\ sent = total
              /\ Ending = IF at = Len(file) THEN Source!Eof
                          ELSE Source!Trailing(Len(file) - at)
<1>1. /\ at \in Nat /\ Len(file) \in Nat /\ at <= Len(file) /\ at \in Places /\ file \in Files
      /\ sent = DataIn(at) /\ EndOfMembers[at] = EndOfMembers[0] /\ file[at] = Trailer
  BY FileFacts DEF IInv, TypeOK, Placed, Places
<1>2. EndOfMembers[at] = IF StartsMember(at) THEN EndOfMembers[NextPlace(at, Trailer)] ELSE at
  BY <1>1, EndIs DEF EndsAt
<1>3. CASE StartsMember(at)
  <2>1. at < Len(file) /\ file[at + 1] = Magic1
    BY <1>1, <1>3 DEF StartsMember
  <2>2. NextPlace(at, Trailer) = NextPlace(at + 1, Trailer)
    BY <1>1, <2>1, NextTrailerMoves DEF Magic1, Trailer
  <2> QED BY <1>1, <1>2, <1>3, <2>2
<1>4. CASE ~StartsMember(at)
  <2>1. EndOfMembers[0] = at /\ sent = total
    BY <1>1, <1>2, <1>4, TotalIs
  <2>2. Ending = IF at = Len(file) THEN Source!Eof ELSE Source!Trailing(Len(file) - at)
    BY <1>1, <2>1 DEF Ending
  <2> QED BY <1>1, <1>4, <2>1, <2>2
<1> QED BY <1>3, <1>4

-----------------------------------------------------------------------------
(* Its steps                                                               *)

LEMMA Kinds ==
  /\ \A kind, n : Source!Report(kind, n).kind = kind
  /\ \A n : Source!Data(n).kind = "Data"
  /\ Source!Eof.kind = "Eof" /\ Source!Cut.kind = "Cut" /\ Source!Fresh.kind = "Data"
  /\ Source!EndKinds = {"Eof", "Cut", "Trailing"}
  /\ \A r \in Errors : r.kind \notin {"Cut", "Trailing"} /\ r \in {Source!Interrupted, Source!Failed}
<1>1. \A r \in Errors : \E kind \in {"Interrupted", "Failed"} : r = Source!Report(kind, 0)
  BY GzAssumption DEF Errors
<1> QED BY <1>1 DEF Source!Report, Source!Data, Source!Eof, Source!Cut, Source!Fresh,
                    Source!EndKinds, Source!Interrupted, Source!Failed

\* A step of the reader leaves the file alone, so that what it holds stays.
LEMMA SameTruth ==
  ASSUME file' = file
  PROVE  total' = total /\ Ending' = Ending
<1>1. EndOfMembers' = EndOfMembers
  BY SameFile
<1> QED BY <1>1 DEF total, Ending, Source!Trailing, Source!Eof, Source!Cut, Source!Report

\* The invariant after a step is one of the values after it, whatever file' is.
LEMMA PlacedAfter ==
  ASSUME file' = file
  PROVE  Placed' <=>
           /\ dec' \in {"Header1", "Header2", "Body"} =>
                EndOfMembers[NextPlace(at', Trailer)] = EndOfMembers[0]
           /\ dec' = "Header1" => StartsMember(at')
           /\ dec' = "Header2" => at' < Len(file) /\ file[at' + 1] = Magic2
           /\ dec' \in {"Header2", "Body"} => at' > 0 /\ file[at'] # Trailer
           /\ dec' = "Ended" =>
                /\ at' > 0 /\ file[at'] = Trailer
                /\ EndOfMembers[at'] = EndOfMembers[0]
<1>1. EndOfMembers' = EndOfMembers
  BY SameFile
<1>2. StartsMember(at)' <=> StartsMember(at')
  BY DEF StartsMember
<1>3. NextPlace(at, Trailer)' = NextPlace(at', Trailer)
  BY DEF NextPlace
<1> QED BY <1>1, <1>2, <1>3 DEF Placed, InMember

\* What is left to show of a step.
LEMMA Settled ==
  ASSUME file' = file, IInv, at' \in 0 .. Len(file), buffered' \in 0 .. Len(file) - at',
         dec' \in {"Header1", "Header2", "Body", "Ended", "None"}, sent' \in Nat, Placed',
         dec' # "None" => sent' = DataIn(at'), sent' <= total,
         report'.kind \in {"Cut", "Trailing"} => report' = Ending /\ sent' = total
  PROVE  IInv'
<1>1. total' = total /\ Ending' = Ending
  BY SameTruth
<1>2. TypeOK'
  <2>1. Rest' = Len(file) - at' /\ Places' = 0 .. Len(file) /\ file' \in Files
    BY DEF Rest, Places, IInv, TypeOK
  <2> QED BY <2>1 DEF TypeOK
<1>3. TellsTheTruth'
  BY <1>1 DEF TellsTheTruth
<1>4. DataIn(at)' = DataIn(at')
  BY DEF DataIn
<1> QED BY <1>2, <1>3, <1>4 DEF IInv

\* A step that moves nothing.
LEMMA StayedRight ==
  ASSUME file' = file, IInv, at' = at, buffered' = buffered, dec' = dec, sent' = sent,
         report'.kind \in {"Cut", "Trailing"} => report' = Ending /\ sent = total
  PROVE  IInv'
<1>1. /\ at' \in 0 .. Len(file) /\ buffered' \in 0 .. Len(file) - at' /\ sent' \in Nat
      /\ dec' \in {"Header1", "Header2", "Body", "Ended", "None"}
  BY DEF IInv, TypeOK, Rest, Places
<1>2. Placed'
  BY PlacedAfter DEF IInv, Placed, InMember
<1>3. (dec' # "None" => sent' = DataIn(at')) /\ sent' <= total
  BY DEF IInv, TellsTheTruth
<1> QED BY <1>1, <1>2, <1>3, Settled

\* A step after which there is no decoder.
LEMMA GoneRight ==
  ASSUME file' = file, IInv, at' \in 0 .. Len(file), buffered' \in 0 .. Len(file) - at',
         dec' = "None", sent' = sent,
         report'.kind \in {"Cut", "Trailing"} => report' = Ending /\ sent = total
  PROVE  IInv'
<1>1. Placed'
  BY PlacedAfter
<1>2. sent' \in Nat /\ sent' <= total
  BY DEF IInv, TypeOK, TellsTheTruth
<1> QED BY <1>1, <1>2, Settled

LEMMA Promised ==
  ASSUME IInv, Open, file' = file
  PROVE  /\ sent + 1 <= total /\ sent' = sent + 1 /\ report' = Source!Data(1) => Promise!Next
         /\ sent = total /\ sent' = sent /\ report' = Ending => Promise!Next
         /\ sent' = sent /\ report' \in Errors => Promise!Next
<1>1. total' = total /\ Ending' = Ending
  BY SameTruth
<1>2. report.kind \notin Promise!EndKinds
  BY DEF Open, Source!EndKinds, Promise!EndKinds
<1>3. sent \in Nat /\ total \in Nat
  BY TotalIs DEF IInv, TypeOK
<1>4. ASSUME sent + 1 <= total, sent' = sent + 1, report' = Source!Data(1) PROVE Promise!Next
  <2>1. Promise!Deliver(1)
    BY <1>1, <1>4 DEF Promise!Deliver, Promise!Data, Promise!Report, Source!Data, Source!Report
  <2>2. 1 \in 1 .. total - sent
    BY <1>3, <1>4
  <2> QED BY <1>2, <2>1, <2>2 DEF Promise!Next
<1>5. ASSUME sent = total, sent' = sent, report' = Ending PROVE Promise!Next
  <2>1. Promise!Finish
    BY <1>1, <1>5 DEF Promise!Finish
  <2> QED BY <1>2, <2>1 DEF Promise!Next
<1>6. ASSUME sent' = sent, report' \in Errors PROVE Promise!Next
  <2>1. report' \in {Source!Interrupted, Source!Failed}
    BY <1>6, Kinds
  <2>2. Promise!Fail
    BY <1>1, <1>6, <2>1 DEF Promise!Fail, Promise!Interrupted, Promise!Failed, Promise!Report,
                            Source!Interrupted, Source!Failed, Source!Report
  <2> QED BY <1>2, <2>2 DEF Promise!Next
<1> QED BY <1>4, <1>5, <1>6

\* What a step is to do: keep the invariant and, as long as there is a decoder, the
\* promise.
Right == IInv' /\ (dec # "None" => Promise!Next \/ UNCHANGED <<sent, report>>)

\* The lengths fill_buf may return are not more than what is left of the file.
LEMMA HeadsFit ==
  ASSUME IInv
  PROVE  /\ \A n \in Heads : n \in 0 .. Len(file) - at
         /\ 0 \in Heads <=> at = Len(file)
<1>1. /\ Len(file) \in Nat /\ at \in Nat /\ at <= Len(file) /\ buffered \in 0 .. Rest
      /\ Rest = Len(file) - at
  BY FileFacts DEF IInv, TypeOK, Places, Rest
<1>2. Rest \in Nat
  BY <1>1
<1> HIDE DEF Rest
<1>3. Heads = IF buffered > 0 THEN {buffered}
              ELSE IF Rest = 0 THEN {0} ELSE {n \in 1 .. Rest : n <= BufReaderLen}
  BY DEF Heads
<1> QED BY <1>1, <1>2, <1>3

LEMMA DecodeByteRight == IInv /\ DecodeByte => Right
<1> SUFFICES ASSUME IInv, DecodeByte PROVE Right
  OBVIOUS
<1> DEFINE byte == file[at + 1]
<1>1. InMember /\ Open /\ file' = file /\ at' = at + 1
  BY DEF DecodeByte, InMember
<1>2. PICK head \in Heads \ {0} : buffered' = head - 1
  BY DEF DecodeByte
<1>3. /\ at \in Nat /\ Len(file) \in Nat /\ at <= Len(file) /\ sent = DataIn(at)
  BY <1>1, WithinMember
<1>4. at < Len(file) /\ head \in 1 .. Len(file) - at
  BY <1>2, <1>3, HeadsFit
<1>5. /\ sent + (IF byte = DataByte THEN 1 ELSE 0) = DataIn(at + 1) /\ DataIn(at + 1) <= total
      /\ IF byte = Trailer
           THEN EndOfMembers[at + 1] = EndOfMembers[0]
           ELSE EndOfMembers[NextPlace(at + 1, Trailer)] = EndOfMembers[0]
  BY <1>1, <1>4, WithinMember
<1>6. /\ dec' = CASE dec = "Header1" -> "Header2"
                  [] dec = "Header2" -> "Body"
                  [] dec = "Body" -> IF byte = Trailer THEN "Ended" ELSE "Body"
      /\ IF byte = DataByte THEN sent' = sent + 1 /\ report' = Source!Data(1)
                            ELSE UNCHANGED <<sent, report>>
  BY DEF DecodeByte
<1>7. /\ dec = "Header1" => byte = Magic1 /\ at + 1 < Len(file) /\ file[(at + 1) + 1] = Magic2
      /\ dec = "Header2" => byte = Magic2
  <2>1. (dec = "Header1" => StartsMember(at)) /\ (dec = "Header2" => byte = Magic2)
    BY DEF IInv, Placed
  <2>2. at + 2 = (at + 1) + 1
    BY <1>3
  <2> QED BY <1>3, <2>1, <2>2 DEF StartsMember
<1>8. Magic1 # Trailer /\ Magic2 # Trailer
  BY DEF Magic1, Magic2, Trailer
<1> HIDE DEF byte
<1>9. \/ dec = "Header1" /\ dec' = "Header2" /\ byte # Trailer
      \/ dec = "Header2" /\ dec' = "Body" /\ byte # Trailer
      \/ dec = "Body" /\ dec' = "Body" /\ byte # Trailer
      \/ dec = "Body" /\ dec' = "Ended" /\ byte = Trailer
  BY <1>1, <1>6, <1>7, <1>8 DEF InMember
<1>10. Placed'
  BY <1>1, <1>3, <1>5, <1>7, <1>9, PlacedAfter DEF byte
<1>11. sent' = DataIn(at') /\ sent' \in Nat
  BY <1>1, <1>3, <1>5, <1>6, DataCounted
<1>12. report'.kind \in {"Cut", "Trailing"} => report' = Ending /\ sent' = total
  <2>1. CASE byte = DataByte
    BY <1>6, <2>1, Kinds
  <2>2. CASE byte # DataByte
    BY <1>6, <2>2 DEF IInv, TellsTheTruth
  <2> QED BY <2>1, <2>2
<1>13. IInv'
  <2>1. at' \in 0 .. Len(file) /\ buffered' \in 0 .. Len(file) - at'
    BY <1>1, <1>2, <1>3, <1>4
  <2>2. sent' <= total /\ dec' \in {"Header1", "Header2", "Body", "Ended", "None"}
    BY <1>1, <1>5, <1>9, <1>11
  <2> QED BY <1>1, <1>10, <1>11, <1>12, <2>1, <2>2, Settled
<1>14. Promise!Next \/ UNCHANGED <<sent, report>>
  <2>1. CASE byte = DataByte
    <3>1. sent + 1 <= total /\ sent' = sent + 1 /\ report' = Source!Data(1)
      BY <1>5, <1>6, <2>1
    <3> QED BY <1>1, <3>1, Promised
  <2>2. CASE byte # DataByte
    BY <1>6, <2>2
  <2> QED BY <2>1, <2>2
<1> QED BY <1>13, <1>14 DEF Right

LEMMA DecoderCutRight == IInv /\ DecoderCut => Right
<1> SUFFICES ASSUME IInv, DecoderCut PROVE Right
  OBVIOUS
<1>1. /\ InMember /\ Open /\ file' = file /\ at' = at /\ buffered' = buffered /\ dec' = dec
      /\ sent' = sent /\ report' = Source!Cut /\ 0 \in Heads
  BY DEF DecoderCut, InMember
<1>2. sent = total /\ Ending = Source!Cut
  BY <1>1, HeadsFit, WithinMember
<1>3. Promise!Next
  BY <1>1, <1>2, Promised
<1>4. IInv'
  BY <1>1, <1>2, StayedRight
<1> QED BY <1>3, <1>4 DEF Right

LEMMA MemberReadFailsRight == IInv /\ MemberReadFails => Right
<1> SUFFICES ASSUME IInv, MemberReadFails PROVE Right
  OBVIOUS
<1>1. /\ Open /\ file' = file /\ at' = at /\ buffered' = buffered /\ dec' = dec
      /\ sent' = sent /\ report' \in Errors
  BY DEF MemberReadFails
<1>2. Promise!Next
  BY <1>1, Promised
<1>3. IInv'
  BY <1>1, Kinds, StayedRight
<1> QED BY <1>2, <1>3 DEF Right

\* With the decoder gone only the last report counts.
LEMMA NoMemberRight == IInv /\ NoMember => Right
<1> SUFFICES ASSUME IInv, NoMember PROVE Right
  OBVIOUS
<1>1. /\ Open /\ dec = "Ended" /\ 0 \in Heads /\ file' = file /\ at' = at
      /\ buffered' = buffered /\ dec' = "None" /\ sent' = sent /\ report' = Source!Eof
  BY DEF NoMember
<1>2. at = Len(file) /\ at \in Nat
  BY <1>1, HeadsFit, BetweenMembers
<1>3. ~StartsMember(at)
  BY <1>2 DEF StartsMember
<1>4. sent = total /\ Ending = Source!Eof
  BY <1>1, <1>2, <1>3, BetweenMembers
<1>5. Promise!Next
  BY <1>1, <1>4, Promised
<1>6. IInv'
  BY <1>1, Kinds, GoneRight, HeadsFit DEF IInv, TypeOK, Rest, Places
<1> QED BY <1>5, <1>6 DEF Right

\* drain says how many bytes are left, whether one of them was taken before or not.
LEMMA DrainRight ==
  ASSUME IInv, Open, dec = "Ended", at < Len(file), ~StartsMember(at), file' = file, sent' = sent,
         NEW taken \in {0, 1}, Drain(at + taken, taken)
  PROVE  Right
<1>1. at \in Nat /\ Len(file) \in Nat
  BY BetweenMembers
<1>2. sent = total /\ Ending = Source!Trailing(Len(file) - at)
  BY <1>1, BetweenMembers
<1>3. taken + Len(file) - (at + taken) = Len(file) - at
  BY <1>1
<1>4. report' = Ending /\ at' = Len(file) /\ buffered' = 0 /\ dec' = "None"
  BY <1>2, <1>3 DEF Drain
<1>5. Promise!Next
  BY <1>2, <1>4, Promised
<1>6. IInv'
  BY <1>1, <1>2, <1>4, GoneRight
<1> QED BY <1>5, <1>6 DEF Right

LEMMA NextMemberRight == IInv /\ NextMember => Right
<1> SUFFICES ASSUME IInv, NextMember PROVE Right
  OBVIOUS
<1>1. Open /\ dec = "Ended" /\ file' = file /\ sent' = sent
  BY DEF NextMember
<1>2. PICK head \in Heads \ {0, 1} :
        IF StartsMember(at)
          THEN dec' = "Header1" /\ buffered' = head /\ UNCHANGED <<at, report>>
          ELSE Drain(at, 0)
  BY DEF NextMember
<1>3. at \in Nat /\ Len(file) \in Nat /\ at <= Len(file)
  BY <1>1, BetweenMembers
<1>4. at < Len(file) /\ head \in 0 .. Len(file) - at
  BY <1>2, <1>3, HeadsFit
<1>5. CASE StartsMember(at)
  <2>1. dec' = "Header1" /\ buffered' = head /\ at' = at /\ report' = report
    BY <1>2, <1>5
  <2>2. EndOfMembers[NextPlace(at, Trailer)] = EndOfMembers[0]
    BY <1>1, <1>5, BetweenMembers
  <2>3. Placed'
    BY <1>1, <1>5, <2>1, <2>2, PlacedAfter
  <2>4. IInv'
    BY <1>1, <1>3, <1>4, <2>1, <2>3, Settled DEF IInv, TypeOK, TellsTheTruth
  <2> QED BY <1>1, <2>1, <2>4 DEF Right
<1>6. CASE ~StartsMember(at)
  <2>1. Drain(at + 0, 0)
    BY <1>2, <1>3, <1>6
  <2> QED BY <1>1, <1>4, <1>6, <2>1, DrainRight
<1> QED BY <1>5, <1>6

LEMMA NextMemberSplitRight == IInv /\ NextMemberSplit => Right
<1> SUFFICES ASSUME IInv, NextMemberSplit PROVE Right
  OBVIOUS
<1>1. Open /\ dec = "Ended" /\ 1 \in Heads /\ file' = file /\ sent' = sent
  BY DEF NextMemberSplit
<1>2. IF StartsMember(at)
      THEN /\ dec' = "Header2"
           /\ at' = at + 1
           /\ buffered' \in {n \in 1 .. Rest - 1 : n <= BufReaderLen}
           /\ UNCHANGED report
      ELSE Drain(at + 1, 1)
  BY DEF NextMemberSplit
<1>3. at \in Nat /\ Len(file) \in Nat /\ at <= Len(file)
  BY <1>1, BetweenMembers
<1>4. at < Len(file)
  BY <1>1, <1>3, HeadsFit
<1>5. CASE StartsMember(at)
  <2>1. dec' = "Header2" /\ at' = at + 1 /\ buffered' \in 1 .. Rest - 1 /\ report' = report
    BY <1>2, <1>5
  <2>2. EndOfMembers[NextPlace(at + 1, Trailer)] = EndOfMembers[0]
    BY <1>1, <1>5, BetweenMembers
  <2>3. /\ at + 1 < Len(file) /\ file[at + 1] = Magic1 /\ file[(at + 1) + 1] = Magic2
    <3>1. at + 2 = (at + 1) + 1
      BY <1>3
    <3> QED BY <1>3, <1>5, <3>1 DEF StartsMember
  <2>4. Placed'
    BY <1>1, <1>3, <2>1, <2>2, <2>3, PlacedAfter DEF Magic1, Trailer
  <2>5. sent' = DataIn(at')
    <3>1. DataIn(at + 1) = DataIn(at) + 0 /\ DataIn(at) \in Nat
      BY <1>3, <2>3, DataCounted DEF Magic1, DataByte
    <3> QED BY <1>1, <2>1, <3>1 DEF IInv
  <2>6. at' \in 0 .. Len(file) /\ buffered' \in 0 .. Len(file) - at'
    BY <1>3, <1>4, <2>1 DEF Rest
  <2>7. IInv'
    BY <1>1, <2>1, <2>4, <2>5, <2>6, Settled DEF IInv, TypeOK, TellsTheTruth
  <2> QED BY <1>1, <2>1, <2>7 DEF Right
<1>6. CASE ~StartsMember(at)
  BY <1>1, <1>2, <1>4, <1>6, DrainRight
<1> QED BY <1>5, <1>6

LEMMA BoundaryReadFailsRight == IInv /\ BoundaryReadFails => Right
<1> SUFFICES ASSUME IInv, BoundaryReadFails PROVE Right
  OBVIOUS
<1>1. /\ Open /\ dec = "Ended" /\ file' = file /\ sent' = sent
      /\ buffered' = 0 /\ dec' = "None" /\ report' \in Errors
  BY DEF BoundaryReadFails
<1>2. at \in Nat /\ Len(file) \in Nat /\ at <= Len(file)
  BY <1>1, BetweenMembers
<1>3. \/ at' = at
      \/ 1 \in Heads /\ at' = at + 1
      \/ at' \in at + 1 .. Len(file)
  BY DEF BoundaryReadFails
<1>4. 1 \in Heads => 1 <= Len(file) - at
  BY <1>2, HeadsFit
<1>5. at' \in 0 .. Len(file)
  BY <1>2, <1>3, <1>4
<1>6. Promise!Next
  BY <1>1, Promised
<1>7. IInv'
  BY <1>1, <1>2, <1>5, Kinds, GoneRight
<1> QED BY <1>6, <1>7 DEF Right

LEMMA ReadWithoutDecoderRight == IInv /\ ReadWithoutDecoder => Right
<1> SUFFICES ASSUME IInv, ReadWithoutDecoder PROVE Right
  OBVIOUS
<1>1. /\ dec = "None" /\ file' = file /\ at' = at /\ buffered' = buffered /\ dec' = "None"
      /\ sent' = sent /\ report' = Source!Eof
  BY DEF ReadWithoutDecoder
<1>2. IInv'
  BY <1>1, Kinds, StayedRight
<1> QED BY <1>1, <1>2 DEF Right

LEMMA StepRight ==
  IInv /\ [Next]_vars => IInv' /\ (dec # "None" => Promise!Next \/ UNCHANGED <<sent, report>>)
<1> SUFFICES ASSUME IInv, [Next]_vars PROVE Right
  BY DEF Right
<1>1. CASE UNCHANGED vars
  <2>1. /\ file' = file /\ at' = at /\ buffered' = buffered /\ dec' = dec
        /\ sent' = sent /\ report' = report
    BY <1>1 DEF vars
  <2>2. report'.kind \in {"Cut", "Trailing"} => report' = Ending /\ sent = total
    BY <2>1 DEF IInv, TellsTheTruth
  <2>3. IInv'
    BY <2>1, <2>2, StayedRight
  <2> QED BY <2>1, <2>3 DEF Right
<1> QED BY <1>1, DecodeByteRight, DecoderCutRight, MemberReadFailsRight, NoMemberRight,
           NextMemberRight, NextMemberSplitRight, BoundaryReadFailsRight,
           ReadWithoutDecoderRight DEF Next, Decode, Boundary

LEMMA InitRight == Init => IInv /\ Promise!Init
<1> SUFFICES ASSUME Init PROVE IInv /\ Promise!Init
  OBVIOUS
<1>1. /\ file \in Files /\ at = 0 /\ buffered = 0 /\ dec = "Header1" /\ sent = 0
      /\ report = Source!Fresh
  BY DEF Init
<1>2. Len(file) \in Nat /\ StartsMember(0) /\ 0 \in Places
  BY <1>1, FileFacts DEF Places
<1>3. EndOfMembers[0] = EndOfMembers[NextPlace(0, Trailer)]
  BY <1>2, EndIs DEF EndsAt
<1>4. DataIn(0) = 0 /\ total \in Nat
  BY <1>1, DataCounted, TotalIs
<1>5. TypeOK /\ Placed
  BY <1>1, <1>2, <1>3 DEF TypeOK, Placed, InMember, Rest
<1>6. TellsTheTruth
  BY <1>1, <1>4, Kinds DEF TellsTheTruth
<1>7. Promise!Init
  BY <1>1 DEF Promise!Init, Promise!Fresh, Promise!Data, Promise!Report, Source!Fresh,
              Source!Data, Source!Report
<1> QED BY <1>1, <1>4, <1>5, <1>6, <1>7 DEF IInv

LEMMA AlwaysRight == Spec => []IInv
<1> QED BY InitRight, StepRight, PTL DEF Spec

\* Wherever the buffer cuts a file and whichever reads fail, no more is sent than
\* the members hold, and a cut or a count of trailing bytes is reported only when it
\* is so, after everything the members hold.
THEOREM SpecTellsTheTruth == Spec => []TellsTheTruth
<1>1. IInv => TellsTheTruth
  BY DEF IInv
<1> QED BY <1>1, AlwaysRight, PTL

\* Until the decoder is gone, the reader is the source the framer expects: it
\* delivers what the members hold, and then ends as the file does.
THEOREM SpecKeepsPromise == Spec => KeepsPromise
<1>1. IInv /\ [Next]_vars => [dec # "None" => Promise!Next \/ UNCHANGED <<sent, report>>]_vars
  BY StepRight
<1>2. Init => Promise!Init
  BY InitRight
<1> QED BY <1>1, <1>2, AlwaysRight, PTL DEF Spec, KeepsPromise
=============================================================================
