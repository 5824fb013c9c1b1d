---------------------------- MODULE FramerProofs ----------------------------
(***************************************************************************)
(* The streaming framer, for every base, every buffer length a caller asks *)
(* for and every set of inputs: the window is the part of the input it     *)
(* should be, and the framer implements the in-memory one.                 *)
(***************************************************************************)
EXTENDS Framer, SequenceTheorems, TLAPS

\* The strengthening: the end of the input is noted only when all of it is in
\* the window or consumed, and nothing is read after it.
IInv ==
  /\ TypeOK
  /\ WindowExact
  /\ eof => sent = Len(data)
  /\ pc = "Reading" => ~ eof

-----------------------------------------------------------------------------
(* The window                                                              *)

LEMMA BufLenType == BufLen \in Nat /\ MaxLen \in Int
<1>1. Base \in Nat \ {0, 1} /\ AskedLen \in Nat
  BY FramerAssumption
<1>2. Base * Base \in Nat
  BY <1>1
<1>3. MaxLen \in Int
  BY <1>2 DEF MaxLen
<1> QED BY <1>1, <1>3 DEF BufLen

\* A length prefix in the window is a natural number and the prefix in the input.
LEMMA AnnouncedInWindow ==
  ASSUME IInv, start + 2 <= Len(buf)
  PROVE  /\ Announced \in Nat
         /\ Consumed \in Nat
         /\ Promise!Announced(Consumed) = Announced
<1>1. /\ buf \in Seq(Byte) /\ start \in 0 .. Len(buf) /\ Len(buf) \in Nat
      /\ sent \in Nat /\ bytes_in = sent /\ Len(buf) - start <= bytes_in
  BY DEF IInv, TypeOK, WindowExact
<1>2. Consumed \in Nat /\ Consumed = bytes_in - (Len(buf) - start)
  BY <1>1 DEF Consumed
<1>3. Base \in Nat /\ Byte \subseteq Nat
  BY FramerAssumption DEF Byte, Promise!Byte
<1>4. start + 1 \in 1 .. Len(buf) /\ start + 2 \in 1 .. Len(buf)
  BY <1>1
<1>5. buf[start + 1] \in Nat /\ buf[start + 2] \in Nat
  BY <1>1, <1>3, <1>4, ElementOfSeq
<1>6. buf[start + 1] * Base \in Nat
  BY <1>3, <1>5
<1>7. Announced \in Nat
  BY <1>5, <1>6 DEF Announced
<1>8. \A i \in start + 1 .. Len(buf) : buf[i] = data[Consumed + i - start]
  BY DEF IInv, WindowExact
<1>9. buf[start + 1] = data[Consumed + (start + 1) - start]
  BY <1>1, <1>4, <1>8
<1>10. buf[start + 2] = data[Consumed + (start + 2) - start]
  BY <1>1, <1>4, <1>8
<1>11. Consumed + (start + 1) - start = Consumed + 1 /\ Consumed + (start + 2) - start = Consumed + 2
  BY <1>1, <1>2
<1> QED BY <1>2, <1>7, <1>9, <1>10, <1>11 DEF Announced, Promise!Announced

LEMMA InitInvariant == Init => IInv
<1> SUFFICES ASSUME Init PROVE IInv
  OBVIOUS
<1>1. data \in Seq(Byte)
  BY FramerAssumption DEF Init, Byte, Promise!Byte
<1>2. buf \in Seq(Byte) /\ Len(buf) = 0
  BY EmptySeq DEF Init
<1>3. Len(data) \in Nat
  BY <1>1
<1>4. TypeOK
  <2>1. sent \in 0 .. Len(data) /\ start \in 0 .. Len(buf) /\ Len(buf) <= BufLen
    BY <1>2, <1>3, BufLenType DEF Init, Source!Init
  <2> QED BY <1>1, <1>2, <2>1 DEF Init, TypeOK
<1>5. WindowExact
  BY <1>2 DEF Init, WindowExact, Source!Init
<1> QED BY <1>4, <1>5 DEF Init, IInv

-----------------------------------------------------------------------------
(* The steps                                                               *)

LEMMA CallInvariant == IInv /\ Call => IInv'
BY DEF IInv, TypeOK, WindowExact, Consumed, Call, source, counts, end_of_input

LEMMA TakeFrameInvariant == IInv /\ TakeFrame => IInv'
<1> SUFFICES ASSUME IInv, TakeFrame PROVE IInv'
  OBVIOUS
<1>1. /\ start \in 0 .. Len(buf) /\ Len(buf) \in Nat /\ sent \in Nat /\ frames \in Nat
      /\ bytes_in = sent /\ Len(buf) - start <= bytes_in
  BY DEF IInv, TypeOK, WindowExact
<1>2. start + 2 <= Len(buf) /\ start + 2 + Announced <= Len(buf)
  BY DEF TakeFrame, FrameBuffered
<1>3. Announced \in Nat
  BY <1>2, AnnouncedInWindow
<1>4. start' = start + 2 + Announced /\ start' \in 0 .. Len(buf) /\ start' \in Nat /\ start <= start'
  BY <1>1, <1>2, <1>3 DEF TakeFrame
<1>5. UNCHANGED <<data, ending, sent, report, buf, eof, cut, trailing, truncated, bytes_in>>
  BY DEF TakeFrame, source, end_of_input
<1>6. frames' = frames + 1 /\ pc' = "Returned"
  BY DEF TakeFrame, Return
<1>7. TypeOK'
  BY <1>1, <1>4, <1>5, <1>6 DEF IInv, TypeOK
<1>8. WindowExact'
  <2>1. \A i \in start + 1 .. Len(buf) : buf[i] = data[Consumed + i - start]
    BY DEF IInv, WindowExact
  <2>2. \A i \in Int : Consumed' + i - start' = Consumed + i - start
    BY <1>1, <1>4, <1>5 DEF Consumed
  <2>3. ASSUME NEW i \in start' + 1 .. Len(buf) PROVE buf[i] = data[Consumed' + i - start']
    <3>1. i \in start + 1 .. Len(buf) /\ i \in Int
      BY <1>1, <1>4
    <3> QED BY <2>1, <2>2, <3>1
  <2> QED BY <1>1, <1>4, <1>5, <2>3 DEF WindowExact
<1> QED BY <1>5, <1>6, <1>7, <1>8 DEF IInv

LEMMA TakeEndInvariant == IInv /\ TakeEnd => IInv'
<1> SUFFICES ASSUME IInv, TakeEnd PROVE IInv'
  OBVIOUS
<1>1. /\ start \in 0 .. Len(buf) /\ Len(buf) \in Nat /\ sent \in Nat /\ truncated \in Nat
      /\ bytes_in = sent
  BY DEF IInv, TypeOK, WindowExact
<1>2. UNCHANGED <<data, ending, sent, report, buf, eof, cut, trailing, frames, bytes_in>>
  BY DEF TakeEnd, source, end_of_input
<1>3. start' = Len(buf) /\ truncated' \in Nat /\ pc' = "Returned"
  BY <1>1 DEF TakeEnd, Return
<1>4. TypeOK'
  BY <1>1, <1>2, <1>3 DEF IInv, TypeOK
<1>5. WindowExact'
  BY <1>1, <1>2, <1>3 DEF WindowExact
<1> QED BY <1>2, <1>3, <1>4, <1>5 DEF IInv

\* Moving the window keeps its bytes and their number.
LEMMA RefillMoves ==
  ASSUME IInv, Refill
  PROVE  /\ buf' \in Seq(Byte)
         /\ Len(buf') = Len(buf) - start
         /\ start' = 0
         /\ \A i \in 1 .. Len(buf') : buf'[i] = buf[start + i]
<1>1. buf \in Seq(Byte) /\ start \in 0 .. Len(buf) /\ Len(buf) \in Nat
  BY DEF IInv, TypeOK
<1>2. buf' = SubSeq(buf, start + 1, Len(buf)) /\ start' = 0
  BY DEF Refill
<1>3. \A i \in start + 1 .. Len(buf) : buf[i] \in Byte
  BY <1>1, ElementOfSeq
<1>4. start + 1 \in Int /\ Len(buf) \in Int
  BY <1>1
<1>5. /\ SubSeq(buf, start + 1, Len(buf)) \in Seq(Byte)
      /\ Len(SubSeq(buf, start + 1, Len(buf))) =
           IF start + 1 <= Len(buf) THEN Len(buf) - (start + 1) + 1 ELSE 0
      /\ \A i \in 1 .. Len(buf) - (start + 1) + 1 :
           SubSeq(buf, start + 1, Len(buf))[i] = buf[(start + 1) + i - 1]
  BY <1>3, <1>4, SubSeqProperties
<1>6. Len(buf') = Len(buf) - start
  BY <1>1, <1>2, <1>5
<1>7. \A i \in 1 .. Len(buf') : buf'[i] = buf[start + i]
  <2> TAKE i \in 1 .. Len(buf')
  <2>1. i \in 1 .. Len(buf) - (start + 1) + 1 /\ (start + 1) + i - 1 = start + i
    BY <1>1, <1>6
  <2> QED BY <1>2, <1>5, <2>1
<1> QED BY <1>2, <1>5, <1>6, <1>7

LEMMA RefillInvariant == IInv /\ Refill => IInv'
<1> SUFFICES ASSUME IInv, Refill PROVE IInv'
  OBVIOUS
<1>1. /\ start \in 0 .. Len(buf) /\ Len(buf) \in Nat /\ sent \in Nat /\ Len(buf) <= BufLen
      /\ bytes_in = sent /\ Len(buf) - start <= bytes_in
  BY DEF IInv, TypeOK, WindowExact
<1>2. /\ buf' \in Seq(Byte) /\ Len(buf') = Len(buf) - start /\ start' = 0
      /\ \A i \in 1 .. Len(buf') : buf'[i] = buf[start + i]
  BY RefillMoves
<1>3. /\ UNCHANGED <<data, ending, sent, report, eof, cut, trailing, frames, truncated, bytes_in>>
      /\ pc' = "Reading"
  BY DEF Refill, source, end_of_input, counts
<1>4. TypeOK'
  BY <1>1, <1>2, <1>3, BufLenType DEF IInv, TypeOK
<1>5. WindowExact'
  <2>1. \A i \in start + 1 .. Len(buf) : buf[i] = data[Consumed + i - start]
    BY DEF IInv, WindowExact
  <2>2. Consumed' = Consumed /\ Consumed \in Int
    BY <1>1, <1>2, <1>3 DEF Consumed
  <2>3. ASSUME NEW i \in 1 .. Len(buf') PROVE buf'[i] = data[Consumed' + i - 0]
    <3>1. start + i \in start + 1 .. Len(buf)
      BY <1>1, <1>2
    <3>2. Consumed + (start + i) - start = Consumed' + i - 0
      BY <1>1, <2>2
    <3> QED BY <1>2, <2>1, <3>1, <3>2
  <2> QED BY <1>1, <1>2, <1>3, <2>3 DEF WindowExact
<1>6. ~ eof
  BY DEF Refill
<1> QED BY <1>3, <1>4, <1>5, <1>6 DEF IInv

LEMMA FilledInvariant == IInv /\ Filled => IInv'
<1> SUFFICES ASSUME IInv, Filled PROVE IInv'
  OBVIOUS
<1>1. /\ UNCHANGED <<data, ending, sent, buf, start, eof, cut, trailing, frames, truncated, bytes_in>>
      /\ pc' = "Framing"
  BY DEF Filled, source, counts, end_of_input
<1>2. TypeOK'
  BY <1>1 DEF IInv, TypeOK
<1>3. WindowExact'
  BY <1>1 DEF IInv, WindowExact, Consumed
<1> QED BY <1>1, <1>2, <1>3 DEF IInv

\* A read puts the next bytes of the input behind the window.
LEMMA ReadDataAppends ==
  ASSUME IInv, NEW n \in 1 .. BufLen - Len(buf), ReadData(n)
  PROVE  /\ sent + n <= Len(data)
         /\ buf' \in Seq(Byte)
         /\ Len(buf') = Len(buf) + n
         /\ \A i \in 1 .. Len(buf) : buf'[i] = buf[i]
         /\ \A i \in 1 .. n : buf'[Len(buf) + i] = data[sent + i]
<1> DEFINE piece == SubSeq(data, sent + 1, sent + n)
<1>1. /\ buf \in Seq(Byte) /\ Len(buf) \in Nat /\ data \in Seq(Byte) /\ Len(data) \in Nat
      /\ sent \in Nat /\ n \in Nat \ {0}
  BY BufLenType DEF IInv, TypeOK
<1>2. sent + n <= Len(data) /\ buf' = buf \o piece
  BY DEF ReadData, Source!Deliver
<1>3. \A i \in sent + 1 .. sent + n : data[i] \in Byte
  BY <1>1, <1>2, ElementOfSeq
<1>4. sent + 1 \in Int /\ sent + n \in Int
  BY <1>1
<1>5. /\ piece \in Seq(Byte)
      /\ Len(piece) = IF sent + 1 <= sent + n THEN (sent + n) - (sent + 1) + 1 ELSE 0
      /\ \A i \in 1 .. (sent + n) - (sent + 1) + 1 : piece[i] = data[(sent + 1) + i - 1]
  BY <1>3, <1>4, SubSeqProperties
<1> HIDE DEF piece
<1>6. Len(piece) = n /\ \A i \in 1 .. n : piece[i] = data[sent + i]
  <2>1. Len(piece) = n
    BY <1>1, <1>5
  <2>2. ASSUME NEW i \in 1 .. n PROVE piece[i] = data[sent + i]
    <3>1. i \in 1 .. (sent + n) - (sent + 1) + 1 /\ (sent + 1) + i - 1 = sent + i
      BY <1>1
    <3> QED BY <1>5, <3>1
  <2> QED BY <2>1, <2>2
<1>7. /\ buf \o piece \in Seq(Byte)
      /\ Len(buf \o piece) = Len(buf) + Len(piece)
      /\ \A i \in 1 .. Len(buf) + Len(piece) :
           (buf \o piece)[i] = IF i <= Len(buf) THEN buf[i] ELSE piece[i - Len(buf)]
  BY <1>1, <1>5, ConcatProperties
<1>8. \A i \in 1 .. Len(buf) : buf'[i] = buf[i]
  BY <1>1, <1>2, <1>6, <1>7
<1>9. ASSUME NEW i \in 1 .. n PROVE buf'[Len(buf) + i] = data[sent + i]
  <2>1. Len(buf) + i \in 1 .. Len(buf) + Len(piece) /\ ~(Len(buf) + i <= Len(buf))
        /\ (Len(buf) + i) - Len(buf) = i
    BY <1>1, <1>6
  <2> QED BY <1>2, <1>6, <1>7, <2>1
<1> QED BY <1>2, <1>6, <1>7, <1>8, <1>9

LEMMA ReadDataInvariant ==
  ASSUME IInv, NEW n \in 1 .. BufLen - Len(buf), ReadData(n)
  PROVE  IInv'
<1>1. /\ start \in 0 .. Len(buf) /\ Len(buf) \in Nat /\ sent \in Nat /\ Len(buf) <= BufLen
      /\ bytes_in = sent /\ Len(buf) - start <= bytes_in /\ Len(data) \in Nat
      /\ BufLen \in Nat /\ n \in Nat
  BY BufLenType DEF IInv, TypeOK, WindowExact
<1>2. /\ sent + n <= Len(data) /\ buf' \in Seq(Byte) /\ Len(buf') = Len(buf) + n
      /\ \A i \in 1 .. Len(buf) : buf'[i] = buf[i]
      /\ \A i \in 1 .. n : buf'[Len(buf) + i] = data[sent + i]
  BY ReadDataAppends
<1>3. /\ UNCHANGED <<data, ending, start, eof, cut, trailing, frames, truncated, pc>>
      /\ sent' = sent + n /\ bytes_in' = bytes_in + n
  BY DEF ReadData, Source!Deliver, end_of_input, counts
<1>4. TypeOK'
  BY <1>1, <1>2, <1>3 DEF IInv, TypeOK
<1>5. WindowExact'
  <2>1. \A i \in start + 1 .. Len(buf) : buf[i] = data[Consumed + i - start]
    BY DEF IInv, WindowExact
  <2>2. /\ Consumed' = Consumed /\ Consumed \in Int
        /\ Consumed - start = sent - Len(buf)
    BY <1>1, <1>2, <1>3 DEF Consumed
  <2>3. ASSUME NEW i \in start + 1 .. Len(buf') PROVE buf'[i] = data[Consumed' + i - start]
    <3>1. CASE i <= Len(buf)
      <4>1. i \in start + 1 .. Len(buf) /\ i \in 1 .. Len(buf)
        BY <1>1, <1>2, <3>1
      <4> QED BY <1>2, <2>1, <2>2, <4>1
    <3>2. CASE ~(i <= Len(buf))
      <4> DEFINE j == i - Len(buf)
      <4>1. i \in Int /\ Len(buf) < i /\ i <= Len(buf) + n /\ Len(buf) \in Int /\ start \in Int
        BY <1>1, <1>2, <3>2
      <4>2. j \in 1 .. n /\ Len(buf) + j = i
        BY <1>1, <4>1
      <4>3. sent + j = Consumed' + i - start
        BY <1>1, <2>2, <4>1
      <4> QED BY <1>2, <4>2, <4>3
    <3> QED BY <3>1, <3>2
  <2> QED BY <1>1, <1>2, <1>3, <2>3 DEF WindowExact
<1>6. pc = "Reading" /\ ~ eof
  BY DEF ReadData, Reading, IInv
<1> QED BY <1>3, <1>4, <1>5, <1>6 DEF IInv

LEMMA ReadEndInvariant == IInv /\ ReadEnd => IInv'
<1> SUFFICES ASSUME IInv, ReadEnd PROVE IInv'
  OBVIOUS
<1>1. /\ UNCHANGED <<data, ending, sent, buf, start, frames, truncated, bytes_in>>
      /\ sent = Len(data) /\ eof' = TRUE /\ pc' = "Framing"
  BY DEF ReadEnd, Source!Finish, counts
<1>2. cut' \in BOOLEAN /\ trailing' \in Nat
  <2>1. ending.bytes \in Nat
    BY FramerAssumption DEF IInv, TypeOK
  <2> QED BY <2>1 DEF ReadEnd
<1>3. TypeOK'
  BY <1>1, <1>2 DEF IInv, TypeOK
<1>4. WindowExact'
  BY <1>1 DEF IInv, WindowExact, Consumed
<1> QED BY <1>1, <1>3, <1>4 DEF IInv

LEMMA ReadFailsInvariant == IInv /\ ReadFails => IInv'
<1> SUFFICES ASSUME IInv, ReadFails PROVE IInv'
  OBVIOUS
<1>1. /\ UNCHANGED <<data, ending, sent, buf, start, eof, cut, trailing, frames, truncated, bytes_in>>
      /\ pc' \in {pc, "Returned"}
  BY DEF ReadFails, Source!Fail, Return, counts, end_of_input
<1>2. TypeOK'
  BY <1>1 DEF IInv, TypeOK
<1>3. WindowExact'
  BY <1>1 DEF IInv, WindowExact, Consumed
<1> QED BY <1>1, <1>2, <1>3 DEF IInv

LEMMA StutterInvariant == IInv /\ UNCHANGED vars => IInv'
BY DEF IInv, TypeOK, WindowExact, Consumed, vars, source, counts, end_of_input

LEMMA StepInvariant == IInv /\ [Next]_vars => IInv'
<1> SUFFICES ASSUME IInv, [Next]_vars PROVE IInv'
  OBVIOUS
<1>1. CASE Call
  BY <1>1, CallInvariant
<1>2. CASE Step
  BY <1>2, TakeFrameInvariant, TakeEndInvariant, RefillInvariant, FilledInvariant DEF Step
<1>3. CASE ReadProgress
  BY <1>3, ReadDataInvariant, ReadEndInvariant DEF ReadProgress
<1>4. CASE ReadFails
  BY <1>4, ReadFailsInvariant
<1>5. CASE UNCHANGED vars
  BY <1>5, StutterInvariant
<1> QED BY <1>1, <1>2, <1>3, <1>4, <1>5 DEF Next

LEMMA Invariance == Spec => []IInv
BY InitInvariant, StepInvariant, PTL DEF Spec

-----------------------------------------------------------------------------
(* The promise                                                             *)

\* The window holds a whole frame exactly when the rest of the input starts
\* with one that has been read.
LEMMA FrameInInput ==
  ASSUME IInv
  PROVE  /\ FrameBuffered => Promise!FrameAt(Consumed)
         /\ eof /\ ~ FrameBuffered => ~ Promise!FrameAt(Consumed)
<1>1. /\ start \in Nat /\ Len(buf) \in Nat /\ sent \in Nat /\ start <= Len(buf)
      /\ bytes_in = sent /\ sent <= Len(data) /\ Len(data) \in Nat
  BY DEF IInv, TypeOK, WindowExact
<1>2. Consumed = sent - Len(buf) + start
  BY <1>1 DEF Consumed
<1>3. ASSUME FrameBuffered PROVE Promise!FrameAt(Consumed)
  <2>1. start + 2 <= Len(buf) /\ start + 2 + Announced <= Len(buf)
    BY <1>3 DEF FrameBuffered
  <2>2. Announced \in Nat /\ Promise!Announced(Consumed) = Announced
    BY <2>1, AnnouncedInWindow
  <2>3. Consumed + 2 <= Len(data) /\ Consumed + 2 + Announced <= Len(data)
    BY <1>1, <1>2, <2>1, <2>2
  <2> QED BY <2>2, <2>3 DEF Promise!FrameAt
<1>4. ASSUME eof, Promise!FrameAt(Consumed) PROVE FrameBuffered
  <2>1. sent = Len(data)
    BY <1>4 DEF IInv
  <2>2. Consumed + 2 <= Len(data) /\ Consumed + 2 + Promise!Announced(Consumed) <= Len(data)
    BY <1>4 DEF Promise!FrameAt
  <2>3. start + 2 <= Len(buf)
    BY <1>1, <1>2, <2>1, <2>2
  <2>4. Announced \in Nat /\ Promise!Announced(Consumed) = Announced
    BY <2>3, AnnouncedInWindow
  <2>5. start + 2 + Announced <= Len(buf)
    BY <1>1, <1>2, <2>1, <2>2, <2>4
  <2> QED BY <2>3, <2>5 DEF FrameBuffered
<1> QED BY <1>3, <1>4

\* The payload in the window is the payload in the input.
LEMMA PayloadInInput ==
  ASSUME IInv, FrameBuffered
  PROVE  SubSeq(buf, start + 3, start + 2 + Announced) =
           SubSeq(data, Consumed + 3, Consumed + 2 + Announced)
<1> DEFINE here == SubSeq(buf, start + 3, start + 2 + Announced)
           there == SubSeq(data, Consumed + 3, Consumed + 2 + Announced)
<1>1. /\ start \in Nat /\ Len(buf) \in Nat /\ sent \in Nat /\ start <= Len(buf)
      /\ bytes_in = sent /\ sent <= Len(data) /\ Len(data) \in Nat
      /\ buf \in Seq(Byte) /\ data \in Seq(Byte)
  BY DEF IInv, TypeOK, WindowExact
<1>2. start + 2 <= Len(buf) /\ start + 2 + Announced <= Len(buf)
  BY DEF FrameBuffered
<1>3. Announced \in Nat /\ Consumed \in Nat
  BY <1>2, AnnouncedInWindow
<1>4. Consumed = sent - Len(buf) + start
  BY <1>1 DEF Consumed
<1>5. \A i \in start + 1 .. Len(buf) : buf[i] = data[Consumed + i - start]
  BY DEF IInv, WindowExact
<1> DEFINE k == Announced
           c == Consumed
<1>6. k \in Nat /\ c \in Nat
  BY <1>3
<1>7. \A i \in start + 3 .. start + 2 + k : buf[i] \in Byte
  BY <1>1, <1>2, <1>6, ElementOfSeq
<1>8. \A i \in c + 3 .. c + 2 + k : data[i] \in Byte
  BY <1>1, <1>2, <1>4, <1>6, ElementOfSeq
<1>9. start + 3 \in Int /\ start + 2 + k \in Int /\ c + 3 \in Int /\ c + 2 + k \in Int
  BY <1>1, <1>6
<1>10. /\ here \in Seq(Byte)
       /\ Len(here) = IF start + 3 <= start + 2 + k THEN (start + 2 + k) - (start + 3) + 1 ELSE 0
       /\ \A i \in 1 .. (start + 2 + k) - (start + 3) + 1 : here[i] = buf[(start + 3) + i - 1]
  BY <1>7, <1>9, SubSeqProperties
<1>11. /\ there \in Seq(Byte)
       /\ Len(there) = IF c + 3 <= c + 2 + k THEN (c + 2 + k) - (c + 3) + 1 ELSE 0
       /\ \A i \in 1 .. (c + 2 + k) - (c + 3) + 1 : there[i] = data[(c + 3) + i - 1]
  BY <1>8, <1>9, SubSeqProperties
<1> HIDE DEF here, there
<1>12. Len(here) = k /\ Len(there) = k
  BY <1>1, <1>6, <1>10, <1>11
<1>13. ASSUME NEW i \in 1 .. k PROVE here[i] = there[i]
  <2>1. /\ i \in 1 .. (start + 2 + k) - (start + 3) + 1
        /\ i \in 1 .. (c + 2 + k) - (c + 3) + 1
    BY <1>1, <1>6
  <2>2. /\ (start + 3) + i - 1 \in start + 1 .. Len(buf)
        /\ c + ((start + 3) + i - 1) - start = (c + 3) + i - 1
    BY <1>1, <1>2, <1>6
  <2> QED BY <1>5, <1>10, <1>11, <2>1, <2>2
<1>14. here = there
  BY <1>10, <1>11, <1>12, <1>13, SeqEqual
<1> QED BY <1>14 DEF here, there

LEMMA PromisedInit == Init => Promise!Init
<1> SUFFICES ASSUME Init PROVE Promise!Init
  OBVIOUS
<1>1. Len(buf) = 0
  BY EmptySeq DEF Init
<1>2. Consumed = 0 - (0 - 0)
  BY <1>1 DEF Init, Consumed
<1>3. Consumed = 0
  BY <1>2, SMT
<1> QED BY <1>3 DEF Init, Promise!Init

LEMMA PromisedTakeFrame == IInv /\ TakeFrame => Promise!TakeFrame
<1> SUFFICES ASSUME IInv, TakeFrame PROVE Promise!TakeFrame
  OBVIOUS
<1>1. FrameBuffered /\ start + 2 <= Len(buf)
  BY DEF TakeFrame, FrameBuffered
<1>2. Promise!FrameAt(Consumed)
  BY <1>1, FrameInInput
<1>3. Announced \in Nat /\ Promise!Announced(Consumed) = Announced
  BY <1>1, AnnouncedInWindow
<1>4. start \in Nat /\ Len(buf) \in Nat /\ bytes_in \in Nat
  BY DEF IInv, TypeOK, WindowExact
<1>5. Consumed' = Consumed + 2 + Announced
  BY <1>3, <1>4 DEF Consumed, TakeFrame
<1>6. result' = Promise!Frame(SubSeq(data, Consumed + 3, Consumed + 2 + Announced))
  BY <1>1, PayloadInInput DEF TakeFrame, Return
<1> QED BY <1>2, <1>3, <1>5, <1>6 DEF Promise!TakeFrame, TakeFrame, source

LEMMA PromisedTakeEnd == IInv /\ TakeEnd => Promise!TakeEnd
<1> SUFFICES ASSUME IInv, TakeEnd PROVE Promise!TakeEnd
  OBVIOUS
<1>1. ~ Promise!FrameAt(Consumed)
  BY FrameInInput DEF TakeEnd
<1>2. /\ start \in Nat /\ Len(buf) \in Nat /\ bytes_in = Len(data) /\ start <= Len(buf)
      /\ Len(data) \in Nat
  BY DEF IInv, TypeOK, WindowExact, TakeEnd
<1>3. Consumed' = Len(data)
  BY <1>2 DEF Consumed, TakeEnd
<1>4. start < Len(buf) <=> Consumed < Len(data)
  BY <1>2 DEF Consumed
<1> QED BY <1>1, <1>3, <1>4 DEF Promise!TakeEnd, TakeEnd, Return, source

\* The steps of a call that return nothing leave the promise where it was.
LEMMA PromisedStutter ==
  IInv /\ (Call \/ Refill \/ Filled \/ ReadProgress \/ UNCHANGED vars) => UNCHANGED Promise!vars
<1> SUFFICES ASSUME IInv, Call \/ Refill \/ Filled \/ ReadProgress \/ UNCHANGED vars
             PROVE  UNCHANGED Promise!vars
  OBVIOUS
<1>1. /\ start \in Nat /\ Len(buf) \in Nat /\ bytes_in \in Nat
  BY DEF IInv, TypeOK, WindowExact
<1>2. CASE Call \/ Filled \/ UNCHANGED vars
  BY <1>2 DEF Call, Filled, vars, source, counts, Promise!vars, Consumed
<1>3. CASE Refill
  <2>1. Consumed' = Consumed
    BY <1>1, <1>3, RefillMoves DEF Consumed, Refill
  <2> QED BY <1>3, <2>1 DEF Refill, source, counts, Promise!vars
<1>4. CASE ReadProgress
  <2>1. CASE ReadEnd
    BY <2>1 DEF ReadEnd, counts, Promise!vars, Consumed
  <2>2. ASSUME NEW n \in 1 .. BufLen - Len(buf), ReadData(n) PROVE UNCHANGED Promise!vars
    <3>1. Consumed' = Consumed
      <4>1. n \in Nat
        BY <1>1, BufLenType
      <4>2. Len(buf') = Len(buf) + n /\ bytes_in' = bytes_in + n /\ start' = start
        BY <2>2, ReadDataAppends DEF ReadData
      <4> QED BY <1>1, <4>1, <4>2 DEF Consumed
    <3> QED BY <2>2, <3>1 DEF ReadData, counts, Promise!vars
  <2> QED BY <1>4, <2>1, <2>2 DEF ReadProgress
<1> QED BY <1>2, <1>3, <1>4

LEMMA PromisedFail == IInv /\ ReadFails => Promise!Fail \/ UNCHANGED Promise!vars
BY DEF ReadFails, Return, counts, Promise!Fail, Promise!vars, Consumed

LEMMA PromisedStep ==
  IInv /\ [Next]_vars => [Promise!Advance \/ Promise!Fail]_Promise!vars
BY PromisedTakeFrame, PromisedTakeEnd, PromisedStutter, PromisedFail
   DEF Next, Step, Promise!Advance

-----------------------------------------------------------------------------
(* The theorems                                                            *)

\* Type correctness of the streaming framer.
THEOREM TypeCorrect == Spec => []TypeOK
<1>1. IInv => TypeOK
  BY DEF IInv
<1> QED BY Invariance, <1>1, PTL

(***************************************************************************)
(* The window is exact: after any reads of any lengths, any moves of the   *)
(* window and any failed calls, it holds the bytes of the input that end   *)
(* at the byte count.                                                      *)
(***************************************************************************)
THEOREM WindowCorrect == Spec => []WindowExact
<1>1. IInv => WindowExact
  BY DEF IInv
<1> QED BY Invariance, <1>1, PTL

\* Both together: the framer stays in step with its byte counts.
THEOREM StaysInStep == Spec => []InStep
BY TypeCorrect, WindowCorrect, PTL DEF InStep

(***************************************************************************)
(* The streaming framer implements the in-memory framer: same frames, same *)
(* end, same counts, whatever pieces the source delivers.                  *)
(***************************************************************************)
THEOREM ImplementsSliceFrames == Spec => KeepsPromise
BY PromisedInit, PromisedStep, Invariance, PTL DEF Spec, KeepsPromise, Promise!Spec

-----------------------------------------------------------------------------
(* The report of the end                                                   *)

\* The strengthening: the flags are set with the end of the source, and once the
\* tail is discarded, or the end reported, the window stays empty.
EndInv ==
  /\ eof => cut = (ending.kind = "Cut") /\ trailing = ending.bytes
  /\ truncated \in {0, 1}
  /\ truncated = 1 \/ result = Promise!End => eof /\ start = Len(buf)

LEMMA InitEnd == Init => EndInv
BY DEF Init, EndInv, Promise!NotCalled, Promise!End

LEMMA StepEnd == IInv /\ EndInv /\ [Next]_vars => EndInv'
<1> SUFFICES ASSUME IInv, EndInv, [Next]_vars PROVE EndInv'
  OBVIOUS
<1>1. /\ start \in Nat /\ Len(buf) \in Nat /\ start <= Len(buf) /\ ending \in Endings
      /\ pc = "Reading" => ~ eof
  BY DEF IInv, TypeOK
<1>2. CASE TakeFrame
  <2>1. start < Len(buf)
    BY <1>1, <1>2 DEF TakeFrame, FrameBuffered
  <2>2. result' # Promise!End
    BY <1>2 DEF TakeFrame, Return, Promise!Frame, Promise!End
  <2> QED BY <1>2, <2>1, <2>2 DEF EndInv, TakeFrame, source, end_of_input
<1>3. CASE TakeEnd
  BY <1>1, <1>3 DEF EndInv, TakeEnd, source, end_of_input
<1>4. CASE Refill
  BY <1>4 DEF EndInv, Refill, source, end_of_input, counts
<1>5. CASE ReadEnd
  <2>1. ~ eof
    BY <1>1, <1>5 DEF ReadEnd, Reading
  <2>2. /\ ending.kind \in {"Eof", "Cut", "Trailing"}
        /\ ending.kind # "Trailing" => ending.bytes = 0
    BY <1>1, FramerAssumption
  <2>3. UNCHANGED <<ending, truncated, result>>
    BY <1>5 DEF ReadEnd, Source!Finish, counts
  <2>4. cut' = (ending.kind = "Cut") /\ trailing' = ending.bytes
    BY <1>5, <2>2 DEF ReadEnd
  <2> QED BY <2>1, <2>3, <2>4 DEF EndInv
<1>6. ASSUME NEW n \in 1 .. BufLen - Len(buf), ReadData(n) PROVE EndInv'
  BY <1>1, <1>6 DEF EndInv, ReadData, Reading, Source!Deliver, end_of_input, counts
<1>7. CASE ReadFails
  <2>1. result' = result \/ result' = Promise!Error
    BY <1>7 DEF ReadFails, Return
  <2>2. UNCHANGED <<ending, truncated, eof, cut, trailing, start, buf>>
    BY <1>7 DEF ReadFails, Source!Fail, end_of_input, counts
  <2> QED BY <2>1, <2>2 DEF EndInv, Promise!Error, Promise!End
<1>8. CASE Call \/ Filled \/ UNCHANGED vars
  BY <1>8 DEF EndInv, Call, Filled, vars, source, end_of_input, counts
<1> QED BY <1>2, <1>3, <1>4, <1>5, <1>6, <1>7, <1>8 DEF Next, Step, ReadProgress

(***************************************************************************)
(* When the framer reports the end, every byte of the input was taken, the *)
(* flags tell how the source ended, and at most one message was cut.       *)
(***************************************************************************)
THEOREM EndIsTrue == Spec => []EndReported
<1>1. IInv /\ EndInv => EndReported
  <2> SUFFICES ASSUME IInv, EndInv, result = Promise!End
               PROVE  /\ Consumed = Len(data)
                      /\ cut = (ending.kind = "Cut")
                      /\ trailing = ending.bytes
                      /\ truncated <= 1
    BY DEF EndReported
  <2>1. eof /\ start = Len(buf) /\ truncated <= 1
    BY DEF EndInv
  <2>2. Len(buf) \in Nat /\ bytes_in = Len(data) /\ Len(data) \in Nat
    BY <2>1 DEF IInv, TypeOK, WindowExact
  <2>3. Consumed = Len(data)
    BY <2>1, <2>2 DEF Consumed
  <2> QED BY <2>1, <2>3 DEF EndInv
<1> QED BY Invariance, InitEnd, StepEnd, <1>1, PTL DEF Spec
=============================================================================
