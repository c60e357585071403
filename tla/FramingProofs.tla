----------------------------- MODULE FramingProofs -----------------------------
(***************************************************************************)
(* Proofs about Framing, for every buffer that holds a largest message and *)
(* every stream of frames: do_read cuts the stream at the frames and       *)
(* implements MessageStream.                                               *)
(***************************************************************************)
EXTENDS Framing, SequenceTheorems, TLAPS

\* Frames lie one behind the other in the stream, and a frame that ::read can make a
\* command of has content.
Layout ==
  /\ \A i \in 1..Len(frames) : frames[i].at = IF i = 1 THEN 0 ELSE End(frames[i - 1])
  /\ \A i, j \in 1..Len(frames) : i < j => End(frames[i]) <= frames[j].at
  /\ \A i \in 1..Len(frames) : End(frames[i]) <= Total
  /\ \A i \in 1..Len(frames) : frames[i].ok => Header < frames[i].size
  /\ Total \in 0..MaxBytes

\* No more was read, or handed on, than was sent.
Taken == got <= Total /\ Len(delivered) <= Len(frames)

IInv == TypeOK /\ Layout /\ Taken /\ Framed /\ NeverFull
-----------------------------------------------------------------------------
LEMMA WidthFacts ==
  ASSUME NEW size \in Size
  PROVE  /\ Width(size) \in Nat /\ Header <= Width(size)
         /\ Header <= size => Width(size) = size
BY FramingAssumption DEF Width

LEMMA EndFacts ==
  ASSUME NEW f \in Sending
  PROVE  /\ f.at \in Nat /\ f.size \in Size /\ f.size \in Nat
         /\ End(f) \in Nat /\ f.at < End(f)
<1>1. f.at \in 0..MaxBytes /\ f.size \in Size
  BY DEF Sending
<1>2. f.at \in Nat /\ f.size \in Nat
  <2>1. 0..MaxBytes \subseteq Nat
    OBVIOUS
  <2>2. Size \subseteq Nat
    BY FramingAssumption
  <2> QED
    BY <1>1, <2>1, <2>2, Zenon
<1>3. ASSUME NEW a \in Nat, NEW s \in Size PROVE a + Width(s) \in Nat /\ a < a + Width(s)
  BY WidthFacts, FramingAssumption
<1>4. End(f) = f.at + Width(f.size)
  BY DEF End
<1> QED
  BY <1>1, <1>2, <1>3, <1>4, Zenon

LEMMA OkBoolean == ASSUME NEW f \in Sending PROVE f.ok \in BOOLEAN
BY DEF Sending

LEMMA FramesFacts ==
  ASSUME TypeOK
  PROVE  /\ Len(frames) \in Nat /\ DOMAIN frames = 1..Len(frames)
         /\ \A i \in 1..Len(frames) : frames[i] \in Sending
         /\ frames = <<>> <=> Len(frames) = 0
         /\ Len(delivered) \in Nat
         /\ delivered = <<>> <=> Len(delivered) = 0
<1>1. frames \in Seq(Sending) /\ delivered \in Seq(Seq(0..MaxBytes))
  BY DEF TypeOK
<1> QED
  BY <1>1, ElementOfSeq, LenProperties, EmptySeq

LEMMA VectorType ==
  ASSUME TypeOK, NEW size \in Size, InRange(size), offset + size <= n
  PROVE  Vector(size) \in Seq(0..MaxBytes)
<1>1. size \in Nat /\ Header \in Nat /\ BufferSize \in Nat /\ size - Header \in Nat
  BY FramingAssumption DEF InRange
<1>2. ASSUME NEW j \in 1..(size - Header) PROVE buffer[offset + Header + j] \in 0..MaxBytes
  <2>1. offset \in Nat /\ n \in 0..BufferSize /\ buffer \in [1..BufferSize -> 0..MaxBytes]
    BY DEF TypeOK
  <2>2. offset + Header + j \in 1..BufferSize
    BY <1>1, <2>1
  <2> QED
    BY <2>1, <2>2
<1>3. Vector(size) \in [1..(size - Header) -> 0..MaxBytes]
  BY <1>2 DEF Vector
<1> QED
  BY <1>1, <1>3, SeqDef

-----------------------------------------------------------------------------
\* The frame whose header is at offset, while a whole header is there: it is the one
\* after those that were handed on.
LEMMA NextFrame ==
  ASSUME TypeOK, Layout, Taken, Framed, pc = "parsing", HasHeader
  PROVE  /\ Len(delivered) + 1 \in 1..Len(frames)
         /\ frames[Len(delivered) + 1].at = Start
         /\ Start \in Nat
         /\ got = Start + (n - offset)
         /\ \A k \in 1..(n - offset) : buffer[offset + k] = Start + k
<1> DEFINE d == Len(delivered)
<1>1. d \in Nat /\ Len(frames) \in Nat /\ d <= Len(frames)
      /\ \A i \in 1..Len(frames) : frames[i] \in Sending
  BY FramesFacts DEF Taken
<1>2. n - offset \in Nat /\ n - offset >= 1
  BY FramingAssumption DEF TypeOK, HasHeader
<1>3. /\ got = Start + (n - offset)
      /\ \A k \in 1..(n - offset) : buffer[offset + k] = Start + k
  BY DEF Framed, Low, High
<1>4. delivered = <<>> <=> d = 0
  BY FramesFacts
<1>5. Start \in Nat
  <2>1. CASE d = 0
    BY <2>1, <1>4 DEF Start
  <2>2. CASE d # 0
    BY <2>2, <1>1, <1>4, EndFacts DEF Start
  <2> QED
    BY <2>1, <2>2
<1>6. d # Len(frames)
  <2> SUFFICES ASSUME d = Len(frames) PROVE FALSE
    OBVIOUS
  <2>1. frames = <<>> <=> Len(frames) = 0
    BY FramesFacts
  <2>2. Start = Total
    BY <2>1, <1>4 DEF Start, Total
  <2> QED
    BY <2>2, <1>2, <1>3, <1>5 DEF Taken, TypeOK
<1>7. frames[d + 1].at = Start
  <2>1. d + 1 \in 1..Len(frames)
    BY <1>1, <1>6
  <2>2. frames[d + 1].at = IF d + 1 = 1 THEN 0 ELSE End(frames[d])
    BY <2>1, <1>1 DEF Layout
  <2> QED
    BY <2>2, <1>1, <1>4 DEF Start
<1> QED
  BY <1>1, <1>3, <1>5, <1>6, <1>7

\* A frame is known by the position at which it begins.
LEMMA FrameAt ==
  ASSUME TypeOK, Layout, NEW i \in 1..Len(frames), NEW j \in 1..Len(frames),
         frames[i].at = frames[j].at
  PROVE  i = j
<1>1. frames[i] \in Sending /\ frames[j] \in Sending
  BY FramesFacts
<1>2. frames[i].at < End(frames[i]) /\ frames[j].at < End(frames[j])
  BY <1>1, EndFacts
<1>3. End(frames[i]) \in Nat /\ End(frames[j]) \in Nat /\ frames[i].at \in Nat
  BY <1>1, EndFacts
<1> QED
  BY <1>2, <1>3 DEF Layout

\* So the size that is read is the one the next frame was sent with ...
LEMMA DeclaredSize ==
  ASSUME TypeOK, Layout, Taken, Framed, pc = "parsing", HasHeader
  PROVE  Declared = {frames[Len(delivered) + 1].size}
<1> DEFINE next == Len(delivered) + 1
           found == {i \in DOMAIN frames : HeaderAt(frames[i])}
<1>1. /\ next \in 1..Len(frames) /\ frames[next].at = Start /\ Start \in Nat
      /\ \A k \in 1..(n - offset) : buffer[offset + k] = Start + k
  BY NextFrame
<1>2. Header \in Nat /\ 1 <= Header /\ Header <= n - offset /\ n \in Nat /\ offset \in Nat
  BY FramingAssumption DEF HasHeader, TypeOK
<1>3. DOMAIN frames = 1..Len(frames)
  BY FramesFacts
<1>4. HeaderAt(frames[next])
  BY <1>1, <1>2 DEF HeaderAt
<1>5. ASSUME NEW i \in 1..Len(frames), HeaderAt(frames[i]) PROVE i = next
  <2>1. buffer[offset + 1] = frames[i].at + 1 /\ buffer[offset + 1] = Start + 1
    BY <1>1, <1>2, <1>5 DEF HeaderAt
  <2>2. frames[i].at \in Nat /\ frames[next].at \in Nat
    BY <1>1, FramesFacts, EndFacts
  <2>3. frames[i].at = frames[next].at
    BY <2>1, <2>2, <1>1
  <2> QED
    BY <2>3, <1>1, FrameAt
<1>6. found = {next}
  BY <1>1, <1>3, <1>4, <1>5
<1> QED
  BY <1>6 DEF Declared

\* ... and the vector that is copied is its content, which ::read takes for what it is.
LEMMA VectorRead ==
  ASSUME TypeOK, Layout, Taken, Framed, pc = "parsing", HasHeader,
         NEW size \in Declared, InRange(size), Complete(size)
  PROVE  /\ Vector(size) = Payload(frames[Len(delivered) + 1])
         /\ Accepts(Vector(size)) = {frames[Len(delivered) + 1].ok}
<1> DEFINE next == Len(delivered) + 1
           found == {i \in DOMAIN frames : Vector(size) = Payload(frames[i])}
<1>1. /\ next \in 1..Len(frames) /\ frames[next].at = Start /\ Start \in Nat
      /\ \A k \in 1..(n - offset) : buffer[offset + k] = Start + k
  BY NextFrame
<1>2. size = frames[next].size
  BY DeclaredSize
<1>3. size \in Size /\ size \in Nat /\ Header <= size /\ Width(size) = size
      /\ size <= n - offset /\ n - offset \in Nat /\ Header \in Nat /\ offset \in Nat
  <2>1. size \in Size /\ size \in Nat
    BY <1>1, <1>2, FramesFacts, EndFacts
  <2>2. Header <= size /\ Width(size) = size
    BY <2>1, WidthFacts DEF InRange
  <2>3. n \in Nat /\ offset \in 0..n /\ size <= n - offset /\ Header \in Nat
    BY FramingAssumption DEF TypeOK, Complete
  <2> QED
    BY <2>1, <2>2, <2>3
<1>4. Vector(size) = Payload(frames[next])
  <2>1. ASSUME NEW j \in 1..(size - Header)
        PROVE  buffer[offset + Header + j] = (Start + Header) + j
    <3>1. Header + j \in 1..(n - offset) /\ offset + Header + j = offset + (Header + j)
          /\ (Start + Header) + j = Start + (Header + j)
      BY <1>1, <1>3
    <3> QED
      BY <3>1, <1>1
  <2>2. Payload(frames[next]) = [j \in 1..(size - Header) |-> (Start + Header) + j]
    BY <1>1, <1>2, <1>3 DEF Payload, Bytes
  <2> QED
    BY <2>1, <2>2 DEF Vector
<1>5. DOMAIN frames = 1..Len(frames)
  BY FramesFacts
<1>6. ASSUME NEW i \in 1..Len(frames), Vector(size) = Payload(frames[i])
      PROVE  frames[i].ok = frames[next].ok
  <2> DEFINE w == Width(frames[i].size)
  <2>1. frames[i].at \in Nat /\ frames[i].size \in Size /\ frames[i].size \in Nat
        /\ w \in Nat /\ Header <= w
    BY FramesFacts, EndFacts, WidthFacts
  <2>2. Bytes(frames[i].at + Header, w - Header) = Bytes(frames[next].at + Header, size - Header)
    BY <1>2, <1>3, <1>4, <1>6 DEF Payload
  <2>3. w - Header \in Nat /\ size - Header \in Nat
    BY <1>3, <2>1
  <2>4. w = size
    <3>1. 1..(w - Header) = 1..(size - Header)
      BY <2>2 DEF Bytes
    <3> QED
      BY <3>1, <2>1, <2>3, <1>3
  <2>5. CASE size = Header
    <3>1. ~frames[next].ok
      BY <2>5, <1>1, <1>2, <1>3 DEF Layout
    <3>2. ~frames[i].ok
      <4>1. frames[i].ok => Header < frames[i].size
        BY DEF Layout
      <4>2. Header < frames[i].size => w = frames[i].size
        BY <2>1, <1>3, WidthFacts, FramingAssumption
      <4> QED
        BY <4>1, <4>2, <2>4, <2>5, <1>3
    <3>3. frames[i].ok \in BOOLEAN /\ frames[next].ok \in BOOLEAN
      BY <1>1, FramesFacts, OkBoolean
    <3> QED
      BY <3>1, <3>2, <3>3, Zenon
  <2>6. CASE size # Header
    <3>1. 1 \in 1..(size - Header)
      BY <2>6, <1>3
    <3>2. Bytes(frames[i].at + Header, w - Header)[1] = frames[i].at + Header + 1
          /\ Bytes(frames[next].at + Header, size - Header)[1] = frames[next].at + Header + 1
      BY <3>1, <2>4 DEF Bytes
    <3>3. frames[i].at = frames[next].at
      <4>1. frames[i].at + Header + 1 = frames[next].at + Header + 1
        BY <3>2, <2>2, Zenon
      <4>2. frames[next].at \in Nat /\ Header \in Nat
        BY <1>1, <1>3
      <4>3. \A a, b, h \in Nat : a + h + 1 = b + h + 1 => a = b
        OBVIOUS
      <4> QED
        BY <4>1, <4>2, <4>3, <2>1, Zenon
    <3> QED
      BY <3>3, <1>1, FrameAt
  <2> QED
    BY <2>5, <2>6
<1>7. next \in found
  BY <1>1, <1>4, <1>5
<1>8. {frames[i].ok : i \in found} = {frames[next].ok}
  BY <1>5, <1>6, <1>7
<1> QED
  BY <1>4, <1>7, <1>8 DEF Accepts

-----------------------------------------------------------------------------
\* A new frame is added at the end; those before it stay where they are.
LEMMA TransmitFacts ==
  ASSUME TypeOK, Layout, NEW size \in Size, NEW ok \in BOOLEAN, Transmit(size, ok)
  PROVE  /\ frames' \in Seq(Sending)
         /\ Len(frames') = Len(frames) + 1
         /\ \A i \in 1..Len(frames) : frames'[i] = frames[i]
         /\ frames'[Len(frames) + 1] = [at |-> Total, size |-> size, ok |-> ok]
         /\ Total' = Total + Width(size)
         /\ Total' \in 0..MaxBytes
<1> DEFINE f == [at |-> Total, size |-> size, ok |-> ok]
<1>1. frames \in Seq(Sending) /\ f \in Sending
  BY DEF TypeOK, Sending, Layout
<1>2. frames' = Append(frames, f)
  BY DEF Transmit
<1>3. /\ frames' \in Seq(Sending) /\ Len(frames') = Len(frames) + 1
      /\ \A i \in 1..Len(frames) : frames'[i] = frames[i]
      /\ frames'[Len(frames) + 1] = f /\ frames' # <<>>
  BY <1>1, <1>2, AppendProperties
<1>4. Total' = End(f)
  BY <1>3 DEF Total, End
<1>5. End(f) = Total + Width(size)
  BY DEF End
<1>6. Total + Width(size) \in 0..MaxBytes
  BY WidthFacts, FramingAssumption DEF Layout, Transmit
<1> QED
  BY <1>3, <1>4, <1>5, <1>6

LEMMA TransmitLayout ==
  ASSUME TypeOK, Layout, NEW size \in Size, NEW ok \in BOOLEAN, Transmit(size, ok)
  PROVE  Layout'
<1> DEFINE l == Len(frames)
           f == [at |-> Total, size |-> size, ok |-> ok]
<1>1. /\ Len(frames') = l + 1 /\ l \in Nat
      /\ \A i \in 1..l : frames'[i] = frames[i]
      /\ frames'[l + 1] = f
      /\ Total' = Total + Width(size) /\ Total' \in 0..MaxBytes
  BY TransmitFacts, FramesFacts
<1>2. f.at = Total /\ f.size = size /\ f.ok = ok /\ End(f) = Total + Width(size)
  BY DEF End
<1>3. Total \in Nat /\ Width(size) \in Nat
  BY WidthFacts DEF Layout
<1>4. \A i \in 1..l : End(frames[i]) \in Nat /\ frames[i].at \in Nat
  BY FramesFacts, EndFacts
<1>5. \A i \in 1..(l + 1) : i \in 1..l \/ i = l + 1
  BY <1>1
<1>6. ASSUME NEW i \in 1..(l + 1) PROVE frames'[i].at = IF i = 1 THEN 0 ELSE End(frames'[i - 1])
  <2>1. CASE i \in 1..l
    <3>1. frames'[i].at = frames[i].at
      BY <2>1, <1>1
    <3>2. frames[i].at = IF i = 1 THEN 0 ELSE End(frames[i - 1])
      BY <2>1 DEF Layout
    <3>3. i # 1 => frames'[i - 1] = frames[i - 1]
      BY <2>1, <1>1
    <3> QED
      BY <3>1, <3>2, <3>3
  <2>2. CASE i = l + 1
    <3>1. frames'[i].at = Total
      BY <2>2, <1>1, <1>2
    <3>2. CASE l = 0
      <4>1. Total = 0
        BY <3>2, FramesFacts DEF Total
      <4> QED
        BY <2>2, <3>1, <3>2, <4>1
    <3>3. CASE l # 0
      <4>1. Total = End(frames[l])
        BY <3>3, FramesFacts DEF Total
      <4>2. frames'[i - 1] = frames[l] /\ i # 1
        BY <2>2, <3>3, <1>1
      <4> QED
        BY <3>1, <4>1, <4>2
    <3> QED
      BY <3>2, <3>3
  <2> QED
    BY <2>1, <2>2, <1>5
<1>7. ASSUME NEW i \in 1..(l + 1), NEW j \in 1..(l + 1), i < j PROVE End(frames'[i]) <= frames'[j].at
  <2>1. i \in 1..l /\ frames'[i] = frames[i]
    BY <1>1, <1>7
  <2>2. CASE j \in 1..l
    BY <2>1, <2>2, <1>1, <1>7 DEF Layout
  <2>3. CASE j = l + 1
    <3>1. frames'[j].at = Total
      BY <2>3, <1>1, <1>2
    <3> QED
      BY <2>1, <3>1 DEF Layout
  <2> QED
    BY <2>2, <2>3, <1>5
<1>8. ASSUME NEW i \in 1..(l + 1) PROVE End(frames'[i]) <= Total'
  <2>1. CASE i \in 1..l
    <3>1. End(frames[i]) <= Total /\ End(frames[i]) \in Nat
      BY <2>1, <1>4 DEF Layout
    <3>2. \A a, b, c \in Nat : a <= b => a <= b + c
      OBVIOUS
    <3> QED
      BY <2>1, <3>1, <3>2, <1>1, <1>3, Zenon
  <2>2. CASE i = l + 1
    <3>1. End(frames'[i]) = Total'
      BY <2>2, <1>1, <1>2
    <3>2. Total' \in Nat
      BY <1>1, <1>3
    <3> QED
      BY <3>1, <3>2
  <2> QED
    BY <2>1, <2>2, <1>5
<1>9. ASSUME NEW i \in 1..(l + 1) PROVE frames'[i].ok => Header < frames'[i].size
  <2>1. CASE i \in 1..l
    BY <2>1, <1>1, Zenon DEF Layout
  <2>2. CASE i = l + 1
    <3>1. frames'[i].ok = ok /\ frames'[i].size = size
      BY <2>2, <1>1, <1>2, Zenon
    <3>2. ok => Header < size
      BY DEF Transmit
    <3> QED
      BY <3>1, <3>2, Zenon
  <2> QED
    BY <2>1, <2>2, <1>5
<1> QED
  BY <1>1, <1>6, <1>7, <1>8, <1>9 DEF Layout, End

-----------------------------------------------------------------------------
\* One lemma for each action: it keeps the invariant.
LEMMA TransmitKeeps ==
  ASSUME IInv, NEW size \in Size, NEW ok \in BOOLEAN, Transmit(size, ok)
  PROVE  IInv'
<1> USE DEF IInv
<1>1. /\ frames' \in Seq(Sending) /\ Len(frames') = Len(frames) + 1
      /\ \A i \in 1..Len(frames) : frames'[i] = frames[i]
      /\ Total' = Total + Width(size)
  BY TransmitFacts
<1>2. UNCHANGED <<got, buffer, unparsed, pc, n, offset, delivered, broken>>
  BY DEF Transmit, readVars
<1>3. TypeOK'
  BY <1>1, <1>2 DEF TypeOK
<1>4. Layout'
  BY TransmitLayout
<1>5. Taken'
  <2>1. Total \in Nat /\ Width(size) \in Nat /\ got \in Nat
    BY WidthFacts DEF Layout, TypeOK
  <2> QED
    BY <1>1, <1>2, <2>1, FramesFacts DEF Taken
<1>6. Start' = Start
  <2>1. CASE delivered = <<>>
    BY <2>1, <1>2 DEF Start
  <2>2. CASE delivered # <<>>
    <3>1. Len(delivered) \in 1..Len(frames)
      BY <2>2, FramesFacts DEF Taken
    <3>2. frames'[Len(delivered)] = frames[Len(delivered)]
      BY <1>1, <3>1
    <3> QED
      BY <2>2, <3>2, <1>2 DEF Start, End
  <2> QED
    BY <2>1, <2>2
<1>7. Framed' /\ NeverFull'
  BY <1>2, <1>6 DEF Framed, NeverFull, Low, High
<1> QED
  BY <1>3, <1>4, <1>5, <1>7

LEMMA BreakKeeps == ASSUME IInv, Break PROVE IInv'
<1> USE DEF IInv
<1>1. UNCHANGED <<frames, got, buffer, unparsed, pc, n, offset, delivered>> /\ broken' = TRUE
  BY DEF Break, readVars
<1>2. Total' = Total /\ Start' = Start /\ Low' = Low /\ High' = High
  BY <1>1 DEF Total, Start, End, Low, High
<1>3. TypeOK'
  BY <1>1 DEF TypeOK
<1>4. Layout' /\ Taken' /\ Framed' /\ NeverFull'
  BY <1>1, <1>2 DEF Layout, Taken, Framed, NeverFull, End
<1> QED
  BY <1>3, <1>4

\* Actions of the handler leave what was sent alone.
LEMMA LayoutStays == ASSUME Layout, UNCHANGED frames PROVE Layout' /\ Total' = Total
BY DEF Layout, Total, End

LEMMA ReadSomeKeeps == ASSUME IInv, ReadSome PROVE IInv'
<1> USE DEF IInv
<1>1. PICK k \in 0..(BufferSize - unparsed) :
        /\ got + k <= Total /\ got' = got + k
        /\ buffer' = [p \in 1..BufferSize |->
                        IF unparsed < p /\ p <= unparsed + k THEN got + (p - unparsed) ELSE buffer[p]]
        /\ n' = unparsed + k
  BY DEF ReadSome
<1>2. /\ pc = "reading" /\ pc' = "parsing" /\ offset' = 0
      /\ UNCHANGED <<frames, unparsed, delivered, broken>>
  BY DEF ReadSome
<1>3. Layout' /\ Total' = Total /\ Start' = Start
  BY <1>2, LayoutStays DEF Start, End
<1>4. /\ got \in Nat /\ unparsed \in Nat /\ k \in Nat /\ BufferSize \in Nat /\ MaxBytes \in Nat
      /\ unparsed + k <= BufferSize /\ Total \in 0..MaxBytes
      /\ buffer \in [1..BufferSize -> 0..MaxBytes]
  BY <1>1, FramingAssumption DEF TypeOK, Layout
<1>5. buffer' \in [1..BufferSize -> 0..MaxBytes]
  BY <1>1, <1>4
<1>6. TypeOK'
  <2>1. got' \in 0..MaxBytes /\ n' \in 0..BufferSize /\ offset' \in 0..n'
    BY <1>1, <1>2, <1>4
  <2> QED
    BY <1>2, <1>5, <2>1 DEF TypeOK
<1>7. Taken'
  BY <1>1, <1>2, <1>3 DEF Taken
<1>8. /\ got = Start + unparsed
      /\ \A i \in 1..unparsed : buffer[i] = Start + i
  BY <1>2, <1>4 DEF Framed, Low, High
<1>9. Start \in Nat
  <2>1. CASE delivered = <<>>
    BY <2>1 DEF Start
  <2>2. CASE delivered # <<>>
    BY <2>2, FramesFacts, EndFacts DEF Start, Taken
  <2> QED
    BY <2>1, <2>2
<1>10. Framed'
  <2>1. Low' = 0 /\ High' = unparsed + k
    BY <1>1, <1>2 DEF Low, High
  <2>2. got' = Start + (unparsed + k)
    BY <1>1, <1>4, <1>8, <1>9
  <2>3. ASSUME NEW i \in 1..(unparsed + k) PROVE buffer'[i] = Start + i
    <3>1. CASE i <= unparsed
      BY <3>1, <1>1, <1>4, <1>8
    <3>2. CASE unparsed < i
      <4>1. buffer'[i] = got + (i - unparsed)
        BY <3>2, <1>1, <1>4
      <4> QED
        BY <4>1, <1>4, <1>8, <1>9
    <3> QED
      BY <3>1, <3>2, <1>4
  <2> QED
    BY <2>1, <2>2, <2>3, <1>3, <1>4 DEF Framed
<1>11. NeverFull'
  BY <1>2 DEF NeverFull
<1> QED
  BY <1>3, <1>6, <1>7, <1>10, <1>11

\* Reading that has stopped: nothing is said of the buffer any more.
LEMMA StoppedKeeps ==
  ASSUME IInv, pc' = "stopped",
         UNCHANGED <<frames, got, buffer, unparsed, n, offset, delivered, broken>>
  PROVE  IInv'
<1> USE DEF IInv
<1>1. Layout' /\ Total' = Total
  BY LayoutStays
<1>2. TypeOK'
  BY DEF TypeOK
<1>3. Taken' /\ Framed' /\ NeverFull'
  BY <1>1 DEF Taken, Framed, NeverFull
<1> QED
  BY <1>1, <1>2, <1>3

LEMMA DeliverKeeps == ASSUME IInv, Deliver PROVE IInv'
<1> USE DEF IInv
<1> DEFINE next == Len(delivered) + 1
<1>1. PICK size \in Declared :
        /\ InRange(size) /\ Complete(size)
        /\ delivered' = Append(delivered, Vector(size)) /\ offset' = offset + size
  BY DEF Deliver
<1>2. pc = "parsing" /\ HasHeader /\ UNCHANGED <<frames, got, buffer, unparsed, pc, n, broken>>
  BY DEF Deliver
<1>3. /\ next \in 1..Len(frames) /\ frames[next].at = Start /\ Start \in Nat
      /\ got = Start + (n - offset)
      /\ \A k \in 1..(n - offset) : buffer[offset + k] = Start + k
  BY <1>2, NextFrame
<1>4. size = frames[next].size
  BY <1>2, DeclaredSize
<1>5. size \in Size /\ size \in Nat /\ Width(size) = size /\ size <= n - offset
      /\ n \in Nat /\ offset \in 0..n
  <2>1. size \in Size /\ size \in Nat
    BY <1>3, <1>4, FramesFacts, EndFacts
  <2>2. n \in Nat /\ offset \in 0..n
    BY FramingAssumption DEF TypeOK
  <2> QED
    BY <1>1, <2>1, <2>2, WidthFacts DEF InRange, Complete
<1>6. Layout' /\ Total' = Total
  BY <1>2, LayoutStays
<1>7. /\ delivered' \in Seq(Seq(0..MaxBytes)) /\ Len(delivered') = next /\ delivered' # <<>>
  <2>1. Vector(size) \in Seq(0..MaxBytes)
    BY <1>1, <1>5, VectorType
  <2>2. delivered \in Seq(Seq(0..MaxBytes))
    BY DEF TypeOK
  <2> QED
    BY <1>1, <2>1, <2>2, AppendProperties
<1>8. TypeOK'
  <2>1. offset' \in 0..n'
    BY <1>1, <1>2, <1>5
  <2> QED
    BY <1>2, <1>7, <2>1 DEF TypeOK
<1>9. Taken'
  BY <1>2, <1>3, <1>6, <1>7 DEF Taken
<1>10. Start' = Start + size
  <2>1. Start' = End(frames[next])
    BY <1>2, <1>7 DEF Start, End
  <2> QED
    BY <2>1, <1>3, <1>4, <1>5 DEF End
<1>11. Framed'
  <2>1. Low' = offset + size /\ High' = n
    BY <1>1, <1>2 DEF Low, High
  <2>2. got' = Start' + (n - (offset + size))
    BY <1>2, <1>3, <1>5, <1>10
  <2>3. ASSUME NEW k \in 1..(n - (offset + size))
        PROVE  buffer'[(offset + size) + k] = Start' + k
    <3>1. size + k \in 1..(n - offset) /\ (offset + size) + k = offset + (size + k)
          /\ (Start + size) + k = Start + (size + k)
      BY <1>3, <1>5
    <3> QED
      BY <3>1, <1>2, <1>3, <1>10
  <2> QED
    BY <2>1, <2>2, <2>3 DEF Framed
<1>12. NeverFull'
  BY <1>2 DEF NeverFull
<1> QED
  BY <1>6, <1>8, <1>9, <1>11, <1>12

LEMMA ReadAgainKeeps == ASSUME IInv, ReadAgain PROVE IInv'
<1> USE DEF IInv
<1>1. /\ pc = "parsing" /\ pc' \in {"reading", "stopped"}
      /\ unparsed' = n - offset
      /\ buffer' = [p \in 1..BufferSize |-> IF p <= n - offset THEN buffer[offset + p] ELSE buffer[p]]
      /\ UNCHANGED <<frames, got, n, offset, delivered, broken>>
  BY DEF ReadAgain, Compact
<1>2. HasHeader => \E size \in Declared : InRange(size) /\ ~Complete(size)
  BY DEF ReadAgain
<1>3. /\ n \in Nat /\ offset \in Nat /\ BufferSize \in Nat /\ MaxMessage \in Nat /\ Header \in Nat
      /\ n <= BufferSize /\ offset <= n /\ Header <= MaxMessage /\ MaxMessage <= BufferSize
      /\ buffer \in [1..BufferSize -> 0..MaxBytes]
  BY FramingAssumption DEF TypeOK
<1>4. Layout' /\ Total' = Total /\ Start' = Start
  BY <1>1, LayoutStays DEF Start, End
<1>5. /\ got = Start + (n - offset)
      /\ \A k \in 1..(n - offset) : buffer[offset + k] = Start + k
  BY <1>1 DEF Framed, Low, High
<1>6. buffer' \in [1..BufferSize -> 0..MaxBytes]
  BY <1>1, <1>3
<1>7. TypeOK'
  <2>1. unparsed' \in 0..BufferSize /\ offset' \in 0..n' /\ n' \in 0..BufferSize
    BY <1>1, <1>3
  <2> QED
    BY <1>1, <1>6, <2>1 DEF TypeOK
<1>8. Taken'
  BY <1>1, <1>4 DEF Taken
<1>9. Framed'
  <2> SUFFICES ASSUME pc' = "reading"
               PROVE  /\ got' = Start' + (n - offset)
                      /\ \A k \in 1..(n - offset) : buffer'[k] = Start' + k
    <3>1. Low' = 0 /\ (pc' # "parsing" => High' = unparsed')
      BY <1>1 DEF Low, High
    <3>2. 0 + (n - offset) = n - offset /\ unparsed' - 0 = n - offset
      BY <1>1, <1>3
    <3> QED
      BY <1>1, <3>1, <3>2 DEF Framed
  <2>1. got' = Start' + (n - offset)
    BY <1>1, <1>4, <1>5
  <2>2. ASSUME NEW k \in 1..(n - offset) PROVE buffer'[k] = Start' + k
    <3>1. k \in 1..BufferSize /\ k <= n - offset
      BY <1>3
    <3> QED
      BY <3>1, <1>1, <1>4, <1>5
  <2> QED
    BY <2>1, <2>2
<1>10. NeverFull'
  <2>1. n - offset < BufferSize
    <3>1. CASE ~HasHeader
      BY <3>1, <1>3 DEF HasHeader
    <3>2. CASE HasHeader
      <4>1. PICK size \in Declared : InRange(size) /\ ~Complete(size)
        BY <3>2, <1>2
      <4>2. size \in Nat
        BY <1>1, <3>2, DeclaredSize, NextFrame, FramesFacts, EndFacts
      <4> QED
        BY <4>1, <4>2, <1>3 DEF InRange, Complete
    <3> QED
      BY <3>1, <3>2
  <2> QED
    BY <2>1, <1>1 DEF NeverFull
<1> QED
  BY <1>4, <1>7, <1>8, <1>9, <1>10

-----------------------------------------------------------------------------
LEMMA InitIInv == Init => IInv
<1> SUFFICES ASSUME Init PROVE IInv
  OBVIOUS
<1>1. /\ frames = <<>> /\ delivered = <<>> /\ got = 0 /\ unparsed = 0 /\ n = 0 /\ offset = 0
      /\ pc = "reading" /\ broken = FALSE /\ buffer = [p \in 1..BufferSize |-> 0]
  BY DEF Init
<1>2. Total = 0 /\ Start = 0 /\ Low = 0 /\ High = 0
  BY <1>1 DEF Total, Start, Low, High
<1>3. Len(frames) = 0 /\ Len(delivered) = 0
  BY <1>1
<1>4. BufferSize \in Nat /\ 0 < BufferSize /\ MaxBytes \in Nat
  BY FramingAssumption
<1>5. TypeOK
  <2>1. frames \in Seq(Sending) /\ delivered \in Seq(Seq(0..MaxBytes))
    BY <1>1, EmptySeq
  <2>2. got \in 0..MaxBytes /\ unparsed \in 0..BufferSize /\ n \in 0..BufferSize /\ offset \in 0..n
    BY <1>1, <1>4
  <2>3. buffer \in [1..BufferSize -> 0..MaxBytes]
    BY <1>1, <1>4
  <2>4. broken \in BOOLEAN /\ pc \in {"reading", "parsing", "stopped"}
    BY <1>1
  <2> QED
    BY <2>1, <2>2, <2>3, <2>4 DEF TypeOK
<1>6. Layout
  BY <1>2, <1>3, <1>4 DEF Layout
<1>7. Taken /\ Framed /\ NeverFull
  BY <1>1, <1>2, <1>3, <1>4 DEF Taken, Framed, NeverFull
<1> QED
  BY <1>5, <1>6, <1>7 DEF IInv

LEMMA StepIInv == IInv /\ [Next]_vars => IInv'
<1> SUFFICES ASSUME IInv, [Next]_vars PROVE IInv'
  OBVIOUS
<1>1. ASSUME NEW size \in Size, NEW ok \in BOOLEAN, Transmit(size, ok) PROVE IInv'
  BY <1>1, TransmitKeeps
<1>2. CASE Break
  BY <1>2, BreakKeeps
<1>3. CASE ReadSome
  BY <1>3, ReadSomeKeeps
<1>4. CASE ReadFails
  BY <1>4, StoppedKeeps DEF ReadFails
<1>5. CASE Deliver
  BY <1>5, DeliverKeeps
<1>6. CASE Refuse
  BY <1>6, StoppedKeeps DEF Refuse
<1>7. CASE ReadAgain
  BY <1>7, ReadAgainKeeps
<1>8. CASE UNCHANGED vars
  BY <1>8 DEF vars, readVars, IInv, TypeOK, Layout, Taken, Framed, NeverFull, Total, Start, End, Low, High
<1> QED
  BY <1>1, <1>2, <1>3, <1>4, <1>5, <1>6, <1>7, <1>8 DEF Next, Handler

LEMMA InvariantHolds == Spec => []IInv
BY InitIInv, StepIInv, PTL DEF Spec

\* Every variable keeps its type: offsets stay within the buffer, and the offset of the
\* handler never passes the number of bytes it has (do_read, lines 120 to 158).
THEOREM TypeCorrect == Spec => []TypeOK
<1>1. IInv => TypeOK
  BY DEF IInv
<1> QED
  BY <1>1, InvariantHolds, PTL

\* The buffer always holds the stream from the start of the next frame, for every way to
\* cut up the bytes and every buffer that holds a largest message.
THEOREM StreamKept == Spec => []Framed
<1>1. IInv => Framed
  BY DEF IInv
<1> QED
  BY <1>1, InvariantHolds, PTL

\* async_read_some is never given an empty buffer, if only the buffer is as long as a
\* message may be: the code's factor of four is not needed for that.
THEOREM AlwaysSpace == Spec => []NeverFull
<1>1. IInv => NeverFull
  BY DEF IInv
<1> QED
  BY <1>1, InvariantHolds, PTL

-----------------------------------------------------------------------------
LEMMA SentFacts ==
  ASSUME IInv
  PROVE  /\ Sent \in Seq(Frame) /\ Len(Sent) = Len(frames)
         /\ \A i \in 1..Len(frames) :
              Sent[i].payload = Payload(frames[i]) /\ (Sent[i].good <=> Good(frames[i]))
<1> USE DEF IInv
<1>1. Len(frames) \in Nat /\ DOMAIN frames = 1..Len(frames)
  BY FramesFacts
<1>2. ASSUME NEW i \in 1..Len(frames)
      PROVE  [payload |-> Payload(frames[i]), good |-> Good(frames[i])] \in Frame
  <2>1. frames[i].at \in Nat /\ frames[i].size \in Size
    BY FramesFacts, EndFacts
  <2>2. frames[i].at + Header \in 0..MaxBytes
    <3>1. End(frames[i]) <= Total /\ Total \in 0..MaxBytes /\ MaxBytes \in Nat /\ Header \in Nat
      BY FramingAssumption DEF Layout
    <3>2. Width(frames[i].size) \in Nat /\ Header <= Width(frames[i].size)
      BY <2>1, WidthFacts
    <3>3. End(frames[i]) = frames[i].at + Width(frames[i].size)
      BY DEF End
    <3>4. \A a, w, h, t, m \in Nat : h <= w /\ a + w <= t /\ t <= m => a + h \in 0..m
      OBVIOUS
    <3> HIDE DEF IInv
    <3>5. Total \in Nat /\ Total <= MaxBytes
      BY <3>1
    <3> QED
      BY <2>1, <3>1, <3>2, <3>3, <3>4, <3>5, Zenon
  <2>3. Good(frames[i]) \in BOOLEAN
    BY DEF Good
  <2>4. Payload(frames[i]) = Bytes(frames[i].at + Header, Width(frames[i].size) - Header)
    BY DEF Payload
  <2>5. ASSUME NEW a \in 0..MaxBytes, NEW s \in Size PROVE Bytes(a, Width(s) - Header) \in Contents
    <3>1. Bytes(a, Width(s) - Header) \in {Bytes(x, Width(s) - Header) : x \in 0..MaxBytes}
      OBVIOUS
    <3> QED
      BY <3>1 DEF Contents
  <2>6. Payload(frames[i]) \in Contents
    BY <2>1, <2>2, <2>4, <2>5, Zenon
  <2> QED
    BY <2>3, <2>6, Zenon DEF Frame
<1>3. Sent \in [1..Len(frames) -> Frame]
  BY <1>1, <1>2, Zenon DEF Sent
<1>4. Sent \in Seq(Frame)
  BY <1>1, <1>3, SeqDef
<1>5. Len(Sent) = Len(frames)
  BY <1>1, <1>3, <1>4, LenProperties
<1>6. ASSUME NEW i \in 1..Len(frames)
      PROVE  Sent[i].payload = Payload(frames[i]) /\ (Sent[i].good <=> Good(frames[i]))
  BY <1>1, <1>6 DEF Sent
<1> QED
  BY <1>4, <1>5, <1>6

\* Each action of do_read is the action of the stream with the same purpose, or none.
LEMMA TransmitSends ==
  ASSUME IInv, IInv', NEW size \in Size, NEW ok \in BOOLEAN, Transmit(size, ok)
  PROVE  Stream!Send
<1> DEFINE l == Len(frames)
           m == Sent'[l + 1]
<1>1. /\ Len(frames') = l + 1 /\ l \in Nat
      /\ \A i \in 1..l : frames'[i] = frames[i]
  BY TransmitFacts, FramesFacts DEF IInv
<1>2. /\ Sent \in Seq(Frame) /\ Len(Sent) = l /\ DOMAIN Sent = 1..l
  BY SentFacts, LenProperties
<1>3. Sent' \in Seq(Frame) /\ Len(Sent') = l + 1
  <2>1. (Sent \in Seq(Frame) /\ Len(Sent) = Len(frames))'
    BY SentFacts, PTL
  <2> QED
    BY <2>1, <1>1
<1>4. m \in Frame
  BY <1>1, <1>3, ElementOfSeq
<1>5. ASSUME NEW i \in 1..l PROVE Sent'[i] = Sent[i]
  <2>1. i \in DOMAIN frames /\ i \in DOMAIN frames'
    <3>1. (DOMAIN frames = 1..Len(frames))'
      BY FramesFacts, PTL DEF IInv
    <3> QED
      BY <3>1, <1>1, FramesFacts DEF IInv
  <2> QED
    BY <2>1, <1>1 DEF Sent, Payload, Good
<1>6. Sent' = Append(Sent, m)
  BY <1>1, <1>2, <1>3, <1>4, <1>5, AppendProperties, LenProperties
<1> QED
  BY <1>4, <1>6 DEF Stream!Send, Transmit, readVars

\* While the handler has a header, the stream has a message due, and it is that frame's.
LEMMA NextDue ==
  ASSUME IInv, pc = "parsing", HasHeader
  PROVE  /\ Len(delivered) < Len(Sent)
         /\ Sent[Len(delivered) + 1].payload = Payload(frames[Len(delivered) + 1])
         /\ Sent[Len(delivered) + 1].good <=> Good(frames[Len(delivered) + 1])
<1>1. Len(delivered) + 1 \in 1..Len(frames)
  BY NextFrame DEF IInv
<1>2. Len(delivered) \in Nat /\ Len(frames) \in Nat
  BY FramesFacts DEF IInv
<1> QED
  BY <1>1, <1>2, SentFacts

LEMMA SentStays == ASSUME UNCHANGED frames PROVE Sent' = Sent
BY DEF Sent, Payload, Good

LEMMA DeliverDelivers == ASSUME IInv, Deliver PROVE Stream!Deliver
<1> DEFINE next == Len(delivered) + 1
<1>1. PICK size \in Declared :
        /\ InRange(size) /\ Complete(size) /\ TRUE \in Accepts(Vector(size))
        /\ delivered' = Append(delivered, Vector(size))
  BY DEF Deliver
<1>2. /\ pc = "parsing" /\ HasHeader /\ pc' = pc /\ broken' = broken /\ frames' = frames
  BY DEF Deliver
<1>3. Vector(size) = Payload(frames[next]) /\ Accepts(Vector(size)) = {frames[next].ok}
  BY <1>1, <1>2, VectorRead DEF IInv
<1>4. size = frames[next].size
  BY <1>2, DeclaredSize DEF IInv
<1>5. Good(frames[next])
  BY <1>1, <1>3, <1>4, Zenon DEF Good, InRange
<1>6. Sent' = Sent
  BY <1>2, SentStays
<1> QED
  BY <1>1, <1>2, <1>3, <1>5, <1>6, NextDue DEF Stream!Deliver, Stream!Due, Stream!Upcoming

LEMMA RefuseStops == ASSUME IInv, Refuse PROVE Stream!Stop
<1> DEFINE next == Len(delivered) + 1
<1>1. PICK size \in Declared :
        \/ ~InRange(size)
        \/ InRange(size) /\ Complete(size) /\ FALSE \in Accepts(Vector(size))
  BY DEF Refuse
<1>2. /\ pc = "parsing" /\ HasHeader /\ pc' = "stopped"
      /\ frames' = frames /\ delivered' = delivered /\ broken' = broken
  BY DEF Refuse
<1>3. size = frames[next].size
  BY <1>2, DeclaredSize DEF IInv
<1>4. ~Good(frames[next])
  <2>1. CASE ~InRange(size)
    BY <2>1, <1>3 DEF InRange, Good
  <2>2. CASE InRange(size) /\ Complete(size) /\ FALSE \in Accepts(Vector(size))
    <3>1. Accepts(Vector(size)) = {frames[next].ok}
      BY <2>2, <1>2, VectorRead DEF IInv
    <3> QED
      BY <2>2, <3>1, Zenon DEF Good
  <2> QED
    BY <1>1, <2>1, <2>2
<1>5. Sent' = Sent
  BY <1>2, SentStays
<1> QED
  BY <1>2, <1>4, <1>5, NextDue DEF Stream!Stop, Stream!Due, Stream!Upcoming

\* The initial states are initial states of the stream, and every step of do_read is a
\* step of the stream or changes nothing there.
LEMMA InitStream == Init => Stream!Init
<1> SUFFICES ASSUME Init PROVE Stream!Init
  OBVIOUS
<1>1. frames = <<>> /\ delivered = <<>> /\ broken = FALSE /\ pc = "reading"
  BY DEF Init
<1>2. Sent = <<>>
  BY <1>1 DEF Sent
<1> QED
  BY <1>1, <1>2 DEF Stream!Init

LEMMA StepStream == IInv /\ IInv' /\ [Next]_vars => [Stream!Next]_(Stream!vars)
<1> SUFFICES ASSUME IInv, IInv', [Next]_vars PROVE Stream!Next \/ UNCHANGED Stream!vars
  BY DEF Stream!vars
<1>1. ASSUME NEW size \in Size, NEW ok \in BOOLEAN, Transmit(size, ok) PROVE Stream!Send
  BY <1>1, TransmitSends
<1>2. CASE Break
  <2>1. broken' = TRUE /\ frames' = frames /\ delivered' = delivered /\ pc' = pc
    BY <1>2 DEF Break, readVars
  <2> QED
    BY <2>1, SentStays DEF Stream!Next, Stream!Break
<1>3. CASE ReadSome
  <2>1. frames' = frames /\ delivered' = delivered /\ broken' = broken /\ pc # "stopped" /\ pc' # "stopped"
    BY <1>3 DEF ReadSome
  <2> QED
    BY <2>1, SentStays DEF Stream!vars
<1>4. CASE ReadFails
  <2>1. /\ frames' = frames /\ delivered' = delivered /\ broken' = broken
        /\ broken /\ pc # "stopped" /\ pc' = "stopped"
    BY <1>4 DEF ReadFails
  <2> QED
    BY <2>1, SentStays DEF Stream!Next, Stream!Stop
<1>5. CASE Deliver
  BY <1>5, DeliverDelivers DEF Stream!Next
<1>6. CASE Refuse
  BY <1>6, RefuseStops DEF Stream!Next
<1>7. CASE ReadAgain
  <2>1. /\ frames' = frames /\ delivered' = delivered /\ broken' = broken /\ pc # "stopped"
        /\ pc' = "reading" \/ (broken /\ pc' = "stopped")
    BY <1>7 DEF ReadAgain
  <2>2. CASE pc' = "reading"
    BY <2>1, <2>2, SentStays DEF Stream!vars
  <2>3. CASE broken /\ pc' = "stopped"
    BY <2>1, <2>3, SentStays DEF Stream!Next, Stream!Stop
  <2> QED
    BY <2>1, <2>2, <2>3
<1>8. CASE UNCHANGED vars
  BY <1>8, SentStays DEF vars, readVars, Stream!vars
<1> QED
  BY <1>1, <1>2, <1>3, <1>4, <1>5, <1>6, <1>7, <1>8 DEF Next, Handler, Stream!Next

\* do_read implements the message stream, for every way to cut up the bytes.
THEOREM Implementation == Spec => Implements
<1>1. Spec => []IInv
  BY InvariantHolds
<1> QED
  BY <1>1, InitStream, StepStream, PTL DEF Spec, Implements, Stream!Spec
=============================================================================
