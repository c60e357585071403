----------------------------- MODULE ProtocolProofs -----------------------------
(***************************************************************************)
(* Proofs about Protocol for every number of byte values and any vector.   *)
(***************************************************************************)
EXTENDS Protocol, TLAPS, SequenceTheorems

Type == {GET, SET, GET_RESPONSE}
Fieldwise == [type : Type, key : Seq(Byte), id : Byte,
              reads : Byte, writes : Byte, value : Seq(Byte)]
Place == {"type", "key", "id", "reads", "writes", "value", "end", "accepted", "refused"}

\* What the reader works with.
Reader ==
  /\ side \in {"server", "client"}
  /\ input \in Seq(Byte) /\ offset \in 0..Len(input)
  /\ at \in Place /\ cmd \in Fieldwise

LEMMA Numbers ==
  /\ Base \in Nat /\ Base > 2 /\ MaxInput \in Nat /\ MaxString \in Nat /\ MaxString < Base * Base
  /\ GET = 0 /\ SET = 1 /\ GET_RESPONSE = 2 /\ LengthSize = 2
  /\ Type \subseteq Byte
BY ProtocolAssumption DEF GET, SET, GET_RESPONSE, LengthSize, Type, Byte

LEMMA Concatenated ==
  ASSUME NEW s \in Seq(Byte), NEW t \in Seq(Byte)
  PROVE  /\ s \o t \in Seq(Byte) /\ Len(s \o t) = Len(s) + Len(t)
         /\ Len(s) \in Nat /\ Len(t) \in Nat
         /\ \A i \in 1..Len(s) : (s \o t)[i] = s[i]
         /\ \A i \in 1..Len(t) : (s \o t)[Len(s) + i] = t[i]
<1>1. /\ s \o t \in Seq(Byte) /\ Len(s \o t) = Len(s) + Len(t)
      /\ Len(s) \in Nat /\ Len(t) \in Nat
      /\ \A i \in 1..(Len(s) + Len(t)) : (s \o t)[i] = IF i <= Len(s) THEN s[i] ELSE t[i - Len(s)]
  BY ConcatProperties, LenProperties
<1>2. \A i \in 1..Len(s) : (s \o t)[i] = s[i]
  BY <1>1
<1>3. ASSUME NEW i \in 1..Len(t) PROVE (s \o t)[Len(s) + i] = t[i]
  <2>1. Len(s) + i \in 1..(Len(s) + Len(t)) /\ ~(Len(s) + i <= Len(s)) /\ (Len(s) + i) - Len(s) = i
    BY <1>1
  <2> QED
    BY <1>1, <2>1
<1> QED
  BY <1>1, <1>2, <1>3

LEMMA BytePair ==
  ASSUME NEW x \in Byte, NEW y \in Byte
  PROVE  /\ x + Base * y \in Nat
         /\ (x + Base * y) % Base = x /\ (x + Base * y) \div Base = y
<1> DEFINE n == x + Base * y
<1>1. Base \in Nat /\ Base > 2 /\ x \in Nat /\ y \in Nat /\ x < Base
  BY Numbers DEF Byte
<1>2. Base * y \in Nat
  BY <1>1
<1>3. n \in Nat
  BY <1>1, <1>2
<1>4. n = Base * (n \div Base) + (n % Base) /\ n % Base \in 0..(Base - 1) /\ n \div Base \in Nat
  BY <1>1, <1>3
<1> DEFINE d == n \div Base  r == n % Base
<1>5. /\ Base * d + r = x + Base * y /\ r \in Nat /\ r < Base /\ d \in Nat
      /\ Base * d \in Nat
  BY <1>1, <1>4
<1> HIDE DEF d, r
<1>6. ~(d > y)
  <2> SUFFICES ASSUME d > y PROVE FALSE
    OBVIOUS
  <2>1. PICK e \in Nat : d = y + 1 + e
    <3>1. d - y - 1 \in Nat /\ d = y + 1 + (d - y - 1)
      BY <1>1, <1>5
    <3> QED
      BY <3>1
  <2>2. Base * d = Base * y + Base + Base * e /\ Base * e \in Nat
    BY <1>1, <2>1
  <2> QED
    BY <1>1, <1>2, <1>5, <2>2
<1>7. ~(d < y)
  <2> SUFFICES ASSUME d < y PROVE FALSE
    OBVIOUS
  <2>1. PICK e \in Nat : y = d + 1 + e
    <3>1. y - d - 1 \in Nat /\ y = d + 1 + (y - d - 1)
      BY <1>1, <1>5
    <3> QED
      BY <3>1
  <2>2. Base * y = Base * d + Base + Base * e /\ Base * e \in Nat
    BY <1>1, <1>5, <2>1
  <2> QED
    BY <1>1, <1>2, <1>5, <2>2
<1>8. d = y
  BY <1>1, <1>5, <1>6, <1>7
<1>9. r = x
  BY <1>1, <1>2, <1>5, <1>8
<1> QED
  BY <1>3, <1>8, <1>9 DEF d, r

\* What WriteString writes, for a string that is not too long.
LEMMA StringWritten ==
  ASSUME NEW s \in Seq(Byte), Len(s) \div Base \in Byte
  PROVE  /\ WriteString(s) \in Seq(Byte) /\ Len(WriteString(s)) = LengthSize + Len(s)
         /\ WriteString(s)[1] = Len(s) % Base /\ WriteString(s)[2] = Len(s) \div Base
         /\ \A i \in 1..Len(s) : WriteString(s)[LengthSize + i] = s[i]
<1>1. Len(s) \in Nat
  BY LenProperties
<1>2. Len(s) % Base \in Byte
  BY <1>1, Numbers DEF Byte
<1> DEFINE h == <<Len(s) % Base, Len(s) \div Base>>
<1>3. h \in Seq(Byte) /\ Len(h) = 2 /\ h[1] = Len(s) % Base /\ h[2] = Len(s) \div Base
  BY <1>2
<1> HIDE DEF h
<1>4. /\ h \o s \in Seq(Byte) /\ Len(h \o s) = 2 + Len(s)
      /\ \A i \in 1..2 : (h \o s)[i] = h[i]
      /\ \A i \in 1..Len(s) : (h \o s)[2 + i] = s[i]
  BY <1>3, Concatenated
<1>5. WriteString(s) = h \o s
  BY DEF WriteString, h
<1>6. 1 \in 1..2 /\ 2 \in 1..2
  OBVIOUS
<1> QED
  BY <1>3, <1>4, <1>5, <1>6, Numbers

-----------------------------------------------------------------------------
(* What the reader sees.                                                   *)

LEMMA PeekFacts ==
  ASSUME Reader, NEW n \in Nat, Room(n)
  PROVE  /\ \A i \in 1..n : Peek(i) = input[offset + i] /\ Peek(i) \in Byte
         /\ offset + n \in 0..Len(input)
<1>1. input \in Seq(Byte) /\ offset \in Nat /\ Len(input) \in Nat /\ offset + n <= Len(input)
  BY LenProperties DEF Reader, Room
<1>2. ASSUME NEW i \in 1..n PROVE Peek(i) = input[offset + i] /\ Peek(i) \in Byte
  <2>1. offset + i <= Len(input) /\ offset + i \in 1..Len(input)
    BY <1>1
  <2>2. input[offset + i] \in Byte
    BY <1>1, <2>1, ElementOfSeq
  <2> QED
    BY <2>1, <2>2 DEF Peek
<1> QED
  BY <1>1, <1>2

\* The string that ReadString takes.
LEMMA StringRead ==
  ASSUME Reader, Room(LengthSize), StringFits,
         NEW s, s = [i \in 1..StringLength |-> Peek(LengthSize + i)]
  PROVE  /\ StringLength \in Nat /\ s \in Seq(Byte) /\ Len(s) = StringLength
         /\ offset + (LengthSize + StringLength) \in 0..Len(input)
         /\ Len(s) % Base = input[offset + 1] /\ Len(s) \div Base = input[offset + 2]
         /\ Len(s) \div Base \in Byte
         /\ \A i \in 1..Len(s) : s[i] = input[offset + (LengthSize + i)]
<1>1. /\ Peek(1) = input[offset + 1] /\ Peek(1) \in Byte
      /\ Peek(2) = input[offset + 2] /\ Peek(2) \in Byte
  <2>1. LengthSize \in Nat /\ 1 \in 1..LengthSize /\ 2 \in 1..LengthSize
    BY Numbers
  <2> QED
    BY <2>1, PeekFacts
<1>2. /\ StringLength \in Nat /\ StringLength % Base = input[offset + 1]
      /\ StringLength \div Base = input[offset + 2] /\ StringLength \div Base \in Byte
  BY <1>1, BytePair DEF StringLength
<1> DEFINE n == LengthSize + StringLength
<1>3. n \in Nat /\ Room(n)
  BY <1>2, Numbers DEF StringFits
<1>4. /\ \A i \in 1..n : Peek(i) = input[offset + i] /\ Peek(i) \in Byte
      /\ offset + n \in 0..Len(input)
  <2> HIDE DEF n
  <2> QED
    BY <1>3, PeekFacts
<1>5. \A i \in 1..StringLength :
        /\ Peek(LengthSize + i) = input[offset + (LengthSize + i)]
        /\ Peek(LengthSize + i) \in Byte
  <2>1. \A i \in 1..StringLength : LengthSize + i \in 1..n
    BY <1>2, Numbers
  <2> QED
    BY <1>4, <2>1
<1>6. s \in Seq(Byte) /\ DOMAIN s = 1..StringLength
  BY <1>2, <1>5, SeqDef
<1>7. Len(s) = StringLength
  BY <1>2, <1>6, LenProperties
<1> QED
  BY <1>2, <1>4, <1>5, <1>6, <1>7

LEMMA FieldsTyped ==
  ASSUME NEW t \in Type, NEW i \in Byte
  PROVE  /\ Fields(t, <<>>, i, 0, 0, <<>>) \in Fieldwise
         /\ Fields(t, <<>>, i, 0, 0, <<>>).type = t
<1>1. 0 \in Byte /\ <<>> \in Seq(Byte)
  BY Numbers, EmptySeq DEF Byte
<1> QED
  BY <1>1 DEF Fields, Fieldwise
\* A command begins with its type and key, a response goes on with three numbers.
KeyPart(c) == <<c.type>> \o WriteString(c.key)
Triple(c)  == <<c.id, c.reads, c.writes>>

\* Strings whose length fits into the two bytes of a length.
Short(c) == Len(c.key) \div Base \in Byte /\ Len(c.value) \div Base \in Byte

LEMMA Joined ==
  ASSUME NEW s \in Seq(Byte), NEW t \in Seq(Byte), NEW m \in Nat, NEW n \in Nat,
         Len(s) = m, Len(t) = n, NEW l, l = m + n
  PROVE  s \o t \in Seq(Byte) /\ Len(s \o t) = l
BY Concatenated

LEMMA ContentFacts ==
  ASSUME NEW c \in Fieldwise, Short(c)
  PROVE  /\ <<c.type>> \in Seq(Byte) /\ Len(<<c.type>>) = 1 /\ <<c.type>>[1] = c.type
         /\ <<c.id>> \in Seq(Byte) /\ Len(<<c.id>>) = 1 /\ <<c.id>>[1] = c.id
         /\ Triple(c) \in Seq(Byte) /\ Len(Triple(c)) = 3 /\ Triple(c)[1] = c.id
              /\ Triple(c)[2] = c.reads /\ Triple(c)[3] = c.writes
         /\ WriteString(c.key) \in Seq(Byte) /\ Len(WriteString(c.key)) = 2 + Len(c.key)
         /\ WriteString(c.value) \in Seq(Byte) /\ Len(WriteString(c.value)) = 2 + Len(c.value)
         /\ KeyPart(c) \in Seq(Byte) /\ Len(KeyPart(c)) = 3 + Len(c.key)
         /\ KeyPart(c) \o Triple(c) \in Seq(Byte) /\ Len(KeyPart(c) \o Triple(c)) = 6 + Len(c.key)
         /\ Len(c.key) \in Nat /\ Len(c.value) \in Nat
         /\ c.type = GET => /\ Content(c) = KeyPart(c) \o <<c.id>>
                           /\ Len(Content(c)) = 4 + Len(c.key)
         /\ c.type = SET => /\ Content(c) = KeyPart(c) \o WriteString(c.value)
                           /\ Len(Content(c)) = 5 + Len(c.key) + Len(c.value)
         /\ c.type = GET_RESPONSE =>
              /\ Content(c) = (KeyPart(c) \o Triple(c)) \o WriteString(c.value)
              /\ Len(Content(c)) = 8 + Len(c.key) + Len(c.value)
         /\ Content(c) \in Seq(Byte) /\ Len(Content(c)) = Size(c) - LengthSize
<1>0. GET # SET /\ GET # GET_RESPONSE /\ SET # GET_RESPONSE
  BY Numbers
<1>1. /\ c.type \in Type /\ c.type \in Byte /\ c.key \in Seq(Byte) /\ c.value \in Seq(Byte)
      /\ c.id \in Byte /\ c.reads \in Byte /\ c.writes \in Byte
  BY Numbers DEF Fieldwise
<1>10. PICK K \in Nat, V \in Nat : Len(c.key) = K /\ Len(c.value) = V
  BY <1>1, LenProperties
<1>2. /\ <<c.type>> \in Seq(Byte) /\ Len(<<c.type>>) = 1 /\ <<c.type>>[1] = c.type
      /\ <<c.id>> \in Seq(Byte) /\ Len(<<c.id>>) = 1 /\ <<c.id>>[1] = c.id
  BY <1>1
<1>3. /\ Triple(c) \in Seq(Byte) /\ Len(Triple(c)) = 3 /\ Triple(c)[1] = c.id
      /\ Triple(c)[2] = c.reads /\ Triple(c)[3] = c.writes
  BY <1>1 DEF Triple
<1>4. /\ WriteString(c.key) \in Seq(Byte) /\ Len(WriteString(c.key)) = 2 + K
      /\ WriteString(c.value) \in Seq(Byte) /\ Len(WriteString(c.value)) = 2 + V
      /\ K \in Nat /\ V \in Nat
  BY <1>1, <1>10, StringWritten, Numbers DEF Short
<1>5. KeyPart(c) \in Seq(Byte) /\ Len(KeyPart(c)) = 3 + K
  <2>1. <<c.type>> \o WriteString(c.key) \in Seq(Byte)
          /\ Len(<<c.type>> \o WriteString(c.key)) = 1 + (2 + K)
    BY <1>2, <1>4, Concatenated
  <2> QED
    BY <1>4, <2>1 DEF KeyPart
<1>6. KeyPart(c) \o Triple(c) \in Seq(Byte) /\ Len(KeyPart(c) \o Triple(c)) = 6 + K
  <2> DEFINE x == KeyPart(c)  y == Triple(c)
  <2>1. 3 + K \in Nat /\ 3 \in Nat /\ 6 + K = (3 + K) + 3
    BY <1>4
  <2>2. x \in Seq(Byte) /\ Len(x) = 3 + K /\ y \in Seq(Byte) /\ Len(y) = 3
    BY <1>3, <1>5, Zenon
  <2> HIDE DEF x, y
  <2>3. x \o y \in Seq(Byte) /\ Len(x \o y) = Len(x) + Len(y)
    BY <2>2, Concatenated
  <2>4. Len(x \o y) = 6 + K
    BY <2>1, <2>2, <2>3
  <2> QED
    BY <2>3, <2>4, Zenon DEF x, y
<1>7. ASSUME c.type = GET
      PROVE  /\ Content(c) = KeyPart(c) \o <<c.id>> /\ Content(c) \in Seq(Byte)
             /\ Len(Content(c)) = 4 + K
             /\ Len(Content(c)) = Size(c) - LengthSize
  <2>1. Content(c) = KeyPart(c) \o <<c.id>>
    BY <1>0, <1>7, Zenon DEF Content, KeyPart
  <2>2. KeyPart(c) \o <<c.id>> \in Seq(Byte) /\ Len(KeyPart(c) \o <<c.id>>) = 4 + K
    <3>1. /\ KeyPart(c) \o <<c.id>> \in Seq(Byte)
          /\ Len(KeyPart(c) \o <<c.id>>) = Len(KeyPart(c)) + Len(<<c.id>>)
      BY <1>2, <1>5, Concatenated
    <3> QED
      BY <1>4, <1>2, <1>5, <3>1
  <2>3. Size(c) = LengthSize + 1 + LengthSize + K + 1
    BY <1>0, <1>10, <1>7, Zenon DEF Size
  <2>4. Size(c) - LengthSize = 4 + K
    BY <1>4, <2>3, Numbers
  <2> QED
    BY <2>1, <2>2, <2>4
<1>8. ASSUME c.type = SET
      PROVE  /\ Content(c) = KeyPart(c) \o WriteString(c.value) /\ Content(c) \in Seq(Byte)
             /\ Len(Content(c)) = 5 + K + V
             /\ Len(Content(c)) = Size(c) - LengthSize
  <2>1. Content(c) = KeyPart(c) \o WriteString(c.value) 
    BY <1>0, <1>8, Zenon DEF Content, KeyPart
  <2>2. KeyPart(c) \o WriteString(c.value) \in Seq(Byte)
          /\ Len(KeyPart(c) \o WriteString(c.value)) = 5 + K + V
    <3>1. 3 + K \in Nat /\ 2 + V \in Nat /\ 5 + K + V = (3 + K) + (2 + V)
      BY <1>4
    <3> QED
      BY <1>4, <1>5, <3>1, Joined
  <2>3. Size(c) = LengthSize + 1 + LengthSize + K + LengthSize + V
    BY <1>0, <1>10, <1>8, Zenon DEF Size
  <2>4. Size(c) - LengthSize = 5 + K + V
    BY <1>4, <2>3, Numbers
  <2> QED
    BY <2>1, <2>2, <2>4
<1>9. ASSUME c.type = GET_RESPONSE
      PROVE  /\ Content(c) = (KeyPart(c) \o Triple(c)) \o WriteString(c.value)
             /\ Len(Content(c)) = 8 + K + V
             /\ Content(c) \in Seq(Byte) /\ Len(Content(c)) = Size(c) - LengthSize
  <2>1. Content(c) = (KeyPart(c) \o Triple(c)) \o WriteString(c.value)
    BY <1>0, <1>9, Zenon DEF Content, KeyPart, Triple
  <2>2. (KeyPart(c) \o Triple(c)) \o WriteString(c.value) \in Seq(Byte)
          /\ Len((KeyPart(c) \o Triple(c)) \o WriteString(c.value)) = 8 + K + V
    <3> DEFINE x == KeyPart(c) \o Triple(c)  y == WriteString(c.value)
    <3>1. 6 + K \in Nat /\ 2 + V \in Nat /\ 8 + K + V = (6 + K) + (2 + V)
      BY <1>4
    <3>2. x \in Seq(Byte) /\ Len(x) = 6 + K /\ y \in Seq(Byte) /\ Len(y) = 2 + V
      BY <1>4, <1>6, Zenon
    <3> HIDE DEF x, y
    <3>3. x \o y \in Seq(Byte) /\ Len(x \o y) = 8 + K + V
      BY <3>1, <3>2, Joined
    <3> QED
      BY <3>3, Zenon DEF x, y
  <2>3. Size(c) = LengthSize + 1 + LengthSize + K + 3 + LengthSize + V
    BY <1>0, <1>10, <1>9, Zenon DEF Size
  <2>4. Size(c) - LengthSize = 8 + K + V
    BY <1>4, <2>3, Numbers
  <2> QED
    BY <2>1, <2>2, <2>4
<1> QED
  BY <1>1, <1>10, <1>2, <1>3, <1>4, <1>5, <1>6, <1>7, <1>8, <1>9 DEF Type

LEMMA ShortString ==
  ASSUME NEW s \in String PROVE s \in Seq(Byte) /\ Len(s) \div Base \in Byte
<1>1. PICK n \in 0..MaxString : s \in [1..n -> Byte]
  BY DEF String
<1>2. n \in Nat /\ n < Base * Base /\ Base \in Nat /\ Base > 2 /\ Base * Base \in Nat
  BY <1>1, Numbers
<1>3. s \in Seq(Byte) /\ Len(s) = n
  BY <1>1, <1>2, SeqDef, LenProperties
<1> DEFINE d == n \div Base  r == n % Base
<1>4. n = Base * d + r /\ r \in Nat /\ d \in Nat
  BY <1>2
<1> HIDE DEF d, r
<1>5. ~(d >= Base)
  <2> SUFFICES ASSUME d >= Base PROVE FALSE
    OBVIOUS
  <2>1. PICK e \in Nat : d = Base + e
    <3>1. d - Base \in Nat /\ d = Base + (d - Base)
      BY <1>2, <1>4
    <3> QED
      BY <3>1
  <2>2. Base * d = Base * Base + Base * e /\ Base * e \in Nat
    BY <1>2, <2>1
  <2> QED
    BY <1>2, <1>4, <2>2
<1>6. d \in Byte
  BY <1>2, <1>4, <1>5 DEF Byte
<1> QED
  BY <1>3, <1>6 DEF d

\* The commands that are sent: what a type has no field for is as in every reader.
LEMMA CommandFacts ==
  ASSUME NEW c \in Command
  PROVE  /\ c \in Fieldwise /\ Short(c) /\ (c.type # SET => c.id # 0)
         /\ c.type = GET => c = Fields(GET, c.key, c.id, 0, 0, <<>>)
         /\ c.type = SET => c = Fields(SET, c.key, 0, 0, 0, c.value)
         /\ c.type = GET_RESPONSE =>
              c = Fields(GET_RESPONSE, c.key, c.id, c.reads, c.writes, c.value)
<1>1. 0 \in Byte /\ <<>> \in Seq(Byte) /\ Len(<<>>) \div Base \in Byte
  <2>1. Len(<<>>) = 0 /\ Base \in Nat /\ Base > 2
    BY Numbers, EmptySeq
  <2>2. 0 \div Base = 0
    BY <2>1
  <2> QED
    BY <2>1, <2>2, EmptySeq DEF Byte
<1>2. ASSUME NEW t \in Type, NEW k, NEW i \in Byte, NEW r \in Byte, NEW w \in Byte, NEW v,
             k \in Seq(Byte), Len(k) \div Base \in Byte, v \in Seq(Byte), Len(v) \div Base \in Byte
      PROVE  Fields(t, k, i, r, w, v) \in Fieldwise /\ Short(Fields(t, k, i, r, w, v))
  BY <1>2 DEF Fields, Fieldwise, Short
<1>3. \/ \E k \in String, i \in Byte \ {0} : c = Fields(GET, k, i, 0, 0, <<>>)
      \/ \E k \in String, v \in String : c = Fields(SET, k, 0, 0, 0, v)
      \/ \E k \in String, i \in Byte \ {0}, r \in Byte, w \in Byte, v \in String :
           c = Fields(GET_RESPONSE, k, i, r, w, v)
  <2>1. CASE c \in UNION {{Fields(GET, k, i, 0, 0, <<>>) : i \in Byte \ {0}} : k \in String}
    BY <2>1, Zenon
  <2>2. CASE c \in UNION {{Fields(SET, k, 0, 0, 0, v) : v \in String} : k \in String}
    BY <2>2, Zenon
  <2>3. CASE c \in {Fields(GET_RESPONSE, f[1], f[2], f[3], f[4], f[5]) :
                    f \in String \X (Byte \ {0}) \X Byte \X Byte \X String}
    <3>1. PICK f \in String \X (Byte \ {0}) \X Byte \X Byte \X String :
            c = Fields(GET_RESPONSE, f[1], f[2], f[3], f[4], f[5])
      BY <2>3, Zenon
    <3>2. /\ f[1] \in String /\ f[2] \in Byte \ {0} /\ f[3] \in Byte
          /\ f[4] \in Byte /\ f[5] \in String
      BY <3>1
    <3> QED
      BY <3>1, <3>2, Zenon
  <2> QED
    BY <2>1, <2>2, <2>3, Zenon DEF Command
<1>4. GET \in Type /\ SET \in Type /\ GET_RESPONSE \in Type
        /\ GET # SET /\ GET # GET_RESPONSE /\ SET # GET_RESPONSE
  BY Numbers DEF Type
<1>5. ASSUME NEW k \in String, NEW i \in Byte \ {0}, c = Fields(GET, k, i, 0, 0, <<>>)
      PROVE  /\ c \in Fieldwise /\ Short(c) /\ c.type = GET /\ c.id # 0
             /\ c = Fields(GET, c.key, c.id, 0, 0, <<>>)
  <2>1. c.type = GET /\ c.key = k /\ c.id = i
    BY <1>5 DEF Fields
  <2> QED
    BY <1>1, <1>2, <1>4, <1>5, <2>1, ShortString
<1>6. ASSUME NEW k \in String, NEW v \in String, c = Fields(SET, k, 0, 0, 0, v)
      PROVE  /\ c \in Fieldwise /\ Short(c) /\ c.type = SET
             /\ c = Fields(SET, c.key, 0, 0, 0, c.value)
  <2>1. c.type = SET /\ c.key = k /\ c.value = v
    BY <1>6 DEF Fields
  <2> QED
    BY <1>1, <1>2, <1>4, <1>6, <2>1, ShortString
<1>7. ASSUME NEW k \in String, NEW i \in Byte \ {0}, NEW r \in Byte, NEW w \in Byte,
             NEW v \in String, c = Fields(GET_RESPONSE, k, i, r, w, v)
      PROVE  /\ c \in Fieldwise /\ Short(c) /\ c.type = GET_RESPONSE /\ c.id # 0
             /\ c = Fields(GET_RESPONSE, c.key, c.id, c.reads, c.writes, c.value)
  <2>1. /\ c.type = GET_RESPONSE /\ c.key = k /\ c.id = i /\ c.reads = r /\ c.writes = w
        /\ c.value = v
    BY <1>7 DEF Fields
  <2> QED
    BY <1>2, <1>4, <1>7, <2>1, ShortString
<1> QED
  BY <1>3, <1>4, <1>5, <1>6, <1>7

\* The size that a command declares is that of what serialize writes.
LEMMA CutIsContent == ASSUME NEW c \in Command PROVE Cut(c) = Content(c) /\ Content(c) \in Seq(Byte)
<1>1. Content(c) \in Seq(Byte) /\ Len(Content(c)) = Size(c) - LengthSize
  BY CommandFacts, ContentFacts
<1>2. Len(Content(c)) \in Nat /\ Content(c) = [i \in 1..Len(Content(c)) |-> Content(c)[i]]
  BY <1>1, LenProperties
<1>3. Cut(c) = [i \in 1..Len(Content(c)) |-> IF i <= Len(Content(c)) THEN Content(c)[i] ELSE 0]
  BY <1>1 DEF Cut
<1>4. \A i \in 1..Len(Content(c)) : i <= Len(Content(c))
  BY <1>2
<1> QED
  BY <1>1, <1>2, <1>3, <1>4

-----------------------------------------------------------------------------
(* The type invariant.                                                     *)

\* The place in the command goes with its type.
PlaceOf ==
  /\ at \notin {"type", "refused"} => cmd.type \in Accepted(side)
  /\ at = "id" => cmd.type # SET
  /\ at \in {"reads", "writes"} => cmd.type = GET_RESPONSE
  /\ at = "value" => cmd.type # GET

LEMMA InitReader == Init => Reader /\ PlaceOf
<1> SUFFICES ASSUME Init PROVE Reader /\ PlaceOf
  OBVIOUS
<1>1. side \in {"server", "client"} /\ at = "type" /\ offset = 0
        /\ cmd = Fields(GET, <<>>, 0, 0, 0, <<>>)
  BY DEF Init
<1>2. cmd \in Fieldwise
  <2>1. GET \in Type /\ 0 \in Byte
    BY Numbers DEF Type, Byte
  <2> QED
    BY <1>1, <2>1, FieldsTyped
<1>3. input \in Seq(Byte)
  <2>1. ASSUME NEW c \in Command, input = Cut(c) PROVE input \in Seq(Byte)
    BY <2>1, CutIsContent
  <2>2. ASSUME NEW n \in 0..MaxInput, input \in [1..n -> Byte] PROVE input \in Seq(Byte)
    BY <2>2, Numbers, SeqDef
  <2> QED
    BY <2>1, <2>2 DEF Init
<1>4. Len(input) \in Nat /\ 0 \in 0..Len(input)
  BY <1>3, LenProperties
<1> QED
  BY <1>1, <1>2, <1>3, <1>4 DEF Reader, PlaceOf, Place

LEMMA StepReader == Reader /\ PlaceOf /\ [Next]_vars => Reader' /\ PlaceOf'
<1> SUFFICES ASSUME Reader, PlaceOf, [Next]_vars PROVE Reader' /\ PlaceOf'
  OBVIOUS
<1>1. CASE ReadType
  <2>1. Room(1) /\ 1 \in Nat /\ 1 \in 1..1
    BY <1>1 DEF ReadType
  <2>2. Peek(1) \in Byte /\ offset + 1 \in 0..Len(input)
    BY <2>1, PeekFacts
  <2>3. Peek(1) \in Accepted(side) /\ Accepted(side) \subseteq Type
    BY <1>1 DEF ReadType, Accepted, Type
  <2>4. PICK drawn \in Byte : cmd' = Fields(Peek(1), <<>>, drawn, 0, 0, <<>>)
    <3>1. 0 \in Byte
      BY Numbers DEF Byte
    <3> QED
      BY <1>1, <3>1 DEF ReadType
  <2>5. cmd' \in Fieldwise /\ cmd'.type = Peek(1)
    BY <2>3, <2>4, FieldsTyped
  <2>6. at' = "key" /\ offset' = offset + 1 /\ side' = side /\ input' = input
    BY <1>1 DEF ReadType
  <2> QED
    BY <2>2, <2>3, <2>5, <2>6 DEF Reader, PlaceOf, Place
<1>2. CASE ReadNumber
  <2>1. Room(1) /\ 1 \in Nat /\ 1 \in 1..1
    BY <1>2 DEF ReadNumber
  <2>2. Peek(1) \in Byte /\ offset + 1 \in 0..Len(input)
    BY <2>1, PeekFacts
  <2>3. cmd' \in Fieldwise /\ cmd'.type = cmd.type
    BY <1>2, <2>2 DEF ReadNumber, Reader, Fieldwise
  <2>4. offset' = offset + 1 /\ side' = side /\ input' = input /\ at' = After(at)
          /\ at \in {"id", "reads", "writes"}
    BY <1>2 DEF ReadNumber
  <2>5. cmd.type \in Accepted(side)
    BY <2>4 DEF PlaceOf
  <2>6. at' \in Place /\ PlaceOf'
    <3>1. CASE at = "id"
      <4>1. cmd.type # SET /\ at' = IF cmd.type = GET THEN "end" ELSE "reads"
        BY <2>4, <3>1 DEF After, PlaceOf
      <4>2. cmd.type = GET \/ cmd.type = GET_RESPONSE
        BY <4>1 DEF Reader, Fieldwise, Type
      <4> QED
        BY <2>3, <2>4, <2>5, <4>1, <4>2 DEF Place, PlaceOf
    <3>2. CASE at = "reads"
      BY <2>3, <2>4, <2>5, <3>2 DEF After, Place, PlaceOf
    <3>3. CASE at = "writes"
      <4>1. cmd.type = GET_RESPONSE
        BY <3>3 DEF PlaceOf
      <4> QED
        BY <2>3, <2>4, <2>5, <3>3, <4>1, Numbers DEF After, Place, PlaceOf
    <3> QED
      BY <2>4, <3>1, <3>2, <3>3
  <2> QED
    BY <2>2, <2>3, <2>4, <2>6 DEF Reader
<1>3. CASE ReadString
  <2>1. Room(LengthSize) /\ StringFits /\ at \in {"key", "value"}
    BY <1>3 DEF ReadString
  <2> DEFINE s == [i \in 1..StringLength |-> Peek(LengthSize + i)]
  <2>2. s \in Seq(Byte) /\ offset + (LengthSize + StringLength) \in 0..Len(input)
    BY <2>1, StringRead
  <2>3. cmd' = [cmd EXCEPT ![at] = s]
    BY <1>3 DEF ReadString
  <2> HIDE DEF s
  <2>4. cmd' \in Fieldwise /\ cmd'.type = cmd.type
    BY <2>1, <2>2, <2>3 DEF Reader, Fieldwise
  <2>5. offset' = offset + (LengthSize + StringLength) /\ side' = side /\ input' = input
          /\ at' = After(at)
    BY <1>3 DEF ReadString
  <2>6. cmd.type \in Accepted(side)
    BY <2>1 DEF PlaceOf
  <2>7. at' \in Place /\ PlaceOf'
    <3>1. CASE at = "key"
      <4>1. at' = IF cmd.type = SET THEN "value" ELSE "id"
        BY <2>5, <3>1 DEF After
      <4> QED
        BY <2>4, <2>5, <2>6, <4>1, Numbers DEF Place, PlaceOf
    <3>2. CASE at = "value"
      BY <2>4, <2>5, <2>6, <3>2 DEF After, Place, PlaceOf
    <3> QED
      BY <2>1, <3>1, <3>2
  <2> QED
    BY <2>2, <2>4, <2>5, <2>7 DEF Reader
<1>4. CASE Finish
  BY <1>4 DEF Finish, Reader, PlaceOf, Place
<1>5. CASE Throw
  BY <1>5 DEF Throw, Reader, PlaceOf, Place
<1>6. CASE UNCHANGED vars
  BY <1>6 DEF vars, Reader, PlaceOf
<1> QED
  BY <1>1, <1>2, <1>3, <1>4, <1>5, <1>6 DEF Next

\* What was serialised stays a set of commands.
LEMMA InitWritten == Init => written \subseteq Command
BY DEF Init
LEMMA StepWritten == [Next]_vars => written' = written
BY DEF Next, vars, ReadType, ReadNumber, ReadString, Finish, Throw

\* Types, and the bounds of every read: the memory_reader never passes the end of the
\* vector (memory_reader::read, ::read in net/protocol.cpp).
THEOREM TypeCorrect == Spec => []TypeOK
<1> DEFINE Inv == Reader /\ PlaceOf /\ written \subseteq Command
<1>1. Init => Inv
  BY InitReader, InitWritten
<1>2. Inv /\ [Next]_vars => Inv'
  BY StepReader, StepWritten
<1>3. Inv => TypeOK
  BY DEF Reader, TypeOK, Fieldwise, Type, Place
<1> QED
  BY <1>1, <1>2, <1>3, PTL DEF Spec

-----------------------------------------------------------------------------
(* What was consumed so far is what serialize writes for the fields read.  *)

\* p is what the vector begins with, and ends at o.
Match(p, o) == p \in Seq(Byte) /\ Len(p) = o /\ \A i \in 1..o : input[i] = p[i]

LEMMA Extend ==
  ASSUME NEW p, NEW o \in Nat, Match(p, o), NEW q \in Seq(Byte), NEW n \in Nat, Len(q) = n,
         \A i \in 1..n : input[o + i] = q[i]
  PROVE  Match(p \o q, o + n)
<1>1. p \in Seq(Byte) /\ Len(p) = o /\ \A i \in 1..o : input[i] = p[i]
  BY DEF Match
<1>2. /\ p \o q \in Seq(Byte) /\ Len(p \o q) = o + n
      /\ \A i \in 1..o : (p \o q)[i] = p[i]
      /\ \A i \in 1..n : (p \o q)[o + i] = q[i]
  BY <1>1, Concatenated
<1>3. ASSUME NEW i \in 1..(o + n) PROVE input[i] = (p \o q)[i]
  <2>1. CASE i <= o
    <3>1. i \in 1..o
      BY <2>1
    <3> QED
      BY <1>1, <1>2, <3>1
  <2>2. CASE ~(i <= o)
    <3>1. PICK j \in 1..n : i = o + j
      <4>1. i - o \in 1..n /\ i = o + (i - o)
        BY <2>2
      <4> QED
        BY <4>1
    <3> QED
      BY <1>2, <3>1
  <2> QED
    BY <2>1, <2>2
<1> QED
  BY <1>2, <1>3 DEF Match

\* A string that ReadString takes extends the match by what WriteString writes for it.
LEMMA ExtendString ==
  ASSUME Reader, Room(LengthSize), StringFits, NEW p, Match(p, offset),
         NEW s, s = [i \in 1..StringLength |-> Peek(LengthSize + i)]
  PROVE  Match(p \o WriteString(s), offset + (LengthSize + StringLength))
<1>1. /\ StringLength \in Nat /\ s \in Seq(Byte) /\ Len(s) = StringLength
      /\ Len(s) % Base = input[offset + 1] /\ Len(s) \div Base = input[offset + 2]
      /\ Len(s) \div Base \in Byte
      /\ \A i \in 1..Len(s) : s[i] = input[offset + (LengthSize + i)]
  BY StringRead
<1> DEFINE q == WriteString(s)
<1>2. /\ q \in Seq(Byte) /\ Len(q) = LengthSize + Len(s)
      /\ q[1] = Len(s) % Base /\ q[2] = Len(s) \div Base
      /\ \A i \in 1..Len(s) : q[LengthSize + i] = s[i]
  BY <1>1, StringWritten
<1> HIDE DEF q
<1> DEFINE n == LengthSize + StringLength
<1>3. n \in Nat /\ Len(q) = n /\ offset \in Nat
  BY <1>1, <1>2, Numbers DEF Reader
<1>4. ASSUME NEW i \in 1..n PROVE input[offset + i] = q[i]
  <2>1. CASE i = 1
    BY <1>1, <1>2, <2>1
  <2>2. CASE i = 2
    BY <1>1, <1>2, <2>2
  <2>3. CASE i # 1 /\ i # 2
    <3>1. PICK j \in 1..StringLength : i = LengthSize + j
      <4>1. i - 2 \in 1..StringLength /\ i = LengthSize + (i - 2)
        BY <1>1, <2>3, Numbers
      <4> QED
        BY <4>1
    <3> QED
      BY <1>1, <1>2, <3>1
  <2> QED
    BY <2>1, <2>2, <2>3
<1> HIDE DEF n
<1>5. Match(p \o q, offset + n)
  BY <1>2, <1>3, <1>4, Extend
<1> QED
  BY <1>5 DEF n, q

Consumed ==
  /\ Short(cmd)
  /\ at = "type" => offset = 0
  /\ at = "key" => Match(<<cmd.type>>, offset)
  /\ at = "id" => Match(KeyPart(cmd), offset)
  /\ at = "reads" => \E o \in Nat : /\ offset = o + 1 /\ Match(KeyPart(cmd), o)
                                    /\ input[o + 1] = cmd.id
  /\ at = "writes" => \E o \in Nat : /\ offset = o + 2 /\ Match(KeyPart(cmd), o)
                                     /\ input[o + 1] = cmd.id /\ input[o + 2] = cmd.reads
  /\ at = "value" => IF cmd.type = SET THEN Match(KeyPart(cmd), offset)
                     ELSE Match(KeyPart(cmd) \o Triple(cmd), offset)
  /\ at \in {"end", "accepted"} => Match(Content(cmd), offset)
  /\ at = "accepted" => Complete

LEMMA InitConsumed == Init => Consumed
<1> SUFFICES ASSUME Init PROVE Consumed
  OBVIOUS
<1>1. at = "type" /\ offset = 0 /\ cmd = Fields(GET, <<>>, 0, 0, 0, <<>>)
  BY DEF Init
<1>2. Short(cmd)
  <2>1. Len(<<>>) = 0 /\ Base \in Nat /\ Base > 2
    BY Numbers, EmptySeq
  <2>2. 0 \div Base = 0
    BY <2>1
  <2>3. cmd.key = <<>> /\ cmd.value = <<>>
    BY <1>1 DEF Fields
  <2> QED
    BY <2>1, <2>2, <2>3 DEF Short, Byte
<1> QED
  BY <1>1, <1>2 DEF Consumed

LEMMA TypeConsumed ==
  ASSUME Reader, PlaceOf, Consumed, ReadType PROVE Consumed'
<1>1. Room(1) /\ offset = 0 /\ at' = "key" /\ offset' = offset + 1 /\ input' = input
  BY DEF ReadType, Consumed
<1>2. Peek(1) = input[1] /\ Peek(1) \in Byte
  <2>1. 1 \in Nat /\ 1 \in 1..1 /\ offset + 1 = 1
    BY <1>1
  <2> QED
    BY <1>1, <2>1, PeekFacts
<1>3. PICK drawn : cmd' = Fields(Peek(1), <<>>, drawn, 0, 0, <<>>)
  BY DEF ReadType
<1>4. cmd'.type = Peek(1) /\ cmd'.key = <<>> /\ cmd'.value = <<>>
  BY <1>3 DEF Fields
<1>5. Short(cmd')
  <2>1. Len(<<>>) = 0 /\ Base \in Nat /\ Base > 2
    BY Numbers, EmptySeq
  <2>2. 0 \div Base = 0
    BY <2>1
  <2> QED
    BY <1>4, <2>1, <2>2 DEF Short, Byte
<1> DEFINE p == <<Peek(1)>>
<1>6. p \in Seq(Byte) /\ Len(p) = 1 /\ p[1] = Peek(1)
  BY <1>2
<1> HIDE DEF p
<1>7. \A i \in 1..1 : input'[i] = p[i]
  BY <1>1, <1>2, <1>6
<1>8. <<cmd'.type>> = p /\ offset' = 1
  BY <1>1, <1>4 DEF p
<1> QED
  BY <1>1, <1>5, <1>6, <1>7, <1>8 DEF Consumed, Match, Short

LEMMA NumberConsumed ==
  ASSUME Reader, PlaceOf, Consumed, ReadNumber PROVE Consumed'
<1>1. /\ at \in {"id", "reads", "writes"} /\ Room(1) /\ cmd' = [cmd EXCEPT ![at] = Peek(1)]
      /\ at' = After(at) /\ offset' = offset + 1 /\ input' = input
  BY DEF ReadNumber
<1>2. Peek(1) = input[offset + 1] /\ Peek(1) \in Byte /\ offset \in Nat
  <2>1. 1 \in Nat /\ 1 \in 1..1
    OBVIOUS
  <2> QED
    BY <1>1, <2>1, PeekFacts DEF Reader
<1>3. /\ cmd' \in Fieldwise /\ cmd'.type = cmd.type /\ cmd'.key = cmd.key
      /\ cmd'.value = cmd.value /\ cmd \in Fieldwise
  BY <1>1, <1>2 DEF Reader, Fieldwise
<1>4. Short(cmd') /\ KeyPart(cmd') = KeyPart(cmd)
  BY <1>3 DEF Short, KeyPart, Consumed
<1>5. GET # SET /\ GET # GET_RESPONSE /\ SET # GET_RESPONSE
  BY Numbers
<1>6. ASSUME NEW p, NEW o, Match(p, o) PROVE Match(p, o)'
  BY <1>1, <1>6 DEF Match
<1>7. CASE at = "id" /\ cmd.type = GET
  <2>1. at' = "end" /\ cmd'.id = Peek(1)
    BY <1>1, <1>3, <1>7 DEF After, Fieldwise
  <2> DEFINE q == <<cmd'.id>>
  <2>2. q \in Seq(Byte) /\ Len(q) = 1 /\ q[1] = Peek(1)
    BY <1>2, <2>1
  <2>3. Content(cmd') = KeyPart(cmd') \o q
    BY <1>3, <1>4, <1>7, ContentFacts
  <2> HIDE DEF q
  <2>4. Match(KeyPart(cmd), offset)
    BY <1>7 DEF Consumed
  <2>5. Match(KeyPart(cmd) \o q, offset + 1)
    <3>1. 1 \in Nat /\ \A i \in 1..1 : input[offset + i] = q[i]
      BY <1>2, <2>2
    <3> QED
      BY <1>2, <2>2, <2>4, <3>1, Extend
  <2>6. Match(Content(cmd'), offset')
    BY <1>1, <1>4, <2>3, <2>5
  <2>7. input' = input
    BY <1>1
  <2> QED
    BY <1>4, <2>1, <2>6, <2>7 DEF Consumed, Match, Short
<1>8. CASE at = "id" /\ cmd.type # GET
  <2>1. at' = "reads" /\ cmd'.id = Peek(1)
    BY <1>1, <1>3, <1>8 DEF After, Fieldwise
  <2>2. Match(KeyPart(cmd'), offset)
    BY <1>4, <1>8 DEF Consumed
  <2>3. input[offset + 1] = cmd'.id
    BY <1>2, <2>1
  <2>4. input' = input /\ offset' = offset + 1
    BY <1>1
  <2> QED
    BY <1>2, <1>4, <2>1, <2>2, <2>3, <2>4 DEF Consumed, Match, Short
<1>9. CASE at = "reads"
  <2>1. at' = "writes" /\ cmd'.reads = Peek(1) /\ cmd'.id = cmd.id
    BY <1>1, <1>3, <1>9 DEF After, Fieldwise
  <2>2. PICK o \in Nat : offset = o + 1 /\ Match(KeyPart(cmd), o) /\ input[o + 1] = cmd.id
    BY <1>9 DEF Consumed
  <2>3. input[o + 2] = cmd'.reads /\ offset' = o + 2
    <3>1. offset + 1 = o + 2
      BY <2>2
    <3> QED
      BY <1>1, <1>2, <2>1, <3>1
  <2>4. input' = input /\ input[o + 1] = cmd'.id /\ Match(KeyPart(cmd'), o)
    BY <1>1, <1>4, <2>1, <2>2
  <2> QED
    BY <1>4, <2>1, <2>3, <2>4 DEF Consumed, Match, Short
<1>10. CASE at = "writes"
  <2>1. /\ at' = "value" /\ cmd'.writes = Peek(1) /\ cmd'.id = cmd.id
        /\ cmd'.reads = cmd.reads
    BY <1>1, <1>3, <1>10 DEF After, Fieldwise
  <2>2. PICK o \in Nat : /\ offset = o + 2 /\ Match(KeyPart(cmd), o)
                         /\ input[o + 1] = cmd.id /\ input[o + 2] = cmd.reads
    BY <1>10 DEF Consumed
  <2>3. input[o + 3] = cmd'.writes /\ offset' = o + 3
    <3>1. offset + 1 = o + 3
      BY <2>2
    <3> QED
      BY <1>1, <1>2, <2>1, <3>1
  <2> DEFINE q == Triple(cmd')
  <2>4. /\ q \in Seq(Byte) /\ Len(q) = 3 /\ q[1] = cmd'.id /\ q[2] = cmd'.reads
        /\ q[3] = cmd'.writes
    BY <1>3, <1>4, ContentFacts
  <2> HIDE DEF q
  <2>5. 3 \in Nat /\ \A i \in 1..3 : input[o + i] = q[i]
    BY <2>1, <2>2, <2>3, <2>4
  <2>6. Match(KeyPart(cmd) \o q, o + 3)
    BY <2>2, <2>4, <2>5, Extend
  <2>7. Match(KeyPart(cmd') \o Triple(cmd'), offset')
    BY <1>4, <2>3, <2>6 DEF q
  <2>8. input' = input /\ cmd'.type # SET
    BY <1>1, <1>3, <1>5, <1>10 DEF PlaceOf
  <2> QED
    BY <1>4, <2>1, <2>7, <2>8 DEF Consumed, Match, Short
<1> QED
  BY <1>1, <1>7, <1>8, <1>9, <1>10

LEMMA StringConsumed ==
  ASSUME Reader, PlaceOf, Consumed, ReadString PROVE Consumed'
<1> DEFINE s == [i \in 1..StringLength |-> Peek(LengthSize + i)]
<1>1. /\ at \in {"key", "value"} /\ Room(LengthSize) /\ StringFits
      /\ cmd' = [cmd EXCEPT ![at] = s]
      /\ at' = After(at) /\ offset' = offset + (LengthSize + StringLength) /\ input' = input
  BY DEF ReadString
<1>2. s \in Seq(Byte) /\ Len(s) \div Base \in Byte
  BY <1>1, StringRead
<1>3. ASSUME NEW p, Match(p, offset) PROVE Match(p \o WriteString(s), offset')
  BY <1>1, <1>3, ExtendString
<1> HIDE DEF s
<1>4. cmd' \in Fieldwise /\ cmd'.type = cmd.type /\ cmd \in Fieldwise
  BY <1>1, <1>2 DEF Reader, Fieldwise
<1>5. CASE at = "key"
  <2>1. cmd'.key = s /\ cmd'.value = cmd.value
    BY <1>1, <1>4, <1>5 DEF Fieldwise
  <2>2. Short(cmd')
    BY <1>2, <2>1 DEF Short, Consumed
  <2>3. Match(<<cmd.type>>, offset)
    BY <1>5 DEF Consumed
  <2>4. Match(KeyPart(cmd'), offset')
    BY <1>3, <1>4, <2>1, <2>3 DEF KeyPart
  <2>5. at' = IF cmd.type = SET THEN "value" ELSE "id"
    BY <1>1, <1>5 DEF After
  <2>6. input' = input
    BY <1>1
  <2> QED
    BY <1>4, <2>2, <2>4, <2>5, <2>6 DEF Consumed, Match, Short
<1>6. CASE at = "value"
  <2>1. /\ cmd'.key = cmd.key /\ cmd'.value = s /\ cmd'.id = cmd.id
        /\ cmd'.reads = cmd.reads /\ cmd'.writes = cmd.writes
    BY <1>1, <1>4, <1>6 DEF Fieldwise
  <2>2. Short(cmd')
    BY <1>2, <2>1 DEF Short, Consumed
  <2>3. KeyPart(cmd') = KeyPart(cmd) /\ Triple(cmd') = Triple(cmd)
    BY <1>4, <2>1 DEF KeyPart, Triple
  <2>4. Match(Content(cmd'), offset')
    <3>1. CASE cmd.type = SET
      <4>1. Match(KeyPart(cmd), offset)
        BY <1>6, <3>1 DEF Consumed
      <4>2. Content(cmd') = KeyPart(cmd) \o WriteString(s)
        BY <1>4, <2>1, <2>2, <2>3, <3>1, ContentFacts
      <4> QED
        BY <1>3, <4>1, <4>2
    <3>2. CASE cmd.type # SET
      <4>1. Match(KeyPart(cmd) \o Triple(cmd), offset)
        BY <1>6, <3>2 DEF Consumed
      <4>2. cmd.type = GET_RESPONSE
        BY <1>4, <1>6, <3>2 DEF PlaceOf, Fieldwise, Type
      <4>3. Content(cmd') = (KeyPart(cmd) \o Triple(cmd)) \o WriteString(s)
        BY <1>4, <2>1, <2>2, <2>3, <4>2, ContentFacts
      <4> QED
        BY <1>3, <4>1, <4>3
    <3> QED
      BY <3>1, <3>2
  <2>5. at' = "end" /\ input' = input
    BY <1>1, <1>6 DEF After
  <2> QED
    BY <2>2, <2>4, <2>5 DEF Consumed, Match, Short
<1> QED
  BY <1>1, <1>5, <1>6

LEMMA StepConsumed == Reader /\ PlaceOf /\ Consumed /\ [Next]_vars => Consumed'
<1> SUFFICES ASSUME Reader, PlaceOf, Consumed, [Next]_vars PROVE Consumed'
  OBVIOUS
<1>1. CASE Finish
  BY <1>1 DEF Finish, Consumed, Match, Complete
<1>2. CASE Throw
  BY <1>2 DEF Throw, Consumed
<1>3. CASE UNCHANGED vars
  BY <1>3 DEF vars, Consumed, Match, Complete
<1> QED
  BY <1>1, <1>2, <1>3, TypeConsumed, NumberConsumed, StringConsumed DEF Next

LEMMA ConsumedCanonical == Reader /\ PlaceOf /\ Consumed => Canonical
<1> SUFFICES ASSUME Reader, PlaceOf, Consumed, at = "accepted" PROVE Canonical
  BY DEF Canonical
<1>1. Complete /\ Match(Content(cmd), offset)
  BY DEF Consumed
<1>2. input \in Seq(Byte) /\ offset \in 0..Len(input) /\ Len(input) \in Nat
  BY LenProperties DEF Reader
<1>3. offset = Len(input)
  BY <1>1, <1>2 DEF Complete
<1> DEFINE p == Content(cmd)
<1>4. /\ p \in Seq(Byte) /\ Len(p) = Len(input)
      /\ \A i \in 1..Len(input) : input[i] = p[i]
  BY <1>1, <1>3 DEF Match
<1> HIDE DEF p
<1>5. input = p
  BY <1>2, <1>4, SeqEqual
<1> QED
  BY <1>1, <1>5 DEF p, Canonical, Complete, PlaceOf

\* What ::read accepts is exactly what serialize writes for the command it returns, for
\* a vector of any bytes (::read and serialize in net/protocol.cpp).
THEOREM CanonicalForm == Spec => []Canonical
<1> DEFINE Inv == Reader /\ PlaceOf /\ Consumed
<1>1. Init => Inv
  BY InitReader, InitConsumed
<1>2. Inv /\ [Next]_vars => Inv'
  BY StepReader, StepConsumed
<1>3. Inv => Canonical
  BY ConsumedCanonical
<1> QED
  BY <1>1, <1>2, <1>3, PTL DEF Spec

-----------------------------------------------------------------------------
(* A vector that was serialised is taken apart the way it was put together. *)

\* q lies in the vector from o on.
At(q, o) == o + Len(q) <= Len(input) /\ \A i \in 1..Len(q) : input[o + i] = q[i]

LEMMA Split ==
  ASSUME NEW x \in Seq(Byte), NEW y \in Seq(Byte), NEW o \in Nat, At(x \o y, o),
         NEW m \in Nat, Len(x) = m, Len(input) \in Nat
  PROVE  At(x, o) /\ At(y, o + m)
<1> DEFINE z == x \o y
<1>1. PICK n \in Nat : Len(y) = n
  BY LenProperties
<1>2. /\ Len(z) = m + n
      /\ \A i \in 1..m : z[i] = x[i]
      /\ \A i \in 1..n : z[m + i] = y[i]
  BY <1>1, Concatenated
<1>3. o + Len(z) <= Len(input) /\ \A i \in 1..Len(z) : input[o + i] = z[i]
  BY DEF At
<1> HIDE DEF z
<1>4. At(x, o)
  <2>1. o + m <= Len(input)
    BY <1>2, <1>3
  <2>2. ASSUME NEW i \in 1..m PROVE input[o + i] = x[i]
    <3>1. i \in 1..Len(z)
      BY <1>2
    <3> QED
      BY <1>2, <1>3, <3>1
  <2> QED
    BY <2>1, <2>2 DEF At
<1>5. At(y, o + m)
  <2>1. (o + m) + n <= Len(input)
    BY <1>2, <1>3
  <2>2. ASSUME NEW i \in 1..n PROVE input[(o + m) + i] = y[i]
    <3>1. m + i \in 1..Len(z) /\ (o + m) + i = o + (m + i)
      BY <1>2
    <3> QED
      BY <1>2, <1>3, <3>1
  <2> QED
    BY <1>1, <2>1, <2>2 DEF At
<1> QED
  BY <1>4, <1>5

LEMMA Layout ==
  ASSUME NEW c \in Command, input = Content(c),
         NEW K \in Nat, K = Len(c.key), NEW V \in Nat, V = Len(c.value)
  PROVE  /\ Len(input) \in Nat
         /\ At(<<c.type>>, 0) /\ At(WriteString(c.key), 1)
         /\ c.type = GET => At(<<c.id>>, 3 + K) /\ Len(input) = 4 + K
         /\ c.type = SET => At(WriteString(c.value), 3 + K) /\ Len(input) = 5 + K + V
         /\ c.type = GET_RESPONSE =>
              /\ At(Triple(c), 3 + K) /\ At(WriteString(c.value), 6 + K)
              /\ Len(input) = 8 + K + V
<1>1. c \in Fieldwise /\ Short(c)
  BY CommandFacts
<1>2. /\ <<c.type>> \in Seq(Byte) /\ Len(<<c.type>>) = 1
      /\ <<c.id>> \in Seq(Byte) /\ Len(<<c.id>>) = 1
      /\ Triple(c) \in Seq(Byte) /\ Len(Triple(c)) = 3
      /\ WriteString(c.key) \in Seq(Byte) /\ Len(WriteString(c.key)) = 2 + K
      /\ WriteString(c.value) \in Seq(Byte) /\ Len(WriteString(c.value)) = 2 + V
      /\ KeyPart(c) \in Seq(Byte) /\ Len(KeyPart(c)) = 3 + K
      /\ KeyPart(c) \o Triple(c) \in Seq(Byte) /\ Len(KeyPart(c) \o Triple(c)) = 6 + K
      /\ Content(c) \in Seq(Byte)
  BY <1>1, ContentFacts
<1>3. Len(input) \in Nat /\ At(input, 0)
  <2>1. Len(input) \in Nat
    BY <1>2, LenProperties
  <2> QED
    BY <2>1 DEF At
<1>4. 3 + K \in Nat /\ 6 + K \in Nat /\ 0 \in Nat /\ 1 \in Nat /\ 0 + 1 = 1
        /\ 0 + (3 + K) = 3 + K /\ 0 + (6 + K) = 6 + K
  BY <1>2
<1>5. ASSUME At(KeyPart(c), 0) PROVE At(<<c.type>>, 0) /\ At(WriteString(c.key), 1)
  <2>1. At(<<c.type>> \o WriteString(c.key), 0)
    BY <1>5 DEF KeyPart
  <2>2. At(<<c.type>>, 0) /\ At(WriteString(c.key), 0 + 1)
    BY <1>2, <1>3, <1>4, <2>1, Split
  <2> QED
    BY <1>4, <2>2
<1>6. ASSUME c.type = GET
      PROVE  /\ At(KeyPart(c), 0)
             /\ At(<<c.id>>, 3 + K) /\ Len(input) = 4 + K
  <2>1. Content(c) = KeyPart(c) \o <<c.id>> /\ Len(Content(c)) = 4 + K
    BY <1>1, <1>6, ContentFacts
  <2>2. At(KeyPart(c) \o <<c.id>>, 0)
    BY <1>3, <2>1
  <2>3. At(KeyPart(c), 0) /\ At(<<c.id>>, 0 + (3 + K))
    BY <1>2, <1>3, <1>4, <2>2, Split
  <2> QED
    BY <1>4, <2>1, <2>3
<1>7. ASSUME c.type = SET
      PROVE  /\ At(KeyPart(c), 0)
             /\ At(WriteString(c.value), 3 + K) /\ Len(input) = 5 + K + V
  <2>1. Content(c) = KeyPart(c) \o WriteString(c.value) /\ Len(Content(c)) = 5 + K + V
    BY <1>1, <1>7, ContentFacts
  <2>2. At(KeyPart(c) \o WriteString(c.value), 0)
    BY <1>3, <2>1
  <2>3. At(KeyPart(c), 0) /\ At(WriteString(c.value), 0 + (3 + K))
    BY <1>2, <1>3, <1>4, <2>2, Split
  <2> QED
    BY <1>4, <2>1, <2>3
<1>8. ASSUME c.type = GET_RESPONSE
      PROVE  /\ At(KeyPart(c), 0) /\ At(Triple(c), 3 + K)
             /\ At(WriteString(c.value), 6 + K) /\ Len(input) = 8 + K + V
  <2>1. /\ Content(c) = (KeyPart(c) \o Triple(c)) \o WriteString(c.value)
        /\ Len(Content(c)) = 8 + K + V
    BY <1>1, <1>8, ContentFacts
  <2>2. At((KeyPart(c) \o Triple(c)) \o WriteString(c.value), 0)
    BY <1>3, <2>1
  <2>3. At(KeyPart(c) \o Triple(c), 0) /\ At(WriteString(c.value), 0 + (6 + K))
    BY <1>2, <1>3, <1>4, <2>2, Split
  <2>4. At(KeyPart(c), 0) /\ At(Triple(c), 0 + (3 + K))
    BY <1>2, <1>3, <1>4, <2>3, Split
  <2> QED
    BY <1>4, <2>1, <2>3, <2>4
<1>9. At(KeyPart(c), 0)
  BY <1>1, <1>6, <1>7, <1>8 DEF Fieldwise, Type
<1> QED
  BY <1>3, <1>5, <1>6, <1>7, <1>8, <1>9

\* What ReadString takes where a string was written.
LEMMA StringFound ==
  ASSUME Reader, NEW s \in Seq(Byte), Len(s) \div Base \in Byte, At(WriteString(s), offset)
  PROVE  /\ Room(LengthSize) /\ StringFits /\ StringLength = Len(s)
         /\ [i \in 1..StringLength |-> Peek(LengthSize + i)] = s
<1>1. PICK n \in Nat : Len(s) = n
  BY LenProperties
<1>2. /\ offset \in Nat /\ Len(input) \in Nat
  BY LenProperties DEF Reader
<1> DEFINE q == WriteString(s)
<1>3. /\ Len(q) = 2 + n /\ q[1] = n % Base /\ q[2] = n \div Base
      /\ \A i \in 1..n : q[LengthSize + i] = s[i]
  BY <1>1, StringWritten, Numbers
<1>4. offset + Len(q) <= Len(input) /\ \A i \in 1..Len(q) : input[offset + i] = q[i]
  BY DEF At
<1> HIDE DEF q
<1>5. offset + (2 + n) <= Len(input) /\ \A i \in 1..(2 + n) : Peek(i) = q[i]
  <2>1. ASSUME NEW i \in 1..(2 + n) PROVE Peek(i) = q[i]
    <3>1. offset + i <= Len(input)
      BY <1>1, <1>2, <1>3, <1>4
    <3> QED
      BY <1>3, <1>4, <3>1 DEF Peek
  <2> QED
    BY <1>3, <1>4, <2>1
<1>6. Peek(1) = n % Base /\ Peek(2) = n \div Base
  BY <1>1, <1>3, <1>5
<1>7. StringLength = n
  <2>1. n = Base * (n \div Base) + (n % Base) /\ n % Base \in Nat /\ n \div Base \in Nat
    BY <1>1, Numbers
  <2> DEFINE d == n \div Base  m == n % Base
  <2>2. StringLength = m + Base * d
    BY <1>6 DEF StringLength
  <2>3. n = Base * d + m /\ m \in Nat /\ d \in Nat /\ Base \in Nat
    BY <2>1, Numbers
  <2> HIDE DEF d, m
  <2>4. Base * d \in Nat
    BY <2>3
  <2> QED
    BY <2>2, <2>3, <2>4
<1>8. ASSUME NEW i \in 1..n PROVE Peek(LengthSize + i) = s[i]
  <2>1. LengthSize + i \in 1..(2 + n)
    BY <1>1, Numbers
  <2> QED
    BY <1>3, <1>5, <2>1
<1>9. [i \in 1..StringLength |-> Peek(LengthSize + i)] = s
  <2>1. s = [i \in 1..n |-> s[i]]
    BY <1>1, LenProperties
  <2> QED
    BY <1>7, <1>8, <2>1
<1>10. Room(LengthSize) /\ Room(LengthSize + StringLength)
  BY <1>1, <1>2, <1>5, <1>7, Numbers DEF Room
<1> QED
  BY <1>1, <1>7, <1>9, <1>10 DEF StringFits

LEMMA NumberFound ==
  ASSUME Reader, NEW b, input[offset + 1] = b, offset + 1 <= Len(input)
  PROVE  Room(1) /\ Peek(1) = b
BY DEF Room, Peek

\* How far the reader of a written command c is.
KeyEnd(c) == 3 + Len(c.key)

Understood(c) ==
  /\ input = Content(c)
  /\ at = "type" => offset = 0
  /\ at = "refused" => c.type \notin Accepted(side)
  /\ at \notin {"type", "refused"} => c.type \in Accepted(side)
  /\ at = "key" => /\ offset = 1
                   /\ \E d : /\ cmd = Fields(c.type, <<>>, d, 0, 0, <<>>)
                             /\ c.type # GET => d = 0
  /\ at = "id" => /\ offset = KeyEnd(c) /\ c.type # SET
                  /\ \E d : cmd = Fields(c.type, c.key, d, 0, 0, <<>>)
  /\ at = "reads" => /\ offset = KeyEnd(c) + 1 /\ c.type = GET_RESPONSE
                     /\ cmd = Fields(c.type, c.key, c.id, 0, 0, <<>>)
  /\ at = "writes" => /\ offset = KeyEnd(c) + 2 /\ c.type = GET_RESPONSE
                      /\ cmd = Fields(c.type, c.key, c.id, c.reads, 0, <<>>)
  /\ at = "value" => /\ c.type # GET
                     /\ offset = IF c.type = SET THEN KeyEnd(c) ELSE KeyEnd(c) + 3
                     /\ cmd = Fields(c.type, c.key, c.id, c.reads, c.writes, <<>>)
  /\ at = "end" => offset = Len(input)
  /\ at \in {"end", "accepted"} => cmd = c

Passed == \A c \in written : c \in Command /\ Understood(c)

LEMMA InitPassed == Init => Passed
<1> SUFFICES ASSUME Init, NEW c \in written PROVE c \in Command /\ Understood(c)
  BY DEF Passed
<1>1. c \in Command /\ input = Cut(c) /\ at = "type" /\ offset = 0
  BY DEF Init
<1>2. input = Content(c)
  BY <1>1, CutIsContent
<1> QED
  BY <1>1, <1>2 DEF Understood

LEMMA Sums ==
  \A k, v \in Nat : (3 + k) + (2 + v) = 5 + k + v /\ (6 + k) + (2 + v) = 8 + k + v
OBVIOUS

\* What is known of a written command at every place.
LEMMA Places ==
  ASSUME Reader, NEW c \in Command, Understood(c), NEW K \in Nat, K = Len(c.key)
  PROVE  /\ c \in Fieldwise /\ Short(c) /\ Len(input) \in Nat /\ offset \in Nat
         /\ KeyEnd(c) = 3 + K
         /\ at = "type" => input[1] = c.type /\ 1 <= Len(input)
         /\ at = "key" => At(WriteString(c.key), offset)
         /\ at = "id" => offset + 1 <= Len(input) /\ input[offset + 1] = c.id
         /\ at = "id" /\ c.type = GET => offset + 1 = Len(input)
         /\ at = "reads" => offset + 1 <= Len(input) /\ input[offset + 1] = c.reads
         /\ at = "writes" => offset + 1 <= Len(input) /\ input[offset + 1] = c.writes
         /\ at = "value" => /\ At(WriteString(c.value), offset)
                            /\ offset + (2 + Len(c.value)) = Len(input)
<1>1. c \in Fieldwise /\ Short(c)
  BY CommandFacts
<1>2. PICK V \in Nat : V = Len(c.value)
  BY <1>1, ContentFacts
<1>3. /\ Len(input) \in Nat
      /\ At(<<c.type>>, 0) /\ At(WriteString(c.key), 1)
      /\ c.type = GET => At(<<c.id>>, 3 + K) /\ Len(input) = 4 + K
      /\ c.type = SET => At(WriteString(c.value), 3 + K) /\ Len(input) = 5 + K + V
      /\ c.type = GET_RESPONSE =>
           /\ At(Triple(c), 3 + K) /\ At(WriteString(c.value), 6 + K)
           /\ Len(input) = 8 + K + V
  BY <1>2, Layout DEF Understood
<1>4. /\ Len(<<c.type>>) = 1 /\ <<c.type>>[1] = c.type /\ Len(<<c.id>>) = 1 /\ <<c.id>>[1] = c.id
      /\ Len(Triple(c)) = 3 /\ Triple(c)[1] = c.id /\ Triple(c)[2] = c.reads
      /\ Triple(c)[3] = c.writes
  BY <1>1, ContentFacts
<1>5. KeyEnd(c) = 3 + K /\ offset \in Nat
  BY DEF KeyEnd, Reader
<1>6. input[1] = c.type /\ 1 <= Len(input)
  <2>1. 1 \in 1..1 /\ 0 + 1 = 1
    OBVIOUS
  <2> QED
    BY <1>3, <1>4, <2>1 DEF At
<1>7. c.type = GET => 3 + K + 1 = Len(input) /\ input[3 + K + 1] = c.id
  <2>1. 1 \in 1..1
    OBVIOUS
  <2> QED
    BY <1>3, <1>4, <2>1 DEF At
<1>8. c.type = GET_RESPONSE =>
        /\ 3 + K + 3 <= Len(input) /\ input[3 + K + 1] = c.id
        /\ input[3 + K + 2] = c.reads /\ input[3 + K + 3] = c.writes
  <2>1. 1 \in 1..3 /\ 2 \in 1..3 /\ 3 \in 1..3
    OBVIOUS
  <2> QED
    BY <1>3, <1>4, <2>1 DEF At
<1>9. c.type = GET \/ c.type = SET \/ c.type = GET_RESPONSE
  BY <1>1 DEF Fieldwise, Type
<1>10. CASE at = "id"
  <2>1. offset = 3 + K /\ (c.type = GET \/ c.type = GET_RESPONSE)
    BY <1>5, <1>9, <1>10 DEF Understood
  <2> QED
    BY <1>1, <1>3, <1>5, <1>7, <1>8, <1>10, <2>1
<1>11. CASE at = "reads"
  <2>1. offset + 1 = 3 + K + 2 /\ c.type = GET_RESPONSE
    BY <1>5, <1>11 DEF Understood
  <2> QED
    BY <1>1, <1>3, <1>5, <1>8, <1>11, <2>1
<1>12. CASE at = "writes"
  <2>1. offset + 1 = 3 + K + 3 /\ c.type = GET_RESPONSE
    BY <1>5, <1>12 DEF Understood
  <2> QED
    BY <1>1, <1>3, <1>5, <1>8, <1>12, <2>1
<1>13. CASE at = "value"
  <2>1. At(WriteString(c.value), offset) /\ offset + (2 + V) = Len(input)
    <3>1. CASE c.type = SET
      <4>1. offset = 3 + K
        BY <1>5, <1>13, <3>1 DEF Understood
      <4>2. At(WriteString(c.value), offset)
        BY <1>3, <3>1, <4>1, Zenon
      <4>3. Len(input) = 5 + K + V
        BY <1>3, <3>1
      <4>4. offset + (2 + V) = Len(input)
        <5>1. K \in Nat /\ V \in Nat
          BY <1>2
        <5>2. (3 + K) + (2 + V) = 5 + K + V
          BY <5>1, Sums, Zenon
        <5> QED
          BY <4>1, <4>3, <5>2, Zenon
      <4> QED
        BY <4>2, <4>4, Zenon
    <3>2. CASE c.type # SET
      <4>1. c.type = GET_RESPONSE /\ offset = 3 + K + 3
        BY <1>5, <1>9, <1>13, <3>2 DEF Understood
      <4>2. offset = 6 + K
        BY <4>1
      <4>3. At(WriteString(c.value), offset)
        BY <1>3, <4>1, <4>2, Zenon
      <4>4. Len(input) = 8 + K + V
        BY <1>3, <4>1
      <4>5. offset + (2 + V) = Len(input)
        <5>1. K \in Nat /\ V \in Nat
          BY <1>2
        <5>2. (6 + K) + (2 + V) = 8 + K + V
          BY <5>1, Sums, Zenon
        <5> QED
          BY <4>2, <4>4, <5>2, Zenon
      <4> QED
        BY <4>3, <4>5, Zenon
    <3> QED
      BY <3>1, <3>2
  <2> QED
    BY <1>1, <1>2, <1>3, <1>5, <1>13, <2>1
<1>14. CASE at = "key"
  BY <1>1, <1>3, <1>5, <1>14 DEF Understood
<1>15. CASE at \notin {"id", "reads", "writes", "value", "key"}
  BY <1>1, <1>3, <1>5, <1>6, <1>15
<1> QED
  BY <1>10, <1>11, <1>12, <1>13, <1>14, <1>15

LEMMA StepPassed ==
  ASSUME Reader, PlaceOf, NEW c \in Command, Understood(c), Next
  PROVE  Understood(c)'
<1>1. PICK K \in Nat : K = Len(c.key)
  <2>1. c \in Fieldwise /\ Short(c)
    BY CommandFacts
  <2> QED
    BY <2>1, ContentFacts
<1>2. /\ c \in Fieldwise /\ Short(c) /\ Len(input) \in Nat /\ offset \in Nat
      /\ KeyEnd(c) = 3 + K
  BY <1>1, Places
<1>3. input' = input /\ side' = side /\ input = Content(c)
  BY DEF Next, ReadType, ReadNumber, ReadString, Finish, Throw, Understood
<1>4. /\ c.type # SET => c.id # 0
      /\ c.type = GET => c = Fields(c.type, c.key, c.id, 0, 0, <<>>)
      /\ c.type = SET => c = Fields(c.type, c.key, 0, 0, 0, c.value)
      /\ c = Fields(c.type, c.key, c.id, c.reads, c.writes, c.value)
  <2>1. c = Fields(c.type, c.key, c.id, c.reads, c.writes, c.value)
    BY <1>2 DEF Fields, Fieldwise
  <2> QED
    BY <2>1, CommandFacts
<1>5. /\ GET # SET /\ GET # GET_RESPONSE /\ SET # GET_RESPONSE
      /\ c.type = GET \/ c.type = SET \/ c.type = GET_RESPONSE
  BY <1>2, Numbers DEF Fieldwise, Type
<1>6. CASE ReadType
  <2>1. at = "type" /\ offset = 0 /\ Peek(1) = c.type
    <3>1. at = "type" /\ offset = 0
      BY <1>6 DEF ReadType, Understood
    <3>2. input[1] = c.type /\ 1 <= Len(input) /\ offset + 1 = 1
      BY <1>1, <3>1, Places
    <3> QED
      BY <3>1, <3>2, NumberFound
  <2>2. c.type \in Accepted(side) /\ at' = "key" /\ offset' = 1
    BY <1>6, <2>1 DEF ReadType
  <2>3. \E d : cmd' = Fields(c.type, <<>>, d, 0, 0, <<>>) /\ (c.type # GET => d = 0)
    BY <1>6, <2>1 DEF ReadType
  <2> QED
    BY <1>3, <2>2, <2>3 DEF Understood
<1>7. CASE ReadNumber
  <2>1. /\ at \in {"id", "reads", "writes"} /\ cmd' = [cmd EXCEPT ![at] = Peek(1)]
        /\ at' = After(at) /\ offset' = offset + 1
    BY <1>7 DEF ReadNumber
  <2>2. c.type \in Accepted(side) /\ cmd.type = c.type
    BY <2>1 DEF Understood, Fields
  <2>3. CASE at = "id"
    <3>1. /\ offset = KeyEnd(c) /\ c.type # SET
          /\ \E d : cmd = Fields(c.type, c.key, d, 0, 0, <<>>)
      BY <2>3 DEF Understood
    <3>2. Peek(1) = c.id
      BY <1>1, <2>3, Places, NumberFound
    <3>3. cmd' = Fields(c.type, c.key, c.id, 0, 0, <<>>)
      <4>1. PICK d : cmd = Fields(c.type, c.key, d, 0, 0, <<>>)
        BY <3>1
      <4>2. cmd' = [cmd EXCEPT !.id = c.id]
        BY <2>1, <2>3, <3>2
      <4> QED
        BY <4>1, <4>2 DEF Fields
    <3>4. CASE c.type = GET
      <4>1. at' = "end" /\ cmd' = c
        BY <1>4, <2>1, <2>2, <2>3, <3>3, <3>4 DEF After
      <4>2. offset' = Len(input)
        BY <1>1, <2>1, <2>3, <3>4, Places
      <4> QED
        BY <1>3, <2>2, <4>1, <4>2 DEF Understood
    <3>5. CASE c.type = GET_RESPONSE
      <4>1. at' = "reads" /\ offset' = KeyEnd(c) + 1
        BY <1>5, <2>1, <2>2, <2>3, <3>1, <3>5 DEF After
      <4> QED
        BY <1>3, <2>2, <3>3, <3>5, <4>1 DEF Understood
    <3> QED
      BY <1>5, <3>1, <3>4, <3>5
  <2>4. CASE at = "reads"
    <3>1. /\ offset = KeyEnd(c) + 1 /\ c.type = GET_RESPONSE
          /\ cmd = Fields(c.type, c.key, c.id, 0, 0, <<>>)
      BY <2>4 DEF Understood
    <3>2. Peek(1) = c.reads
      BY <1>1, <2>4, Places, NumberFound
    <3>3. cmd' = Fields(c.type, c.key, c.id, c.reads, 0, <<>>)
      BY <2>1, <2>4, <3>1, <3>2 DEF Fields
    <3>4. offset' = KeyEnd(c) + 2
      BY <1>2, <2>1, <3>1
    <3>5. at' = "writes"
      BY <2>1, <2>4 DEF After
    <3> QED
      BY <1>3, <2>2, <3>1, <3>3, <3>4, <3>5 DEF Understood
  <2>5. CASE at = "writes"
    <3>1. /\ offset = KeyEnd(c) + 2 /\ c.type = GET_RESPONSE
          /\ cmd = Fields(c.type, c.key, c.id, c.reads, 0, <<>>)
      BY <2>5 DEF Understood
    <3>2. Peek(1) = c.writes
      BY <1>1, <2>5, Places, NumberFound
    <3>3. cmd' = Fields(c.type, c.key, c.id, c.reads, c.writes, <<>>)
      BY <2>1, <2>5, <3>1, <3>2 DEF Fields
    <3>4. offset' = KeyEnd(c) + 3
      BY <1>2, <2>1, <3>1
    <3>5. at' = "value"
      BY <2>1, <2>5 DEF After
    <3> QED
      BY <1>3, <1>5, <2>2, <3>1, <3>3, <3>4, <3>5 DEF Understood
  <2> QED
    BY <2>1, <2>3, <2>4, <2>5
<1>8. CASE ReadString
  <2> DEFINE s == [i \in 1..StringLength |-> Peek(LengthSize + i)]
  <2>1. /\ at \in {"key", "value"} /\ cmd' = [cmd EXCEPT ![at] = s]
        /\ at' = After(at) /\ offset' = offset + (LengthSize + StringLength)
    BY <1>8 DEF ReadString
  <2>2. c.type \in Accepted(side) /\ cmd.type = c.type
    BY <2>1 DEF Understood, Fields
  <2>3. c.key \in Seq(Byte) /\ c.value \in Seq(Byte)
          /\ Len(c.key) \div Base \in Byte /\ Len(c.value) \div Base \in Byte
    BY <1>2 DEF Short, Fieldwise
  <2>4. CASE at = "key"
    <3>1. s = c.key /\ StringLength = K
      BY <1>1, <2>3, <2>4, Places, StringFound
    <3> HIDE DEF s
    <3>2. PICK d : cmd = Fields(c.type, <<>>, d, 0, 0, <<>>) /\ (c.type # GET => d = 0)
      BY <2>4 DEF Understood
    <3>3. cmd' = Fields(c.type, c.key, d, 0, 0, <<>>)
      BY <2>1, <2>4, <3>1, <3>2 DEF Fields
    <3>4. offset = 1
      BY <2>4 DEF Understood
    <3>5. offset' = KeyEnd(c)
      BY <1>2, <2>1, <3>1, <3>4, Numbers
    <3>6. at' = IF c.type = SET THEN "value" ELSE "id"
      BY <2>1, <2>2, <2>4 DEF After
    <3>7. CASE c.type = SET
      <4>1. c.id = 0 /\ c.reads = 0 /\ c.writes = 0
        BY <1>4, <3>7 DEF Fields
      <4>2. cmd' = Fields(c.type, c.key, c.id, c.reads, c.writes, <<>>)
        BY <1>5, <3>2, <3>3, <3>7, <4>1
      <4> QED
        BY <1>3, <1>5, <2>2, <3>5, <3>6, <3>7, <4>2 DEF Understood
    <3>8. CASE c.type # SET
      BY <1>3, <2>2, <3>3, <3>5, <3>6, <3>8 DEF Understood
    <3> QED
      BY <3>7, <3>8
  <2>5. CASE at = "value"
    <3>1. s = c.value /\ StringLength = Len(c.value)
      BY <1>1, <2>3, <2>5, Places, StringFound
    <3> HIDE DEF s
    <3>2. cmd = Fields(c.type, c.key, c.id, c.reads, c.writes, <<>>)
      BY <2>5 DEF Understood
    <3>3. cmd' = c
      <4>1. cmd' = Fields(c.type, c.key, c.id, c.reads, c.writes, c.value)
        BY <2>1, <2>5, <3>1, <3>2 DEF Fields
      <4> QED
        BY <1>4, <4>1
    <3>4. offset' = Len(input)
      <4>1. offset + (2 + Len(c.value)) = Len(input)
        BY <1>1, <2>5, Places
      <4> QED
        BY <2>1, <3>1, <4>1, Numbers
    <3>5. at' = "end"
      BY <2>1, <2>5 DEF After
    <3> QED
      BY <1>3, <2>2, <3>3, <3>4, <3>5 DEF Understood
  <2> QED
    BY <2>1, <2>4, <2>5
<1>9. CASE Finish
  BY <1>3, <1>9 DEF Finish, Understood
<1>10. CASE Throw
  <2>1. at' = "refused"
    BY <1>10 DEF Throw
  <2>2. c.type \notin Accepted(side)
    <3>1. CASE at = "type" /\ ~(Room(1) /\ Peek(1) \in Accepted(side))
      <4>1. offset = 0 /\ input[1] = c.type /\ 1 <= Len(input)
        BY <1>1, <3>1, Places DEF Understood
      <4>2. offset + 1 = 1
        BY <4>1
      <4> QED
        BY <3>1, <4>1, <4>2, NumberFound
    <3>2. CASE at \in {"id", "reads", "writes"} /\ ~Room(1)
      BY <1>1, <3>2, Places DEF Room
    <3>3. CASE at \in {"key", "value"} /\ ~(Room(LengthSize) /\ StringFits)
      <4>1. c.key \in Seq(Byte) /\ c.value \in Seq(Byte)
              /\ Len(c.key) \div Base \in Byte /\ Len(c.value) \div Base \in Byte
        BY <1>2 DEF Short, Fieldwise
      <4> QED
        BY <1>1, <3>3, <4>1, Places, StringFound
    <3>4. CASE at = "end" /\ ~Complete
      BY <1>2, <1>4, <3>4 DEF Understood, Complete
    <3> QED
      BY <1>10, <3>1, <3>2, <3>3, <3>4 DEF Throw
  <2> QED
    BY <1>3, <2>1, <2>2 DEF Understood
<1> QED
  BY <1>6, <1>7, <1>8, <1>9, <1>10 DEF Next

LEMMA KeepPassed == Reader /\ PlaceOf /\ Passed /\ [Next]_vars => Passed'
<1> SUFFICES ASSUME Reader, PlaceOf, Passed, [Next]_vars, NEW c \in written
             PROVE  c \in Command /\ Understood(c)'
  BY StepWritten DEF Passed
<1>1. c \in Command /\ Understood(c)
  BY DEF Passed
<1>2. CASE Next
  BY <1>1, <1>2, StepPassed
<1>3. CASE UNCHANGED vars
  BY <1>1, <1>3 DEF vars, Understood
<1> QED
  BY <1>1, <1>2, <1>3

\* Whatever command one side serialises, the other understands as it was, and its own
\* side refuses, cut by the size it declares (serialize, get_serialized_size and ::read
\* in net/protocol.cpp).
THEOREM WrittenIsRead == Spec => []RoundTrip
<1> DEFINE Inv == Reader /\ PlaceOf /\ Passed
<1>1. Init => Inv
  BY InitReader, InitPassed
<1>2. Inv /\ [Next]_vars => Inv'
  BY StepReader, KeepPassed
<1>3. Inv => RoundTrip
  BY DEF Passed, Understood, RoundTrip
<1> QED
  BY <1>1, <1>2, <1>3, PTL DEF Spec
=============================================================================
