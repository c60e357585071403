-------------------------------- MODULE Framing --------------------------------
(***************************************************************************)
(* How t_connection::do_read cuts the bytes that arrive into messages.     *)
(*                                                                         *)
(* A byte is named by its position in the stream, 1 being the first byte   *)
(* the peer sends, so that a byte in the wrong place is seen. What the     *)
(* four bytes of a header say is the size of the frame whose header they   *)
(* are; four bytes that are not a header say anything.                     *)
(***************************************************************************)
EXTENDS Naturals, Sequences

CONSTANTS
  Header,       \* MSG_SIZE_BYTES
  MaxMessage,   \* MAX_MESSAGE_SIZE
  BufferSize,   \* BUFFER_SIZE
  Size,         \* what peers write into the length field
  MaxBytes      \* bound: bytes the peer sends

ASSUME FramingAssumption ==
  /\ Header \in Nat \ {0} /\ MaxMessage \in Nat /\ BufferSize \in Nat
  /\ Header <= MaxMessage /\ MaxMessage <= BufferSize
  /\ Size \subseteq Nat /\ MaxBytes \in Nat

VARIABLES
  frames,       \* what the peer has sent: for each frame the bytes before it, the
                \* length field, and whether ::read can make a command of it
  got,          \* bytes that async_read_some has taken from the stream
  buffer,       \* buffer_, 0 where nothing was written yet
  unparsed,     \* unparsed_bytes_
  pc,           \* "reading", "parsing" in the handler, or "stopped"
  n, offset,    \* locals of the handler
  delivered,    \* the vectors ::read has accepted
  broken        \* the socket was closed, or the peer or the network ended it

readVars == <<buffer, unparsed, pc, n, offset>>
vars == <<frames, got, readVars, delivered, broken>>
-----------------------------------------------------------------------------
\* A frame is as long as it says, and has a header in any case.
Width(size) == IF size < Header THEN Header ELSE size
End(f) == f.at + Width(f.size)
Total == IF frames = <<>> THEN 0 ELSE End(frames[Len(frames)])

Bytes(after, count) == [j \in 1..count |-> after + j]
Payload(f) == Bytes(f.at + Header, Width(f.size) - Header)

InRangeBelow(size) == Header <= size                  \* mutant: no upper limit
InRange(size) == Header <= size /\ size <= MaxMessage
Good(f) == f.ok /\ Header <= f.size /\ f.size <= MaxMessage

\* The possible values of msg_size for the bytes at offset.
HeaderAt(f) == \A j \in 1..Header : buffer[offset + j] = f.at + j
Declared == LET found == {i \in DOMAIN frames : HeaderAt(frames[i])}
            IN  IF found = {} THEN Size ELSE {frames[i].size : i \in found}

VectorFromHeader(size) ==                             \* mutant: header not skipped
  [j \in 1..(size - Header) |-> buffer[offset + j]]

\* The vector copied for a message of this size, and whether ::read may accept it.
Vector(size) == [j \in 1..(size - Header) |-> buffer[offset + Header + j]]
Accepts(v) == LET found == {i \in DOMAIN frames : v = Payload(frames[i])}
              IN  IF found = {} THEN BOOLEAN ELSE {frames[i].ok : i \in found}
-----------------------------------------------------------------------------
Init ==
  /\ frames = <<>> /\ got = 0
  /\ buffer = [p \in 1..BufferSize |-> 0] /\ unparsed = 0
  /\ pc = "reading" /\ n = 0 /\ offset = 0
  /\ delivered = <<>> /\ broken = FALSE

\* The peer sends a frame. Without content ::read finds no type and throws.
Transmit(size, ok) ==
  /\ Total + Width(size) <= MaxBytes
  /\ ok => Header < size
  /\ frames' = Append(frames, [at |-> Total, size |-> size, ok |-> ok])
  /\ UNCHANGED <<got, readVars, delivered, broken>>

\* close() on the strand, the end of the peer, or an error.
Break ==
  /\ ~broken /\ broken' = TRUE
  /\ UNCHANGED <<frames, got, readVars, delivered>>

\* async_read_some takes what it likes of the bytes there are, and at once nothing
\* when it is given no space.
ReadSome ==
  /\ pc = "reading"
  /\ LET free == BufferSize - unparsed IN
     \E k \in 0..free :
       /\ k = 0 <=> free = 0
       /\ got + k <= Total
       /\ got' = got + k
       /\ buffer' = [p \in 1..BufferSize |->
                       IF unparsed < p /\ p <= unparsed + k THEN got + (p - unparsed) ELSE buffer[p]]
       /\ n' = unparsed + k
  /\ offset' = 0 /\ pc' = "parsing"
  /\ UNCHANGED <<frames, unparsed, delivered, broken>>

ReadFails ==
  /\ pc = "reading" /\ broken
  /\ pc' = "stopped"
  /\ UNCHANGED <<frames, got, buffer, unparsed, n, offset, delivered, broken>>

HasHeader == n - offset >= Header
CompleteAndMore(size) == n - offset > size            \* mutant: off by one
Complete(size) == n - offset >= size

DeliverPastHeader ==                                  \* mutant: length taken for that of the content
  /\ pc = "parsing" /\ HasHeader
  /\ \E size \in Declared :
       /\ InRange(size) /\ Complete(size)
       /\ TRUE \in Accepts(Vector(size))
       /\ delivered' = Append(delivered, Vector(size))
       /\ offset' = offset + Header + size
  /\ UNCHANGED <<frames, got, buffer, unparsed, pc, n, broken>>

\* One round of the loop: a vector for ::read, which processes it ...
Deliver ==
  /\ pc = "parsing" /\ HasHeader
  /\ \E size \in Declared :
       /\ InRange(size) /\ Complete(size)
       /\ TRUE \in Accepts(Vector(size))
       /\ delivered' = Append(delivered, Vector(size))
       /\ offset' = offset + size
  /\ UNCHANGED <<frames, got, buffer, unparsed, pc, n, broken>>

\* ... or throws; or an impossible size: a close is posted and nothing read any more.
Refuse ==
  /\ pc = "parsing" /\ HasHeader
  /\ \E size \in Declared :
       \/ ~InRange(size)
       \/ InRange(size) /\ Complete(size) /\ FALSE \in Accepts(Vector(size))
  /\ pc' = "stopped"
  /\ UNCHANGED <<frames, got, buffer, unparsed, n, offset, delivered, broken>>

CompactInPlace ==                                     \* mutant: memmove left out
  unparsed' = n - offset /\ UNCHANGED buffer

\* memmove of what is left to the front of the buffer.
Compact ==
  /\ unparsed' = n - offset
  /\ buffer' = [p \in 1..BufferSize |-> IF p <= n - offset THEN buffer[offset + p] ELSE buffer[p]]

\* The end of the loop, and do_read again, which returns if the socket is closed.
ReadAgain ==
  /\ pc = "parsing"
  /\ HasHeader => \E size \in Declared : InRange(size) /\ ~Complete(size)
  /\ Compact
  /\ pc' = "reading" \/ (broken /\ pc' = "stopped")
  /\ UNCHANGED <<frames, got, n, offset, delivered, broken>>

Handler == ReadSome \/ ReadFails \/ Deliver \/ Refuse \/ ReadAgain

Next ==
  \/ \E size \in Size, ok \in BOOLEAN : Transmit(size, ok)
  \/ Break
  \/ Handler

Spec == Init /\ [][Next]_vars

\* The pool runs handlers, and the network delivers what it has accepted or breaks.
FairSpec == Spec /\ WF_vars(Handler)
-----------------------------------------------------------------------------
\* The bytes that are in the buffer and not yet handed on, and where in the stream
\* the next frame starts.
Low  == IF pc = "parsing" THEN offset ELSE 0
High == IF pc = "parsing" THEN n ELSE unparsed
Start == IF delivered = <<>> THEN 0 ELSE End(frames[Len(delivered)])

Sending == [at : 0..MaxBytes, size : Size, ok : BOOLEAN]

\* One type for each variable; the handler's offset never passes its n.
TypeOK ==
  /\ frames \in Seq(Sending)
  /\ got \in 0..MaxBytes
  /\ buffer \in [1..BufferSize -> 0..MaxBytes]
  /\ unparsed \in 0..BufferSize
  /\ pc \in {"reading", "parsing", "stopped"}
  /\ n \in 0..BufferSize /\ offset \in 0..n
  /\ delivered \in Seq(Seq(0..MaxBytes))
  /\ broken \in BOOLEAN

\* However the bytes were cut up, what is in the buffer is the stream from the start
\* of the next frame up to the last byte read (do_read, lines 120 to 158).
Framed ==
  pc # "stopped" =>
    /\ got = Start + (High - Low)
    /\ \A k \in 1..(High - Low) : buffer[Low + k] = Start + k

\* A read is never started without space, which would complete at once, for ever: an
\* incomplete frame is shorter than the buffer (lines 112, 127 and 133).
NeverFull == pc = "reading" => unparsed < BufferSize
-----------------------------------------------------------------------------
Contents == UNION {{Bytes(a, Width(s) - Header) : a \in 0..MaxBytes} : s \in Size}
Frame == [payload : Contents, good : BOOLEAN]
Sent == [i \in DOMAIN frames |-> [payload |-> Payload(frames[i]), good |-> Good(frames[i])]]

Stream == INSTANCE MessageStream WITH
            Message <- Frame, sent <- Sent, received <- delivered, reading <- pc # "stopped"

\* do_read implements the message stream: what ::read is given are the contents of the
\* frames that were sent, in order, and reading stops only for a bad frame or a break.
Implements == Stream!Spec

\* It also makes progress: a good frame that was sent is handed on in the end, unless
\* a bad one comes before it or the connection breaks.
Progresses == Stream!FairSpec
=============================================================================
