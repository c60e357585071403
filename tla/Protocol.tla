-------------------------------- MODULE Protocol --------------------------------
(***************************************************************************)
(* The commands on the wire: what serialize writes, the size it declares,  *)
(* and ::read, which takes a vector apart field by field with a            *)
(* memory_reader and may be given any bytes at all.                        *)
(*                                                                         *)
(* A vector consists of bytes 0..Base-1.  The widths keep the order of     *)
(* those in the code: a length (uint32) is two bytes, low byte first; a    *)
(* type, a request number and a counter are one.                           *)
(***************************************************************************)
EXTENDS Naturals, Sequences

CONSTANTS
  Base,         \* values of a byte
  MaxString,    \* bound: length of the strings in commands that are written
  MaxInput      \* bound: length of a vector of arbitrary bytes

ASSUME ProtocolAssumption ==
  /\ Base \in Nat /\ Base > 2 /\ MaxInput \in Nat
  /\ MaxString \in Nat /\ MaxString < Base * Base

VARIABLES
  side,         \* which of the two ::read functions
  written,      \* {c} if the vector is the content of a serialised command c, or {}
  input,        \* the vector
  at,           \* the field to be read next, "end", "accepted", or "refused" if it threw
  offset,       \* offset_ of the memory_reader
  cmd           \* the command under construction

vars == <<side, written, input, at, offset, cmd>>

Byte == 0..(Base - 1)
GET == 0
SET == 1
GET_RESPONSE == 2
Accepted(s) == IF s = "server" THEN {GET, SET} ELSE {GET_RESPONSE}
-----------------------------------------------------------------------------
(* serialize and get_serialized_size.                                      *)

LengthSize == 2
WriteString(s) == <<Len(s) % Base, Len(s) \div Base>> \o s

\* What follows the length field.
Content(c) ==
  LET command == <<c.type>> \o WriteString(c.key)
  IN CASE c.type = GET -> command \o <<c.id>>
       [] c.type = SET -> command \o WriteString(c.value)
       [] c.type = GET_RESPONSE ->
            (command \o <<c.id, c.reads, c.writes>>) \o WriteString(c.value)

\* Mutant: the length field of the value is not counted in a response.
SizeShort(c) ==
  LET command == LengthSize + 1 + LengthSize + Len(c.key)
  IN CASE c.type = GET -> command + 1
       [] c.type = SET -> command + LengthSize + Len(c.value)
       [] c.type = GET_RESPONSE -> command + 3 + Len(c.value)

Size(c) ==
  LET command == LengthSize + 1 + LengthSize + Len(c.key)
  IN CASE c.type = GET -> command + 1
       [] c.type = SET -> command + LengthSize + Len(c.value)
       [] c.type = GET_RESPONSE -> command + 3 + LengthSize + Len(c.value)

\* What the receiver cuts out of the stream for c, by the size that c declares: if
\* that is too large, bytes of the next frame.
Cut(c) == [i \in 1..(Size(c) - LengthSize) |->
             IF i <= Len(Content(c)) THEN Content(c)[i] ELSE 0]

String == UNION {[1..n -> Byte] : n \in 0..MaxString}
Fields(t, k, i, r, w, v) ==
  [type |-> t, key |-> k, id |-> i, reads |-> r, writes |-> w, value |-> v]

\* The commands that are sent. Request numbers skip 0, and a response repeats the
\* number of its request.
Command ==
  (UNION {{Fields(GET, k, i, 0, 0, <<>>) : i \in Byte \ {0}} : k \in String})
  \cup (UNION {{Fields(SET, k, 0, 0, 0, v) : v \in String} : k \in String})
  \cup {Fields(GET_RESPONSE, f[1], f[2], f[3], f[4], f[5]) :
          f \in String \X (Byte \ {0}) \X Byte \X Byte \X String}
-----------------------------------------------------------------------------
Init ==
  /\ side \in {"server", "client"}
  /\ \/ \E c \in Command : written = {c} /\ input = Cut(c)
     \/ written = {} /\ input \in UNION {[1..n -> Byte] : n \in 0..MaxInput}
  /\ at = "type" /\ offset = 0
  /\ cmd = Fields(GET, <<>>, 0, 0, 0, <<>>)

\* memory_reader::read: there must be so many bytes left.  What lies behind the
\* vector is not known.
Room(n) == offset + n <= Len(input)
Peek(i) == IF offset + i <= Len(input) THEN input[offset + i] ELSE 0
Taken(n) == [i \in 1..n |-> Peek(i)]

\* The constructor of get_command draws a number from a counter that all threads
\* use without a lock.
ReadType ==
  /\ at = "type" /\ Room(1) /\ Peek(1) \in Accepted(side)
  /\ \E drawn \in IF Peek(1) = GET THEN Byte ELSE {0} :
       cmd' = Fields(Peek(1), <<>>, drawn, 0, 0, <<>>)
  /\ at' = "key" /\ offset' = offset + 1
  /\ UNCHANGED <<side, written, input>>

After(f) ==
  CASE f = "key"    -> IF cmd.type = SET THEN "value" ELSE "id"
    [] f = "id"     -> IF cmd.type = GET THEN "end" ELSE "reads"
    [] f = "reads"  -> "writes"
    [] f = "writes" -> "value"
    [] f = "value"  -> "end"

ReadNumber ==
  /\ at \in {"id", "reads", "writes"} /\ Room(1)
  /\ cmd' = [cmd EXCEPT ![at] = Peek(1)]
  /\ at' = After(at) /\ offset' = offset + 1
  /\ UNCHANGED <<side, written, input>>

StringLength == Peek(1) + Base * Peek(2)

StringFitsAlone == StringLength <= Len(input)      \* mutant: offset_ forgotten
StringFits == Room(LengthSize + StringLength)

ReadString ==
  /\ at \in {"key", "value"} /\ Room(LengthSize) /\ StringFits
  /\ cmd' = [cmd EXCEPT ![at] = [i \in 1..StringLength |-> Peek(LengthSize + i)]]
  /\ at' = After(at) /\ offset' = offset + (LengthSize + StringLength)
  /\ UNCHANGED <<side, written, input>>

EndIgnored == cmd.type # SET => cmd.id # 0         \* mutant: no test of is_end
\* The number is not 0, and nothing is left.
Complete == (cmd.type # SET => cmd.id # 0) /\ offset >= Len(input)

Finish ==
  /\ at = "end" /\ Complete
  /\ at' = "accepted"
  /\ UNCHANGED <<side, written, input, offset, cmd>>

\* An exception leaves ::read, from whichever of the tests above.
Throw ==
  /\ \/ at = "type" /\ ~(Room(1) /\ Peek(1) \in Accepted(side))
     \/ at \in {"id", "reads", "writes"} /\ ~Room(1)
     \/ at \in {"key", "value"} /\ ~(Room(LengthSize) /\ StringFits)
     \/ at = "end" /\ ~Complete
  /\ at' = "refused"
  /\ UNCHANGED <<side, written, input, offset, cmd>>

Next == ReadType \/ ReadNumber \/ ReadString \/ Finish \/ Throw

Spec == Init /\ [][Next]_vars
-----------------------------------------------------------------------------
\* Types; the reader never gets past the end of the vector, whatever lengths the
\* bytes in it claim.
TypeOK ==
  /\ side \in {"server", "client"}
  /\ written \subseteq Command
  /\ input \in Seq(Byte) /\ offset \in 0..Len(input)
  /\ at \in {"type", "key", "id", "reads", "writes", "value", "end",
             "accepted", "refused"}
  /\ cmd \in [type : {GET, SET, GET_RESPONSE}, key : Seq(Byte), id : Byte,
              reads : Byte, writes : Byte, value : Seq(Byte)]

\* ::read accepts nothing but what serialize writes for the command that comes out
\* of it: no byte is ignored, no two vectors mean the same command, and the number
\* that the constructor drew from the shared counter is never seen.
Canonical ==
  at = "accepted" =>
    /\ input = Content(cmd)
    /\ cmd.type \in Accepted(side)
    /\ cmd.type # SET => cmd.id # 0

\* A command that one side sends is understood by the other and refused by its own;
\* what comes out is what was written, by the size it declares.
RoundTrip ==
  \A c \in written :
    /\ at = "accepted" => cmd = c
    /\ at = "refused" => c.type \notin Accepted(side)
=============================================================================
