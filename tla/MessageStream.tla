----------------------------- MODULE MessageStream -----------------------------
(***************************************************************************)
(* What the reading side of a connection promises, with no bytes in it:    *)
(* messages are handed on in the order they were sent, each once and       *)
(* whole; a message that cannot be accepted is not handed on and ends the  *)
(* reading; and reading ends for no other reason than that or a            *)
(* connection that broke.                                                  *)
(***************************************************************************)
EXTENDS Naturals, Sequences

CONSTANT
  Message     \* records with the fields payload and good

VARIABLES
  sent,       \* the messages the peer has sent
  received,   \* the payloads that were handed on
  broken,     \* the connection was closed, ended or failed
  reading     \* the reading goes on

vars == <<sent, received, broken, reading>>

Init == /\ sent = <<>> /\ received = <<>>
        /\ broken = FALSE /\ reading = TRUE

Due == Len(received) < Len(sent)
Upcoming == sent[Len(received) + 1]

Send == /\ \E m \in Message : sent' = Append(sent, m)
        /\ UNCHANGED <<received, broken, reading>>

Break == /\ broken' = TRUE
         /\ UNCHANGED <<sent, received, reading>>

Deliver == /\ reading /\ Due /\ Upcoming.good
           /\ received' = Append(received, Upcoming.payload)
           /\ UNCHANGED <<sent, broken, reading>>

Stop == /\ reading
        /\ broken \/ (Due /\ ~Upcoming.good)
        /\ reading' = FALSE
        /\ UNCHANGED <<sent, received, broken>>

Next == Send \/ Break \/ Deliver \/ Stop

Spec == Init /\ [][Next]_vars
FairSpec == Spec /\ WF_vars(Deliver \/ Stop)
=============================================================================
