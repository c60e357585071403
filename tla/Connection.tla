------------------------------- MODULE Connection -------------------------------
(***************************************************************************)
(* One connection of the server: class t_connection, with the session that *)
(* owns it and the read side of its dispatcher.                            *)
(*                                                                         *)
(* Three kinds of steps interleave, run by any threads of the pool: the    *)
(* tasks of strand_, one at a time and in the order they were posted; the  *)
(* completion handlers of the socket and of idle_timer_, which are NOT     *)
(* bound to the strand; and what the peer, the network and the clock do.   *)
(* A strand task and the tail of the read handler take two steps or more,  *)
(* so that they can be seen to overlap.                                    *)
(***************************************************************************)
EXTENDS Naturals, Sequences

CONSTANTS
  MaxReads,   \* bound: reads that complete with data
  MaxBatch    \* bound: messages that one read completes

ASSUME ConnectionAssumption == MaxReads \in Nat /\ MaxBatch \in Nat

VARIABLES
  open,       \* socket_.is_open()
  strand,     \* tasks posted to strand_ that have not begun
  running,    \* the task of strand_ that a thread runs
  queue,      \* send_queue_, the number of the response in each buffer
  writes,     \* calls of async_write whose handler has not run
  rd,         \* the call of async_read_some, and how it completed
  hpc, batch, \* where the read handler is, the messages it has yet to parse
  timer,      \* the wait on idle_timer_
  fired,      \* a wait that expired: its handler is due, too late to cancel
  reads,      \* reads that have completed with data
  asked,      \* responses that the dispatcher has handed to send
  sent,       \* responses the peer was sent in full, in order
  ub          \* the program has popped an empty queue: anything may follow

netVars  == <<open, rd, writes, sent>>
timeVars == <<timer, fired>>
taskVars == <<strand, running>>
readVars == <<hpc, batch, reads, asked>>
vars == <<netVars, timeVars, taskVars, readVars, queue, ub>>
-----------------------------------------------------------------------------
(* What the peer sends: a request that is answered, one that is not, and   *)
(* bytes with an impossible length or content.                             *)
Message == {"get", "set", "bad"}

\* What follows a bad message is never looked at.
Batch == {b \in UNION {[1..n -> Message] : n \in 0..MaxBatch} :
            \A i \in DOMAIN b : b[i] = "bad" => i = Len(b)}

\* arg is the number of a response for send, otherwise 0.
Task(o, a) == [op |-> o, arg |-> a]
NoTask     == Task("none", 0)

\* All tasks not yet finished, in the order of the strand.
Tasks == IF running = NoTask THEN strand ELSE <<running>> \o strand
HasTask(o) == \E i \in 1..Len(Tasks) : Tasks[i].op = o

Post(o, a) == strand' = Append(strand, Task(o, a))

\* The read operation, its handler and the first task hold the session, which
\* holds the connection; a running task and the tasks that close or send the
\* next message hold the connection.  All others have a weak pointer.
Alive ==
  \/ rd # "none" \/ hpc # "idle" \/ running # NoTask
  \/ HasTask("read") \/ HasTask("close") \/ HasTask("next")

Live == Alive /\ ~ub

\* reset_idle_timer: cancel the wait, unless it has already expired, and wait
\* for 30 seconds from now.  The handler of an expired wait stays due.
ResetTimer == timer' = "armed" /\ UNCHANGED fired

\* session::start on an accepted socket.
Init ==
  /\ open = TRUE
  /\ strand = <<Task("read", 0)>> /\ running = NoTask
  /\ queue = <<>> /\ writes = <<>>
  /\ rd = "none" /\ hpc = "idle" /\ batch = <<>>
  /\ timer = "off" /\ fired = FALSE
  /\ reads = 0 /\ asked = 0 /\ sent = <<>>
  /\ ub = FALSE
-----------------------------------------------------------------------------
(* The tasks of the strand.                                                *)

Begin ==
  /\ Live /\ running = NoTask /\ strand # <<>>
  /\ running' = Head(strand) /\ strand' = Tail(strand)
  /\ UNCHANGED <<netVars, timeVars, readVars, queue, ub>>

Finish(o) == Live /\ running.op = o /\ running' = NoTask

StartWrite(m) == writes' = Append(writes, [msg |-> m, st |-> "pending"])

\* Mutant: do_read without reset_idle_timer.
FirstReadUntimed ==
  /\ Finish("read") /\ open
  /\ rd' = "pending"
  /\ UNCHANGED <<open, writes, sent, timeVars, strand, readVars, queue, ub>>

\* The task of read: do_read, when the socket is open.
FirstRead ==
  /\ Finish("read") /\ open
  /\ ResetTimer /\ rd' = "pending"
  /\ UNCHANGED <<open, writes, sent, strand, readVars, queue, ub>>

\* Mutant: send writes at once, whether a write is in progress or not.
SendAtOnce ==
  /\ Finish("send") /\ open
  /\ ResetTimer
  /\ queue' = Append(queue, running.arg)
  /\ StartWrite(running.arg)
  /\ UNCHANGED <<open, rd, sent, strand, readVars, ub>>

\* The task of send: queue the message, and write it if nothing is being written.
Send ==
  /\ Finish("send") /\ open
  /\ ResetTimer
  /\ queue' = Append(queue, running.arg)
  /\ IF queue = <<>> THEN StartWrite(running.arg) ELSE UNCHANGED writes
  /\ UNCHANGED <<open, rd, sent, strand, readVars, ub>>

\* The first read and send do nothing on a socket that is closed.
TaskOnClosed ==
  /\ Finish("read") \/ Finish("send")
  /\ ~open
  /\ UNCHANGED <<netVars, timeVars, strand, readVars, queue, ub>>

\* Mutant: the front is taken before the written message is dropped.
SendNextRepeats ==
  /\ Finish("next") /\ queue # <<>>
  /\ queue' = Tail(queue)
  /\ IF Len(queue) > 1 THEN ResetTimer /\ StartWrite(queue[1])
                       ELSE UNCHANGED <<writes, timeVars>>
  /\ UNCHANGED <<open, rd, sent, strand, readVars, ub>>

\* Mutant: the written message is dropped only if another one waits.
SendNextKeeps ==
  /\ Finish("next") /\ queue # <<>>
  /\ queue' = IF Len(queue) > 1 THEN Tail(queue) ELSE queue
  /\ IF Len(queue) > 1 THEN ResetTimer /\ StartWrite(queue[2])
                       ELSE UNCHANGED <<writes, timeVars>>
  /\ UNCHANGED <<open, rd, sent, strand, readVars, ub>>

\* send_next: drop the message that was written and write the next one.
SendNext ==
  /\ Finish("next") /\ queue # <<>>
  /\ queue' = Tail(queue)
  /\ IF Len(queue) > 1 THEN ResetTimer /\ StartWrite(queue[2])
                       ELSE UNCHANGED <<writes, timeVars>>
  /\ UNCHANGED <<open, rd, sent, strand, readVars, ub>>

\* send_next does not ask whether the queue has been cleared: std::queue::pop on
\* an empty queue is undefined behaviour.
SendNextOnEmpty ==
  /\ Finish("next") /\ queue = <<>>
  /\ ub' = TRUE
  /\ UNCHANGED <<netVars, timeVars, strand, readVars, queue>>

\* close: operations in progress are aborted; a write of several pieces that
\* is between two of them finds a closed socket and fails.
Close ==
  /\ Finish("close")
  /\ open' = FALSE
  /\ IF open
     THEN /\ rd' = IF rd = "pending" THEN "aborted" ELSE rd
          /\ writes' \in {[i \in DOMAIN writes |->
               IF writes[i].st = "pending" THEN [writes[i] EXCEPT !.st = st]
                                           ELSE writes[i]] : st \in {"aborted", "failed"}}
          /\ timer' = "off" /\ queue' = <<>>
     ELSE UNCHANGED <<rd, writes, timer, queue>>
  /\ UNCHANGED <<sent, fired, strand, readVars, ub>>
-----------------------------------------------------------------------------
(* The handler of async_read_some.                                         *)

readFrame == <<queue, writes, open, sent, running, ub>>

\* Data has come: take the messages that are complete.
ReadDone ==
  /\ Live /\ rd = "ready"
  /\ rd' = "none" /\ hpc' = "parse"
  /\ UNCHANGED <<readFrame, timeVars, strand, batch, reads, asked>>

\* Mutant: every message is answered, also a set.
ParseAnswersAll ==
  /\ Live /\ hpc = "parse" /\ batch # <<>> /\ Head(batch) # "bad"
  /\ batch' = Tail(batch)
  /\ asked' = IF Head(batch) = "get" THEN asked + 1 ELSE asked
  /\ Post("send", asked + 1)
  /\ UNCHANGED <<readFrame, timeVars, rd, hpc, reads>>

\* A message passes through ::read to the dispatcher; a get is answered by
\* socket->send.
Parse ==
  /\ Live /\ hpc = "parse" /\ batch # <<>> /\ Head(batch) # "bad"
  /\ batch' = Tail(batch)
  /\ IF Head(batch) = "get" THEN asked' = asked + 1 /\ Post("send", asked + 1)
                            ELSE UNCHANGED <<asked, strand>>
  /\ UNCHANGED <<readFrame, timeVars, rd, hpc, reads>>

\* An impossible length, or an exception while the message is read: the rest of
\* what was received is not looked at.
ParseFails ==
  /\ Live /\ hpc = "parse" /\ batch # <<>> /\ Head(batch) = "bad"
  /\ Post("close", 0)
  /\ hpc' = "idle" /\ batch' = <<>>
  /\ UNCHANGED <<readFrame, timeVars, rd, reads, asked>>

ParseEnds ==
  /\ Live /\ hpc = "parse" /\ batch = <<>>
  /\ hpc' = "check"
  /\ UNCHANGED <<readFrame, timeVars, strand, rd, batch, reads, asked>>

\* do_read again, now outside the strand, in three steps.
Check ==
  /\ Live /\ hpc = "check"
  /\ hpc' = IF open THEN "timer" ELSE "idle"
  /\ UNCHANGED <<readFrame, timeVars, strand, rd, batch, reads, asked>>

ReadTimer ==
  /\ Live /\ hpc = "timer"
  /\ hpc' = "arm" /\ ResetTimer
  /\ UNCHANGED <<readFrame, strand, rd, batch, reads, asked>>

\* On a socket that was closed meanwhile the operation fails at once.
ReadAgain ==
  /\ Live /\ hpc = "arm"
  /\ hpc' = "idle" /\ rd' = IF open THEN "pending" ELSE "error"
  /\ UNCHANGED <<readFrame, timeVars, strand, batch, reads, asked>>

\* End of file and an aborted read only let go of the session.
ReadEnds ==
  /\ Live /\ rd \in {"eof", "aborted"}
  /\ rd' = "none"
  /\ UNCHANGED <<readFrame, timeVars, strand, readVars>>

ReadFails ==
  /\ Live /\ rd = "error"
  /\ rd' = "none" /\ Post("close", 0)
  /\ UNCHANGED <<readFrame, timeVars, readVars>>
-----------------------------------------------------------------------------
(* The handlers of async_write and of the idle timer.                      *)

\* Mutant: the handler goes on with the next message whatever became of this one.
WriteHandlerBlind(i) ==
  /\ Live /\ writes[i].st # "pending"
  /\ writes' = [j \in 1..(Len(writes) - 1) |-> writes[IF j < i THEN j ELSE j + 1]]
  /\ Post("next", 0)
  /\ UNCHANGED <<open, rd, sent, timeVars, running, readVars, queue, ub>>

WriteHandler(i) ==
  /\ Live /\ writes[i].st # "pending"
  /\ writes' = [j \in 1..(Len(writes) - 1) |-> writes[IF j < i THEN j ELSE j + 1]]
  /\ CASE writes[i].st = "done"    -> Post("next", 0)
       [] writes[i].st = "failed"  -> Post("close", 0)
       [] writes[i].st = "aborted" -> UNCHANGED strand
  /\ UNCHANGED <<open, rd, sent, timeVars, running, readVars, queue, ub>>

\* "Nothing happened for 30 seconds, closing connection"; also when a read or a write
\* has begun since the wait expired.
TimerHandler ==
  /\ Live /\ fired
  /\ fired' = FALSE /\ Post("close", 0)
  /\ UNCHANGED <<netVars, timer, running, readVars, queue, ub>>
-----------------------------------------------------------------------------
(* The network, the peer and the clock.                                    *)

envFrame == <<open, taskVars, hpc, asked, queue, ub>>

\* Some bytes arrive; they complete the messages of b, perhaps none.
Arrive ==
  /\ Live /\ rd = "pending" /\ reads < MaxReads
  /\ rd' = "ready" /\ batch' \in Batch /\ reads' = reads + 1
  /\ UNCHANGED <<envFrame, writes, sent, timeVars>>

PeerEnds ==
  /\ Live /\ rd = "pending"
  /\ rd' \in {"eof", "error"}
  /\ UNCHANGED <<envFrame, writes, sent, timeVars, batch, reads>>

WriteDone(i) ==
  /\ Live /\ writes[i].st = "pending"
  /\ writes' = [writes EXCEPT ![i].st = "done"]
  /\ sent' = Append(sent, writes[i].msg)
  /\ UNCHANGED <<envFrame, rd, timeVars, batch, reads>>

WriteFails(i) ==
  /\ Live /\ writes[i].st = "pending"
  /\ writes' = [writes EXCEPT ![i].st = "failed"]
  /\ UNCHANGED <<envFrame, rd, sent, timeVars, batch, reads>>

\* 30 seconds have passed.  Threads of the pool are not held up for that long: the
\* handler of an earlier expiry and a close that was due have run by then.
Expire ==
  /\ Live /\ timer = "armed" /\ ~fired /\ ~HasTask("close")
  /\ timer' = "off" /\ fired' = TRUE
  /\ UNCHANGED <<envFrame, rd, writes, sent, batch, reads>>

\* The connection is destroyed, or undefined behaviour has happened.
Over == ~Live /\ UNCHANGED vars
-----------------------------------------------------------------------------
StrandRun == Begin \/ FirstRead \/ Send \/ TaskOnClosed \/ SendNext
               \/ SendNextOnEmpty \/ Close

ReadRun == ReadDone \/ Parse \/ ParseFails \/ ParseEnds \/ Check \/ ReadTimer
             \/ ReadAgain \/ ReadEnds \/ ReadFails

Next ==
  \/ StrandRun \/ ReadRun \/ TimerHandler
  \/ \E i \in DOMAIN writes : WriteHandler(i) \/ WriteDone(i) \/ WriteFails(i)
  \/ Arrive \/ PeerEnds \/ Expire \/ Over

Spec == Init /\ [][Next]_vars

\* Threads of the pool run what is due, and time passes; the peer need neither
\* send nor read.
FairSpec ==
  Spec /\ WF_vars(StrandRun) /\ WF_vars(ReadRun) /\ WF_vars(TimerHandler) /\ WF_vars(Expire)
-----------------------------------------------------------------------------
(* Properties.                                                             *)

TypeOK ==
  /\ open \in BOOLEAN /\ ub \in BOOLEAN
  /\ \A t \in {Tasks[i] : i \in DOMAIN Tasks} :
       \/ t.op \in {"read", "next", "close"} /\ t.arg = 0
       \/ t.op = "send" /\ t.arg \in 1..asked
  /\ queue \in Seq(1..asked) /\ sent \in Seq(1..asked)
  /\ writes \in Seq([msg : 1..asked, st : {"pending", "done", "failed", "aborted"}])
  /\ rd \in {"none", "pending", "ready", "eof", "error", "aborted"}
  /\ hpc \in {"idle", "parse", "check", "timer", "arm"} /\ batch \in Batch
  /\ timer \in {"off", "armed"} /\ fired \in BOOLEAN
  /\ reads \in 0..MaxReads /\ asked \in Nat

\* At most one async_write is under way, and what it writes is at the front of
\* send_queue_, however send, the write handler and close interleave: the bytes
\* of two messages never mix.
SingleWriter ==
  /\ Len(writes) <= 1
  /\ open => \A i \in DOMAIN writes : queue # <<>> /\ writes[i].msg = Head(queue)

\* The queue never stalls: as long as the socket is open and no close is due, a
\* message is in the queue exactly while it is being written or the task that will
\* drop it is due.
QueueMoves ==
  open /\ ~HasTask("close") => (queue # <<>> <=> writes # <<>> \/ HasTask("next"))

Numbers(n) == [i \in 1..n |-> i]

\* The responses reach the peer in the order of its requests, none twice and
\* none left out, even if the connection is closed half-way.
InOrder == sent = Numbers(Len(sent)) /\ Len(sent) <= asked

\* The n-th response is in the queue or in a task of send.
Waits(n) == \/ \E i \in DOMAIN queue : queue[i] = n
            \/ \E i \in DOMAIN Tasks : Tasks[i] = Task("send", n)

\* As long as the socket is open and no close is due no response is lost: what was
\* asked for and is not yet sent waits.
NothingDropped ==
  open /\ ~HasTask("close") => \A n \in (Len(sent) + 1)..asked : Waits(n)

\* A connection whose peer has stopped sending is eventually destroyed, whatever
\* it was doing: the idle timer is never left unset.
Reaped == <>~Live

\* README.rst:49 says that all operations on the socket are protected by the
\* strand.  The read handler would then never use the socket and its timer while
\* a task of the strand runs.
SocketOpsOnStrand == running # NoTask => hpc \notin {"check", "timer", "arm"}

\* README.rst:50 says that sending is serialised through the queue.  Its front
\* would then be there to be popped whenever a write has completed.
NoPopOnEmpty == ~ub
=============================================================================
