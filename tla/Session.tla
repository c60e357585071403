-------------------------------- MODULE Session --------------------------------
(***************************************************************************)
(* A whole session: the sample client, which connects and posts all its    *)
(* requests at once, the server's session that answers them from the       *)
(* store, a t_connection at either end, and two pipes of the network that  *)
(* hold only so much.  Other clients change the store meanwhile.           *)
(*                                                                         *)
(* Both ends are the same template and share its actions.  How one end     *)
(* interleaves in detail is the subject of Connection; here a strand task  *)
(* and a completion handler are one step each.                             *)
(***************************************************************************)
EXTENDS Naturals, Sequences, FiniteSets

CONSTANTS
  Key,
  KeySize,        \* length of the keys
  ClientValue,    \* length of the values of the sample client
  OtherValue,     \* lengths of the values of other clients
  MaxMessage,     \* MAX_MESSAGE_SIZE
  Numbers,        \* how many request numbers there are: 65535
  Capacity,       \* messages that a pipe holds
  MaxRequests,    \* bound: requests of the client
  MaxOthers       \* bound: sets of other clients

\* Sizes of serialised commands: length 4, type 1, lengths of strings 4, a request
\* number 2, counters 8 each.
SetSize(v) == 4 + 1 + (4 + KeySize) + (4 + v)
ResponseSize(v) == 4 + 1 + (4 + KeySize) + 2 + 8 + 8 + (4 + v)
NotFound == 9     \* the length of "not found"

ASSUME SessionAssumption ==
  /\ KeySize \in Nat /\ ClientValue \in Nat /\ OtherValue \subseteq Nat
  /\ MaxMessage \in Nat /\ MaxRequests \in Nat /\ MaxOthers \in Nat
  /\ Numbers \in Nat \ {0} /\ Capacity \in Nat \ {0}
  /\ ResponseSize(ClientValue) <= MaxMessage /\ ResponseSize(NotFound) <= MaxMessage

Side == {"client", "server"}
Other(s) == IF s = "client" THEN "server" ELSE "client"

VARIABLES
  program,        \* the requests of the client, in the order it makes them
  socket,         \* of each end: "new", "open" or "closed"
  broken,         \* the network has broken the connection, or refused it
  tasks,          \* of each strand: tasks to be run
  queue,          \* send_queue_ of each end
  writing,        \* an async_write of the front of the queue is under way
  reading,        \* an async_read_some is under way
  pipe,           \* messages written by each end and not yet read by the other
  present,        \* keys in the store
  length,         \* of the value that a get of each key returns
  tooLong,        \* history: there was a value whose response is refused
  others,         \* sets of other clients so far
  received,       \* responses that the client's dispatcher was given
  ub              \* a client or server has popped an empty queue

endVars   == <<socket, tasks, queue, writing, reading>>
storeVars == <<present, length, tooLong, others>>
vars == <<program, broken, endVars, pipe, storeVars, received, ub>>
-----------------------------------------------------------------------------
Request == [op : {"get", "set"}, key : Key]

Gets(p) == {i \in DOMAIN p : p[i].op = "get"}
SetBefore(p, i) == {p[j].key : j \in {j \in 1..(i - 1) : p[j].op = "set"}}

\* generate_command: a get asks for a key that the client has set, if there is one.
Program ==
  {p \in UNION {[1..n -> Request] : n \in 0..MaxRequests} :
     \A i \in Gets(p) : SetBefore(p, i) # {} => p[i].key \in SetBefore(p, i)}

NumberUnwrapped(p, i) == Cardinality({j \in Gets(p) : j < i}) + 1   \* mutant: no wrap

\* next_request_id, called for each get: 1, 2, ..., and after the last number 1 again.
Number(p, i) == (Cardinality({j \in Gets(p) : j < i}) % Numbers) + 1

Task(op, m) == [op |-> op, msg |-> m]
Nothing == [nr |-> 0]

\* start_send_loop: conn_->read, then send for every request.
Loop == <<Task("read", Nothing)>> \o
        [i \in DOMAIN program |->
           Task("send", [op |-> program[i].op, key |-> program[i].key,
                         nr |-> IF program[i].op = "get" THEN Number(program, i) ELSE 0])]

Init ==
  /\ program \in Program
  /\ socket = [s \in Side |-> "new"] /\ broken = FALSE
  /\ tasks = [s \in Side |-> <<>>] /\ queue = [s \in Side |-> <<>>]
  /\ writing = [s \in Side |-> FALSE] /\ reading = [s \in Side |-> FALSE]
  /\ pipe = [s \in Side |-> <<>>]
  /\ present = {} /\ length = [k \in Key |-> NotFound] /\ tooLong = FALSE
  /\ others = 0
  /\ received = <<>> /\ ub = FALSE

Post(s, op, m) == tasks' = [tasks EXCEPT ![s] = Append(@, Task(op, m))]
-----------------------------------------------------------------------------
(* Connecting.                                                             *)

Connect ==
  /\ socket["client"] = "new"
  /\ socket' = [socket EXCEPT !["client"] = "open"]
  /\ tasks' = [tasks EXCEPT !["client"] = Loop]
  /\ UNCHANGED <<program, broken, queue, writing, reading, pipe, storeVars, received, ub>>

ConnectFails ==
  /\ socket["client"] = "new"
  /\ socket' = [s \in Side |-> "closed"] /\ broken' = TRUE
  /\ UNCHANGED <<program, tasks, queue, writing, reading, pipe, storeVars, received, ub>>

\* do_accept makes a session and starts it.
Accept ==
  /\ socket["server"] = "new" /\ socket["client"] # "new"
  /\ socket' = [socket EXCEPT !["server"] = "open"]
  /\ Post("server", "read", Nothing)
  /\ UNCHANGED <<program, broken, queue, writing, reading, pipe, storeVars, received, ub>>
-----------------------------------------------------------------------------
(* The strand of one end.                                                  *)

Run(s, op) ==
  /\ ~ub /\ tasks[s] # <<>> /\ Head(tasks[s]).op = op
  /\ tasks' = [tasks EXCEPT ![s] = Tail(@)]
  /\ UNCHANGED <<program, broken, pipe, storeVars, received>>

RunRead(s) ==
  /\ Run(s, "read")
  /\ reading' = [reading EXCEPT ![s] = (socket[s] = "open")]
  /\ UNCHANGED <<socket, queue, writing, ub>>

RunSend(s) ==
  /\ Run(s, "send")
  /\ IF socket[s] = "open"
     THEN /\ queue' = [queue EXCEPT ![s] = Append(@, Head(tasks[s]).msg)]
          /\ writing' = [writing EXCEPT ![s] = @ \/ queue[s] = <<>>]
     ELSE UNCHANGED <<queue, writing>>
  /\ UNCHANGED <<socket, reading, ub>>

RunNext(s) ==
  /\ Run(s, "next")
  /\ IF queue[s] # <<>>
     THEN /\ queue' = [queue EXCEPT ![s] = Tail(@)]
          /\ writing' = [writing EXCEPT ![s] = Len(queue[s]) > 1]
          /\ UNCHANGED ub
     ELSE ub' = TRUE /\ UNCHANGED <<queue, writing>>
  /\ UNCHANGED <<socket, reading>>

\* The socket is closed, the operations on it are aborted, the queue is cleared.
Shut(s) ==
  /\ socket' = [socket EXCEPT ![s] = "closed"]
  /\ queue' = [queue EXCEPT ![s] = <<>>]
  /\ writing' = [writing EXCEPT ![s] = FALSE]
  /\ reading' = [reading EXCEPT ![s] = FALSE]

RunClose(s) == Run(s, "close") /\ Shut(s) /\ UNCHANGED ub
-----------------------------------------------------------------------------
(* The handlers of one end, and the network.                               *)

Gone(s) == broken \/ socket[Other(s)] = "closed"

\* The kernel takes what is written to an end that has closed, or refuses it.
CanWrite(s) == writing[s] /\ (Gone(s) \/ Len(pipe[s]) < Capacity)

Write(s) ==
  /\ ~ub /\ writing[s] /\ ~broken /\ Len(pipe[s]) < Capacity
  /\ pipe' = [pipe EXCEPT ![s] = Append(@, Head(queue[s]))]
  /\ writing' = [writing EXCEPT ![s] = FALSE]
  /\ Post(s, "next", Nothing)
  /\ UNCHANGED <<program, broken, socket, queue, reading, storeVars, received, ub>>

WriteFails(s) ==
  /\ ~ub /\ writing[s] /\ Gone(s)
  /\ writing' = [writing EXCEPT ![s] = FALSE]
  /\ Post(s, "close", Nothing)
  /\ UNCHANGED <<program, broken, socket, queue, reading, pipe, storeVars, received, ub>>

\* Mutant: an end reads only when it has nothing to send.
ArrivedThrottled(s) == reading[s] /\ pipe[Other(s)] # <<>> /\ queue[s] = <<>>
Arrived(s) == reading[s] /\ pipe[Other(s)] # <<>>

Arriving(s) == Head(pipe[Other(s)])

\* Mutant: an empty value is taken for no value.
FoundValue(k) == k \in present /\ length[k] > 0
Found(k) == k \in present

\* Mutant: the response has the number that the server's get_command has drawn.
AnswerDrawn(m) == [key |-> m.key, nr |-> 1, found |-> Found(m.key), size |-> length[m.key]]
Answer(m) == [key |-> m.key, nr |-> m.nr, found |-> Found(m.key), size |-> length[m.key]]

Receive(s) ==
  /\ ~ub /\ Arrived(s)
  /\ pipe' = [pipe EXCEPT ![Other(s)] = Tail(@)]
  /\ UNCHANGED <<program, broken, socket, queue, writing, ub>>

\* The dispatcher of the server: a get is answered ...
ServeGet ==
  /\ Receive("server") /\ Arriving("server").op = "get"
  /\ Post("server", "send", Answer(Arriving("server")))
  /\ UNCHANGED <<reading, storeVars, received>>

Bind(k, v) ==
  /\ present' = present \cup {k}
  /\ length' = [length EXCEPT ![k] = v]
  /\ tooLong' = (tooLong \/ ResponseSize(v) > MaxMessage)

\* ... and a set is not.
ServeSet ==
  /\ Receive("server") /\ Arriving("server").op = "set"
  /\ Bind(Arriving("server").key, ClientValue)
  /\ UNCHANGED <<reading, tasks, others, received>>

\* The dispatcher of the client counts a response.
TakeResponse ==
  /\ Receive("client") /\ ResponseSize(Arriving("client").size) <= MaxMessage
  /\ received' = Append(received, Arriving("client"))
  /\ UNCHANGED <<reading, tasks, storeVars>>

\* "Invalid message size".
RefuseResponse ==
  /\ Receive("client") /\ ResponseSize(Arriving("client").size) > MaxMessage
  /\ reading' = [reading EXCEPT !["client"] = FALSE]
  /\ Post("client", "close", Nothing)
  /\ UNCHANGED <<storeVars, received>>

\* End of file: nothing is closed, the session is only let go of.
ReadEnds(s) ==
  /\ ~ub /\ reading[s] /\ socket[Other(s)] = "closed" /\ pipe[Other(s)] = <<>>
  /\ reading' = [reading EXCEPT ![s] = FALSE]
  /\ UNCHANGED <<program, broken, socket, tasks, queue, writing, pipe, storeVars, received, ub>>

\* A reset, perhaps before all that was sent is read.
ReadFails(s) ==
  /\ ~ub /\ reading[s] /\ Gone(s)
  /\ reading' = [reading EXCEPT ![s] = FALSE]
  /\ Post(s, "close", Nothing)
  /\ UNCHANGED <<program, broken, socket, queue, writing, pipe, storeVars, received, ub>>

\* The server's connection dies with its session, which the read operation and its
\* tasks hold.  The client's belongs to the spammer.
Forsaken ==
  /\ socket["server"] = "open" /\ ~reading["server"]
  /\ \A i \in DOMAIN tasks["server"] : tasks["server"][i].op = "send"

Destroy ==
  /\ ~ub /\ Forsaken /\ Shut("server")
  /\ UNCHANGED <<program, broken, tasks, pipe, storeVars, received, ub>>

Quiet ==
  /\ socket["client"] # "new" /\ socket["server"] # "new" /\ ~Forsaken
  /\ \A s \in Side : /\ tasks[s] = <<>> /\ ~CanWrite(s)
                     /\ ~Arrived(s) /\ ~(reading[s] /\ Gone(s))

ArmedWhileReading(s) == reading[s]                  \* mutant: a read that ends cancels the wait
Armed(s) == socket[s] = "open"

\* 30 seconds without a step: the network and the threads are not that slow.
Expire(s) ==
  /\ ~ub /\ Quiet /\ Armed(s)
  /\ Post(s, "close", Nothing)
  /\ UNCHANGED <<program, broken, socket, queue, writing, reading, pipe, storeVars, received, ub>>

Break ==
  /\ ~broken /\ socket["client"] = "open" /\ broken' = TRUE
  /\ UNCHANGED <<program, endVars, pipe, storeVars, received, ub>>

\* Another client sets a key to a value that the server accepts.
OtherSet ==
  /\ others < MaxOthers /\ others' = others + 1
  /\ \E k \in Key, v \in OtherValue : SetSize(v) <= MaxMessage /\ Bind(k, v)
  /\ UNCHANGED <<program, broken, endVars, pipe, received, ub>>
-----------------------------------------------------------------------------
Strand(s) == RunRead(s) \/ RunSend(s) \/ RunNext(s) \/ RunClose(s)
Network(s) == Write(s) \/ WriteFails(s) \/ ReadEnds(s) \/ ReadFails(s)
Dispatch == ServeGet \/ ServeSet \/ TakeResponse \/ RefuseResponse

Step ==
  \/ Connect \/ ConnectFails \/ Accept \/ Dispatch \/ Destroy
  \/ \E s \in Side : Strand(s) \/ Network(s) \/ Expire(s)

Next == Step \/ Break \/ OtherSet

Spec == Init /\ [][Next]_vars

\* The two programs and the network do something as long as there is something to do,
\* and time passes.
FairSpec == Spec /\ WF_vars(Step)
-----------------------------------------------------------------------------
Response == [key : Key, nr : 1..Numbers, found : BOOLEAN, size : Nat]
Message == [op : {"get", "set"}, key : Key, nr : 0..Numbers]
Sends(s) == IF s = "client" THEN Message ELSE Response

TypeOK ==
  /\ program \in Program /\ broken \in BOOLEAN /\ ub \in BOOLEAN
  /\ socket \in [Side -> {"new", "open", "closed"}]
  /\ writing \in [Side -> BOOLEAN] /\ reading \in [Side -> BOOLEAN]
  /\ \A s \in Side :
       /\ queue[s] \in Seq(Sends(s)) /\ pipe[s] \in Seq(Sends(s))
       /\ Len(pipe[s]) <= Capacity /\ (writing[s] => queue[s] # <<>>)
       /\ \A i \in DOMAIN tasks[s] :
            \/ tasks[s][i].op \in {"read", "next", "close"}
            \/ tasks[s][i].op = "send" /\ tasks[s][i].msg \in Sends(s)
  /\ present \subseteq Key /\ length \in [Key -> Nat] /\ tooLong \in BOOLEAN
  /\ others \in 0..MaxOthers
  /\ received \in Seq(Response)

\* The place of the n-th get in the program.
Asked(n) == CHOOSE i \in Gets(program) : Cardinality({j \in Gets(program) : j < i}) = n - 1

\* The client can match responses to requests: the n-th response is the answer to the
\* n-th get and has its key and number, also when numbers have been used again while
\* earlier gets are unanswered.
Matched ==
  /\ Len(received) <= Cardinality(Gets(program))
  /\ \A n \in DOMAIN received :
       /\ received[n].key = program[Asked(n)].key
       /\ received[n].nr = Number(program, Asked(n))

\* A session sees its own sets: a get that was sent after a set of the same key finds
\* it, without waiting for an acknowledgement of the set.
OwnSetsSeen ==
  \A n \in DOMAIN received :
    received[n].key \in SetBefore(program, Asked(n)) => received[n].found

\* The two ends never wait for each other, however little the pipes hold: when the
\* idle timer or anything else makes the client close, all its gets have been answered,
\* unless the network broke or a value between the limits of a set and of its response
\* was stored.
AnsweredBeforeClose ==
  socket["client"] = "closed" =>
    broken \/ tooLong \/ Len(received) = Cardinality(Gets(program))

\* The client ends ("Client finished"), in whatever way the connection does.
Finishes == <>(ub \/ (socket["client"] = "closed" /\ tasks["client"] = <<>>))
=============================================================================
