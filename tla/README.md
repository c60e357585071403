# A verification of GaijinTest in TLA+

GaijinTest is a small client and server in C++20: a configuration store (string
keys and values) served over TCP by a pool of threads, with Boost.Asio for the
network and the timers and immer for a persistent map. This directory holds
models of the program, what TLC checks of them, and proofs for TLAPS.

Paths below are relative to the repository (`src/`). `src/boost` and `src/immer`
are vendored; of them only what the server relies on is modelled.

## 1. Inventory

| Component | State | Operations | Hard part |
|---|---|---|---|
| configuration store, `server/config_store.*`, `immer/atom.hpp` | `root_` (atom holding a persistent map of shared entries), `dirty_`, `config.dat` | `get`, `set`, `flush_if_dirty`, `load_into` | all threads call `get` and `set` at once; `set` is a retried read-modify-write of the map but mutates shared entries in place; the flush runs beside them and rewrites the file in place |
| statistics, `struct counters` | totals and five-second windows | `add_get`, `add_set`, `dump_and_reset` | read and reset are separate steps |
| server dispatcher, `server/server_dispatcher.*` | none | one handler for each request type | reads an entry field by field while it changes |
| connection, `net/connection.h` | socket, `strand_`, `send_queue_`, read buffer, `idle_timer_` | `read`, `send`, `close` and the handlers of three asynchronous operations | strand tasks, handlers outside the strand, cancellations that come too late, lifetime by weak and shared pointers |
| framing, in `do_read` | `buffer_`, `unparsed_bytes_` | cut a byte stream into messages | partial messages, lengths at the bounds |
| protocol, `net/protocol.*`, `net/memory.h` | request number counter | serialise, declare a size, read any bytes, dispatch by type | lengths and bytes come from the peer; sizes are computed by hand; request numbers wrap |
| session, acceptor, timers, `main`, `server/server.cpp` | acceptor, two timers | accept, save every 10 s, print every 5 s | thread pool; an exception in a handler ends the process |
| client, `client/client.cpp` | list of keys, a connection of the same class | connect, post a million requests, count responses | all requests are posted before the first answer is read; it ends only when nothing is pending |

How they interact: `main` loads the store, then starts the acceptor and the timers
on one `io_context` that `hardware_concurrency()` threads run. An accepted socket
becomes a session, which owns a connection. The read handler of the connection
cuts out messages and calls the dispatcher, which calls the store and hands the
answer of a get to `connection::send`; that posts it to the strand. Connections
share nothing but the store, its statistics and the threads.

What makes each part correct:

- store: an update never undoes another thread's; what a client sees of a key never
  goes back; a change is saved in the end and never forgotten; counters account
  for the requests; start-up survives what a crash left;
- statistics: no request is reported twice, and none is left out;
- connection: one write at a time, answers in order and complete while the socket is
  open, no stall, no leak of a silent connection, no use of the socket or the
  queue in a state where that is not allowed;
- framing: the messages taken out of the buffer are those that were sent however the
  bytes are cut up, none waits for bytes it does not need, there is always space for
  the rest of an incomplete one;
- protocol: what one side writes the other reads, by the size it declares; nothing else
  is accepted, and no read leaves the vector whatever its bytes say;
- session: the client can tell which response belongs to which get, sees its own sets,
  is answered before it closes, and ends.

The hazards that a test would hardly reach are listed one by one, with their lines
and the properties that watch them, in `PROJECT.json`.

## 2. Modules

| Module | What it is |
|---|---|
| `ConfigStore` | the store, the dispatcher's calls, the save timer, start and end of the process |
| `KeySet` | what the store promises about its keys: an atomic set |
| `MCConfigStore` | instances for TLC: symmetry |
| `ConfigStoreProofs` | theorems about `ConfigStore`: types, bindings, the file |
| `AnswerProofs` | theorems about `ConfigStore`: what a connection is told never goes back, and the counters of the entries add up |
| `KeySetProofs` | theorem: `ConfigStore` implements `KeySet` |
| `Counters`, `CountersProofs` | the statistics, and a theorem |
| `Connection`, `ConnectionProofs` | one connection of the server with its session, and theorems |
| `MessageStream` | what the reading side of a connection promises: a FIFO of messages |
| `Framing`, `FramingProofs` | the read loop of a connection on bytes, its refinement mapping to `MessageStream`, and theorems |
| `Protocol`, `ProtocolProofs` | the commands on the wire and their readers, and theorems |
| `Session`, `SessionProofs` | composition: sample client, two connections, two pipes, the server's answers, other clients; and theorems |

### ConfigStore

A `Worker` is a connection whose read handler runs in the pool; it makes one call
at a time, as the handler does. `pc` says where it is, `loc` holds its locals. Each
action is one step another thread can see:

| Code | Actions |
|---|---|
| `set`: `atom::update` loads the box, runs the function, compares and stores under the spinlock, or tries again | `SetCall`, `SetLoad`, `SetApply`, `SetMove`, `SetCount`, `SetCommit`, `SetRetry` |
| `stats.add_set()`, `dirty_.store(true)` | `SetStat`, `SetDirty` |
| `get`, and the dispatcher reading `reads`, `writes`, `value` | `GetCall`, `GetMiss`, `GetHit`, `GetCount`, `GetStat`, `GetReads`, `GetWrites`, `GetValue` |
| `flush_if_dirty` | `SaveSkip`, `SaveCheck`, `SaveOpen`, `SaveSnap`, `SaveSize`, `SaveData`, `SaveEnd` |
| `load_into` | `Start`, `StartFails` |
| the process is killed, or an exception leaves `io.run()` of a thread | `Kill`, `SaveOpenFails`, `SaveWriteFails` |

The persistent map is a function from keys to entries (`root`); a version is never
changed, so a loaded version (`loc[w].snap`) is just its value. `ver` is the identity
of the box that the atom compares: as an updater holds the box it loaded, its
address cannot be reused, so a number that only grows stands for it. Entries are
shared by all versions and live in `heap`.

The string in an entry is a plain `std::string`. Its assignment begins in `SetApply`
and ends in `SetMove`; whoever reads it in between (`Visible`) or assigns it at the
same time (`raced`) meets a data race. The outcome is then the value `Torn`, or for
two assignments any of the two values or `Torn`. The assignment moves, so `loc[w].arg` is `Empty` after
it: on a retry `set` stores that.

`add_get` and `add_set` are here their first increment only; the windows are in
`Counters`. `dirty_.store` is relaxed, but the sequentially consistent increment of
`set_total` lies between it and the commit, so no reordering can be observed. The
key of a record that was cut off while being written may be read with an unread value,
and the uninitialised count makes further iterations add the key of zero bytes
(`Junk`), or throw (`StartFails`). A killed process leaves any part of the records
written so far (`Remains`), since the stream buffers them.

Left out: what is in keys and values, the order of the map's iteration (any), and
`bad_alloc`.

### KeySet

The abstract specification of `ConfigStore` for keys. A `set` takes effect in one instant
between its call and its return (`Add`), a `get` looks once between its call and its answer
(`Look`, `Miss`), nothing else touches the keys of a running process. `Keys` in `ConfigStore` is
the mapping: the keys are those bound in `root`; a call has taken effect from the commit
(`s_stat`) or from `find` on; the answer is `resp`. Counters and values have no such
specification: entries are changed in place, and the findings show what can be
seen of that.

### Counters

Threads between the two increments of `add_get` or `add_set` are only counted
(`inflight`). `dump` says where `dump_and_reset` is. `get_window = set_window = 0`
resets the SET window first. `reported` and `missed` are history.

### Connection

Three sources of steps interleave:

- tasks of the strand (`Begin`, then `FirstRead`, `Send`, `SendNext`,
  `SendNextOnEmpty`, `Close` or `TaskOnClosed`), one at a time and in order;
- completion handlers, which run on any thread because neither the socket nor the
  timer is bound to the strand: the read handler (`ReadDone`, `Parse`,
  `ParseFails`, `ParseEnds`, `Check`, `ReadTimer`, `ReadAgain`, `ReadEnds`,
  `ReadFails`), the write handler and `TimerHandler`;
- the peer, the network and the clock: `Arrive`, `PeerEnds`, `WriteDone`, `WriteFails`,
  `Expire`.

A strand task takes two steps, so that it can be seen running while the read handler
is in the tail of `do_read`. The accesses themselves are atomic: the race on the timer
and the socket is reported as a finding, its outcomes are those of the
interleavings. After a pop of the empty queue (`ub`) nothing is said of the program.

`Alive` is derived from who holds a strong pointer: the read operation, its handler and
the first task hold the session; a task under way and the tasks of `close` and
`send_next` hold the connection. Once it is false the destructor has run and nothing
more happens (`Over`). `fired` is an expired wait whose handler is queued, where
`cancel` comes too late. An arriving read completes a batch of whole messages (maybe
none); byte positions belong to `Framing`. The dispatcher is represented by its answer:
a get is answered by the next number, a set is not answered.

### Framing and MessageStream

`Framing` is `do_read` with the bytes. A byte is named by its position in the stream,
so `buffer` (all of `buffer_`, with what older reads left behind) shows whether
each byte is where it belongs. Four bytes that are the header of a frame say that
frame's size; any other four bytes say anything (`Declared`), and `::read` may take
or refuse a vector that is the content of no frame (`Accepts`). A mistake in an offset
is therefore not hidden by the model.

| Code | Action |
|---|---|
| `async_read_some` completes with some of the bytes there are (with none if the buffer given is empty, as in Asio) | `ReadSome` |
| it completes with an error, the end of file or `operation_aborted` | `ReadFails` |
| one round of the `while` loop | `Deliver`, `Refuse` (`::read` throws, or the length is out of range) |
| `break` or the end of the loop, `memmove`, `do_read` again | `ReadAgain` |
| the peer writes a frame | `Transmit` |
| `close`, the end of the peer, an error of the network | `Break` |

Frames have any length field, those of 0 to 3 bytes, of exactly the header, of the
largest message and beyond it among them; `ok` says whether `::read` can make a command
of the content.

`MessageStream` is the same with no bytes: send a message, deliver the next one, stop
because the next one is bad or the connection broke. Its messages are mapped to
`frames`, what it received to `delivered`, and it goes on reading until `pc` is
`"stopped"`.

### Protocol

| Code | Definition or action |
|---|---|
| `serialize` of the three commands, `memory_writer` | `Content`, `WriteString` |
| `get_serialized_size`, by which the receiver cuts the stream | `Size`, `Cut` |
| the two `::read` functions: the type byte and the constructor of the command | `ReadType` |
| `memory_reader::read` of a number, of a string | `ReadNumber`, `ReadString` |
| the test of the number and of `is_end`; any exception | `Finish`, `Throw` |

The vector is either the content of a command (`written`) or any bytes at all. Bytes are
numbers below `Base`, so that every vector can be enumerated; a length is two of them, low
byte first, the numbers are one. `Peek` behind the end of the vector gives a byte
that no property relies on; that it is never used is `TypeOK`. The number drawn by
the constructor of `get_command` comes from a counter that threads share without a lock:
it is any byte.

### Session

Both ends are the same template `t_connection`, so one set of actions serves both
(`RunRead`, `RunSend`, `RunNext`, `RunClose`, `Write`, `WriteFails`, `ReadEnds`, `ReadFails`,
`Expire`), each a whole strand task or handler: their interleaving inside one end is the
subject of `Connection`. The pipes hold `Capacity` messages, so a write may have to
wait for the other end to read; one to an end that has closed is taken as long as there is space, or fails. `Connect` posts the read and every send (`start_send_loop`)
before any of them runs; the dispatchers are `ServeGet`, `ServeSet` and
`TakeResponse`, `RefuseResponse` (a response longer than a message may be). The server's
connection dies with its session (`Destroy`); the client's belongs to the spammer and
only its idle timer closes it after an end of file. `OtherSet` stands for any
other client. Of a value only its length is kept, with the sizes of the code scaled:
the lengths that `OtherValue` names are the empty value, one whose response just fits and
one that `set` accepts and whose response does not fit.

`program` is what the client sends: `generate_command` asks for a key that was set, once there
is one. `Number` is `next_request_id`, which wraps after `Numbers` gets.

## 3. Runs

Every property of a passing run is also shown to fail on a mutant of the model, a
plausible bug such as a dropped comparison or a reset that is left out (`PROJECT.json`,
"mutants"; the mutants stand before the definitions they change).

| Run | Question | Bounds |
|---|---|---|
| `store` | do concurrent gets, sets and flushes keep bindings, counters and unsaved changes, and are the keys an atomic set? | 2 connections, 2 keys, 2 values, 4 entries, 3 calls |
| `store_crash` | the same with ends of the process and restarts from the remaining file | 2 calls, 2 ends |
| `store_live` | is every change saved in the end? | 1 value, 2 calls, fairness |
| `store_blank` | finding: a retried set stores the empty string | 2 calls |
| `store_torn` | finding: a get reads a string being assigned | 1 key, 3 calls |
| `counters` | is a request reported twice? | 2 threads for each kind, 3 requests each |
| `connection` | do writes stay apart, in order and complete, and is a silent connection destroyed? | 3 reads of up to 2 messages, fairness |
| `connection_strand` | finding: the read handler works outside the strand | 2 reads of 1 message |
| `connection_pop` | finding: `send_next` pops a cleared queue | the same |
| `framing` | is what arrives what was sent, at once and with space for the rest? | header of 2, messages up to 4, buffer of 5, 9 bytes, fairness |
| `protocol` | is what is written read back, and nothing else accepted? | 3 byte values, strings of up to 2 in commands, any vector of up to 9 bytes, both readers |
| `session` | are all gets answered, in order, to the client that can match them, and does it end? | 1 key, 4 requests, 2 request numbers, pipes of 1, 1 set of another client, fairness |

Why these bounds are enough to meet the interesting cases: two updaters and one
reader suffice for every pairwise conflict on an entry or the map, and a third call
comes after or between them; two keys let one update drop the other's key; four
entries are two bound ones and two private ones. Two ends of the process give a
crash during the recovery's own flush. For a connection, three reads give a response
being written, one that waits and one that is still a task of the strand. The lengths
of `framing` keep the order of those in the code (4 bytes, 1 MB, 4 MB); the buffer of 5
is one byte longer than a message, so that it fills up, and 9 bytes are two largest
messages or up to four small ones, cut anywhere. With 3 byte values and 9 bytes,
`protocol` has gets with strings of up to 5 bytes, sets of up to 4 and responses of up to 1, each also
cut short or with bytes too many, and lengths that point behind the end. In `session`, two numbers wrap
while gets with both are unanswered; four requests fill both pipes, both queues and
leave some in the strand; one key is enough because requests of one connection are handled
in order whatever their keys. Keys,
values, entries and workers are interchangeable (symmetry) except in the run
with a liveness property. Deadlock is checked in every run but `framing`, `protocol` and
`session`, where there is nothing more to do in the end: the bounded peer has nothing
to send, the vector is read, the client has finished. That nothing stops before is said there by
`Progresses`, by `RoundTrip` and by `Finishes`.

Bounds in the guards: `MaxCalls`, `MaxCrash`, `Threads`, `MaxAdds`, `MaxReads`,
`MaxBatch`, `MaxBytes`, `MaxRequests`, `MaxOthers`; in the initial states, `MaxString` and
`MaxInput`. `Capacity` and `Numbers` stand for limits that the system has. Two assumptions about
time: the handler of an expired wait and a `close` that is due run before the timer can expire
again, 30 seconds later (`Connection`); and programs and network do not pause for 30 seconds
while there is something to do (`Quiet` in `Session`).

What the main properties say:

- `BindingStable`: no step of a running process drops or rebinds a key. With
  `WritesAccounted` and `ReadsAccounted` this is what the retry loop is for.
- `Linearizable`: the keys behave as the atomic set `KeySet`, with all retries, and through
  ends and restarts of the process.
- `SessionMonotonic`: successive answers about a key on one connection never go back.
- `NoLostUpdate`: with `dirty_` clear and nothing under way, the file is whole and equal
  to the map. A process that was started from a cut file has nothing to save until its first
  set; from then on this holds for it too, so one set and one flush make good what is left.
- `UntouchedUntilSet`: ends and restarts alone never change the file. What is left after a crash is
  put at risk again only for a change that a client has made.
- `ReportedOrMissed`: the windows printed by `dump_and_reset` add up to the total, but for the requests
  counted between a print and its reset. It holds for the two windows separately, which
  are reset in the other order than they are printed.
- `Converges`: once clients stop, this becomes and stays true.
- `SingleWriter`, `QueueMoves`: the emptiness of `send_queue_` is the lock of the
  write side; it is held exactly while a write is under way or reported.
- `NothingDropped`: what was answered is sent, or waits, in order and complete, as long as the
  connection lives; a connection that is destroyed at an end of file loses what waits (section 4).
- `Implements`, `Progresses`: `do_read` is the FIFO `MessageStream`, also in what it must do.
- `Framed`, `NeverFull`: the buffer holds the stream from the next frame on, and is never
  full with an incomplete one; the handler would then spin on reads of nothing.
- `Reaped`: no way through the handlers leaves a connection alive without a timer.
- `Canonical`: `::read` accepts only what `serialize` writes for the command that comes out.
- `RoundTrip`: a command is read as it was written, by the size it declares, and refused by
  the side that should not get it.
- `Matched`: the n-th response answers the n-th get, although numbers are used again while
  earlier gets are unanswered.
- `OwnSetsSeen`: sets are not acknowledged, yet a get behind a set finds its key.
- `AnsweredBeforeClose`: the two ends never wait for each other; whatever closes the client,
  all its gets were answered before, unless the network broke or a value was stored
  that is too long to be answered.
- `Finishes`: the client ends, also after an end of file, which closes nothing by itself.

Fairness: `FairSpec` of `ConfigStore` assumes that the pool runs every handler that
has begun and that the save timer fires again and again (`start_save_timer` restarts
it after every run). `FairSpec` of `Connection` assumes that the pool runs strand tasks
and handlers and that time passes. `FairSpec`
of `Framing` assumes that handlers run and that bytes the network has arrive unless the
connection breaks (else the idle timer closes it). `FairSpec` of `Session` assumes only
that something happens as long as there is something to do in either program or the
network, and that time passes. Nothing more is assumed of clients,
of the peer or of the network. With `hardware_concurrency()` 0, which the standard allows, no
thread runs and none of this holds.

## 4. Findings

1. `config_store.cpp:20`: a retried `set` stores the empty string and counts twice.
2. `config_store.cpp:20`: the shared string is assigned in place, a data race with
   `get`, with other sets and with the flush.
3. `connection.h:160`: the read side works outside the strand.
4. `connection.h:172`: `send_next` may pop a queue that `close` has cleared.

Behaviours met while modelling that nothing in the repository denies, so that no run
calls them wrong: requests counted between the print and the reset of a window are in no window
(`config_store.cpp:99`; `ReportedOrMissed` says that no others are missed); an expired wait
cannot be cancelled and closes a connection that has just become active again
(`connection.h:94`); a peer that closes its sending side loses the responses that
wait in the queue (`connection.h:162`); a value between the limits of a set and of its response can be
stored and not be read (`protocol.cpp:117`; see `tooLong` in `Session`); an end of the
process while the file is rewritten loses what was saved before (`config_store.cpp:32`).

## 5. Proofs

The proofs hold for all values of the constants, under `ConstAssumption` (the special
values differ from each other and from keys, values and entries, the bounds are
numbers), `CountersAssumption` and `ConnectionAssumption` (the bounds are numbers),
`FramingAssumption` (a header has at least one byte and fits into a message, a message fits
into the buffer) and `ProtocolAssumption` (a byte can tell the three types apart, the length of
a string that is written fits into its field) and `SessionAssumption` (the client's own
values and "not found" can be answered, a pipe holds at least one message, there is at least one
request number).

`ConfigStoreProofs`:

- `TypeCorrect`. Each operation by itself; `OneWorker` reduces a step of one connection
  to its own `pc` and locals.
- `StructureInvariant`. `BindingStable` is not inductive: a commit installs a version
  that was computed from a loaded one. The strengthening says that a loaded version
  is contained in the current map and equal to it if the identity is the same
  (`LoadedOK`), that the entry an update works on is the one bound to its key there or
  one that no key and no other update has (`AppliedOK`), and that keys do not share
  entries (`Injective`). Hence `BindingsNeverLost`.
- `NothingLost`. For each key, someone remembers that it is not on file
  (`Remembered`): `dirty_` is set, or a set of that key is under way, or the running
  flush has yet to write it and has not read a size that is out of date, or the file
  has it. A process started from a cut file claims nothing until a set is counted
  (`Claimed`), and then that set is about to mark the store dirty (`Marking`), after which
  all keys are remembered. The delicate step is a value that changes between the flush's reads of size
  and bytes; there a set of that key is under way, because what a get of a key
  returns is changed only by sets of that key (`OnlySetsChange`), which needs the
  structure above.
- `FileKept`, that is `UntouchedUntilSet`: `dirty_`, a set that is about to set it and a flush under
  way all mean that a set was counted since the start (`SetFirst`), and only a flush and
  the end of a process in a flush change the file.

`AnswerProofs`: `AnswersAdvance`. A connection's last response is behind the entry its key has now
(`Told`), entries of bound keys are never replaced and their counters never go back
(`Growing`, from `Structure`), and a get is ahead of the last response to the same key as soon as it
has counted itself (`Passing`): it counts before it reads the counters.

Also there: `GetsAccounted` and `SetsAccounted`. A sum over the keys would need induction over
sets; the properties therefore count `Units`, a set that has as many elements as the counters add
up to, and each increment adds one element to it. For reads the equality is inductive by itself, given that
`Structure` says that the entry a get works on is in the map and stays there. For
writes it is not: an update that found its key counts before it commits and is counted again when it
retries, so `Accounts` says that the surplus is at least the number of updates that have counted
and not committed (`Recounting`). An entry made by an update is no one else's and has not
been read, and has been written once it is to be committed (`PrivateOK`), so the commit that binds it
adds a unit at least to the writes and none to the reads.

`KeySetProofs`: `Linearization`. `CallOf` gives the abstract state of each call by its `pc`
(`CallAt`), so a step that moves within a phase is a stutter (`WorkerStutters`). The one step
that changes the keys is `SetCommit`; by `Structure` the loaded version is the current one
when it succeeds, so it adds its key and no more (`CommitIsAdd`). `Die` and `Boot` are the end and the
start of the process.

`ConnectionProofs`: `OneWriter`, `NoStall`, `SentInOrder`, `NothingIsDropped`, `TypeCorrect`. One
invariant, `Core`. The lock of the write side is not a variable: it is a write under way or the
task `next` that follows it, and there is never more than one of both (`Lock`). While the socket is
open it is held exactly as long as the queue is not empty, unless a write has failed and
`close` is due (`Front`). Sends wait in the strand in the order in which they were asked for
(`Tidy`), and from `sent` through the queue to the strand the numbers go up by one without a gap
(`Chain`), except in the one case `Stalled`, after which nothing is written any more. Each
action is then shown to preserve each part.

`ProtocolProofs`: `TypeCorrect`, `CanonicalForm`, `WrittenIsRead`, for any number of byte values and
vectors of any length. For the second, the part of the vector that was consumed is what
`serialize` would write for the fields read so far (`Consumed`, extended by `Extend` and
`ExtendString`), which at the end is all of it. For the third, the fields of a written
command lie in the vector at known places (`Layout`), the reader is always at the next of them
(`Understood`), and so none of its tests can fail but that of the type. Both rest on
`BytePair`: two bytes hold a length.

`CountersProofs`: `ReportedOnce`. The sum is inductive with the types: a dump
moves a window into what was reported, and until the reset whatever is added to the
window is added to what is missed (`Accounted`).

`FramingProofs`: `StreamKept`, `AlwaysSpace`, `Implementation`. `Framed` needs to know
where frames lie: one behind the other (`Layout`), so that a frame is known by the position
at which it begins (`FrameAt`), and no more read or handed on than was sent (`Taken`).
Then a header in the buffer is that of the frame after those handed on (`NextFrame`), its
size is the declared one (`DeclaredSize`) and the copied vector its content
(`VectorRead`), with which each action is a step of `MessageStream` or none
(`StepStream`). The code's buffer of four messages is more than is needed: one is enough.

`SessionProofs`: `Typed`, `ResponsesMatch`, `SessionSeesItsSets`, `ClosedWhenAnswered`, all from one
invariant (`Invariance`). None of the properties is inductive: they speak of what the client was given,
which is decided by what is on its way. The invariant has these parts:

- `Ends`: each end by itself keeps to `EndOK`, in short what `ConnectionProofs` shows in
  detail: at most one `next` and one `read` in the strand, no write beside a `next`, an open end with
  something in its queue has someone who goes on. It mentions no message, so each action
  is looked at once for both ends.
- `Line`: the messages of one direction are numbered. `Piped` numbers those in the pipe
  from the last one read, `Chain` goes on through the queue and the tasks of `send` in the strand, without
  a gap, up to the last one posted. A message that is being written, or whose `next` is
  due, is in the pipe and still in the queue, which is why `Chain` begins one earlier then.
  A closed end loses its chain, and keeps what it has written. `Items` says which message may
  have which number: for the client the requests of its program in order, for the server answers to the
  gets in order (`IsAnswer`).
- `Flow` ties the two directions: when the server has read `h` requests, its line ends with the
  answer to the last get among them (`Served(h)`), the keys of the sets among them are in
  the store, and the client's line ends with the program. What the client has read it was given, until
  it stops reading.
- `Answered`: what the client was given answers the get of its place. `Matched` and `OwnSetsSeen`
  follow, since the place of a get among the gets is its own (`AskedIs`).
- `Alive`: unless the network broke, a value that is too long was stored (`Lens`) or all is answered,
  neither end is closed or about to be, and both read or are about to. The steps that could end this
  are a full pipe, which stops a write but no read; a response that is refused, which needs a
  value that is too long; and `Quiet`, the idle timer. The last is the argument (`QuietDone`): if
  nothing can move, both strands are empty and both ends read, so both pipes are empty, so nothing
  is being written, so both queues are empty, hence by `Flow` every request was read and every answer given.

Before they were proved, the strengthened invariants were model-checked on the
instances of `store`, `store_crash`, `framing` and `session`.

Only model-checked: the liveness properties `Converges`, `Reaped`, `Progresses` and `Finishes`,
which are beyond the prover (it has no rules for fairness and ENABLED). Every invariant and
every other action property of a passing run is a theorem.

## 6. Not modelled, and what is left

Every file of the program itself, outside the vendored libraries, is modelled. Not modelled:

- boost and immer. They are nearly all lines of the repository and none of its logic: a
  thread pool, a strand, sockets, timers and a persistent map appear as the steps the code relies
  on. The one function of them whose steps can be seen from outside, `atom::update` and
  the atom's compare, is modelled line by line in `ConfigStore`.
- The text that is printed, and the random choice of keys and values.
- Failures of memory allocation, and the memory that unbounded queues take.
- Errors of `accept`: the loop keeps no state and tries again at once.
- The number of threads, except that there is one at least.
- What a data race does beyond the value read; what follows a pop of an empty queue.

What could be added: the connection of `Session` with the detail of `Connection` at both ends,
which TLC cannot enumerate at present; and an abstract specification of a whole session (requests in,
answers out, in order) that `Session` implements, for which `Flow` is the invariant.
