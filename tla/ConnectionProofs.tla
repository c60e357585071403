---------------------------- MODULE ConnectionProofs ----------------------------
(***************************************************************************)
(* Proofs about Connection for any number of reads and of messages.        *)
(***************************************************************************)
EXTENDS Connection, TLAPS, SequenceTheorems

USE ConnectionAssumption

\* The tasks there may be when n responses were asked for, and the writes.
TaskOf(n)  == {Task(o, 0) : o \in {"read", "next", "close"}} \cup {Task("send", m) : m \in 1..n}
WriteOf(n) == [msg : 1..n, st : {"pending", "done", "failed", "aborted"}]

\* The task t, or one of operation o, runs or waits.
Due(t) == running = t \/ \E i \in DOMAIN strand : strand[i] = t
Has(o) == running.op = o \/ \E i \in DOMAIN strand : strand[i].op = o

-----------------------------------------------------------------------------
(* The inductive invariant.                                                *)

CoreType ==
  /\ asked \in Nat
  /\ strand \in Seq(TaskOf(asked)) /\ running \in TaskOf(asked) \cup {NoTask}
  /\ queue \in Seq(1..asked) /\ sent \in Seq(1..asked) /\ writes \in Seq(WriteOf(asked))

\* A write that is under way or reported and the task that will drop its message
\* exclude each other and their like.
Lock ==
  /\ Len(writes) <= 1
  /\ writes # <<>> => ~Has("next")
  /\ running.op = "next" => \A i \in DOMAIN strand : strand[i].op # "next"
  /\ \A i, j \in DOMAIN strand : strand[i].op = "next" /\ strand[j].op = "next" => i = j

\* What the lock says of the queue and of the socket.
Front ==
  /\ ~open => queue = <<>> /\ \A i \in DOMAIN writes : writes[i].st # "pending"
  /\ open /\ (writes # <<>> \/ Has("next")) => queue # <<>>
  /\ open => \A i \in DOMAIN writes : writes[i].msg = Head(queue) /\ writes[i].st # "aborted"
  /\ open /\ queue # <<>> => writes # <<>> \/ Has("next") \/ Has("close")

\* Responses wait for the strand in the order in which they were asked for.
Tidy ==
  /\ running.op = "send" =>
       \A j \in DOMAIN strand : strand[j].op = "send" => running.arg < strand[j].arg
  /\ \A i, j \in DOMAIN strand :
       i < j /\ strand[i].op = "send" /\ strand[j].op = "send" => strand[i].arg < strand[j].arg

\* A write has failed: nothing will be written before the close that is due.
Stalled == queue # <<>> /\ writes = <<>> /\ ~Has("next")

Unsent == \E i \in DOMAIN writes : writes[i].st # "done"

\* The last response that has left the strand.
Last == IF queue = <<>> THEN Len(sent) ELSE queue[1] + Len(queue) - 1

\* From sent to the queue to the strand the responses are numbered without a gap.
Chain ==
  /\ queue # <<>> => queue[1] = IF Unsent THEN Len(sent) + 1 ELSE Len(sent)
  /\ \A i \in DOMAIN queue : queue[i] = queue[1] + i - 1
  /\ \A n \in (Last + 1)..asked : Due(Task("send", n))
  /\ running.op = "send" => running.arg > Last
  /\ \A i \in DOMAIN strand : strand[i].op = "send" => strand[i].arg > Last

Order ==
  /\ \A i \in DOMAIN sent : sent[i] = i
  /\ Len(sent) <= asked
  /\ open /\ ~Stalled => Chain

Core == open \in BOOLEAN /\ CoreType /\ Lock /\ Front /\ Tidy /\ Order

-----------------------------------------------------------------------------
(* Sequences and tasks.                                                    *)

LEMMA SeqGrows == ASSUME NEW S, NEW T, S \subseteq T, NEW s \in Seq(S) PROVE s \in Seq(T)
BY SeqDef

LEMMA Appended ==
  ASSUME NEW S, NEW s \in Seq(S), NEW x \in S, NEW t, t = Append(s, x)
  PROVE  /\ t \in Seq(S) /\ t # <<>> /\ Len(t) = Len(s) + 1
         /\ DOMAIN t = 1..(Len(s) + 1) /\ DOMAIN s = 1..Len(s) /\ Len(s) \in Nat
         /\ t[Len(s) + 1] = x /\ \A i \in DOMAIN s : t[i] = s[i]
<1>1. t \in Seq(S) /\ Len(t) = Len(s) + 1 /\ t[Len(s) + 1] = x
        /\ \A i \in 1..Len(s) : t[i] = s[i]
  BY AppendProperties
<1>2. DOMAIN s = 1..Len(s) /\ Len(s) \in Nat /\ DOMAIN t = 1..Len(t)
  BY <1>1, LenProperties
<1>3. t # <<>>
  BY <1>1, <1>2, EmptySeq
<1> QED
  BY <1>1, <1>2, <1>3

LEMMA Dropped ==
  ASSUME NEW S, NEW s \in Seq(S), s # <<>>, NEW t, t = Tail(s)
  PROVE  /\ t \in Seq(S) /\ Len(t) = Len(s) - 1 /\ Len(s) \in Nat /\ Len(s) >= 1
         /\ DOMAIN t = 1..(Len(s) - 1) /\ DOMAIN s = 1..Len(s)
         /\ \A i \in 1..(Len(s) - 1) : t[i] = s[i + 1]
         /\ Head(s) = s[1] /\ s[1] \in S
<1>1. t \in Seq(S) /\ Len(t) = Len(s) - 1 /\ Head(s) = s[1] /\ s[1] \in S
  BY HeadTailProperties, ElementOfSeq, LenProperties, EmptySeq
<1>2. Len(s) \in Nat /\ Len(s) >= 1 /\ DOMAIN s = 1..Len(s)
  BY LenProperties, EmptySeq
<1>3. DOMAIN t = 1..(Len(s) - 1) /\ \A i \in 1..(Len(s) - 1) : t[i] = s[i + 1]
  BY <1>1, <1>2, LenProperties, HeadTailProperties
<1> QED
  BY <1>1, <1>2, <1>3

LEMMA TaskFacts ==
  ASSUME NEW n \in Nat
  PROVE  /\ \A o \in {"read", "next", "close"} : Task(o, 0) \in TaskOf(n)
         /\ \A m \in 1..n : Task("send", m) \in TaskOf(n)
         /\ \A t \in TaskOf(n) :
              \/ t.op \in {"read", "next", "close"} /\ t.arg = 0
              \/ t.op = "send" /\ t.arg \in 1..n
         /\ \A t \in TaskOf(n) : t.op = "send" => t = Task("send", t.arg)
         /\ \A t \in TaskOf(n) : t # NoTask
         /\ \A o, a : Task(o, a).op = o /\ Task(o, a).arg = a
<1>1. \A o \in {"read", "next", "close"} : Task(o, 0) \in TaskOf(n)
  BY DEF TaskOf
<1>2. \A m \in 1..n : Task("send", m) \in TaskOf(n)
  BY DEF TaskOf
<1>3. \A o, a : Task(o, a).op = o /\ Task(o, a).arg = a
  BY DEF Task
<1>4. ASSUME NEW t \in TaskOf(n)
      PROVE  \/ \E o \in {"read", "next", "close"} : t = Task(o, 0)
             \/ \E m \in 1..n : t = Task("send", m)
  BY DEF TaskOf
<1>5. ASSUME NEW t \in TaskOf(n)
      PROVE  /\ \/ t.op \in {"read", "next", "close"} /\ t.arg = 0
                \/ t.op = "send" /\ t.arg \in 1..n
             /\ t.op = "send" => t = Task("send", t.arg)
             /\ t # NoTask
  BY <1>3, <1>4 DEF NoTask
<1> QED
  BY <1>1, <1>2, <1>3, <1>5

LEMMA TasksGrow ==
  ASSUME NEW m \in Nat, NEW n \in Nat, m <= n
  PROVE  TaskOf(m) \subseteq TaskOf(n) /\ 1..m \subseteq 1..n /\ WriteOf(m) \subseteq WriteOf(n)
BY DEF TaskOf, Task, WriteOf

\* The tasks not yet finished are the one that runs and those that wait.
LEMMA TasksAre ==
  ASSUME CoreType
  PROVE  /\ \A o \in {"read", "next", "close", "send"} : HasTask(o) <=> Has(o)
         /\ \A t \in TaskOf(asked) : (\E i \in DOMAIN Tasks : Tasks[i] = t) <=> Due(t)
         /\ \A i \in DOMAIN Tasks : Tasks[i] \in TaskOf(asked)
         /\ DOMAIN Tasks = 1..Len(Tasks)
<1> USE DEF CoreType
<1>1. /\ DOMAIN strand = 1..Len(strand) /\ Len(strand) \in Nat
      /\ \A i \in DOMAIN strand : strand[i] \in TaskOf(asked)
  BY LenProperties, ElementOfSeq
<1>2. CASE running = NoTask
  <2>1. Tasks = strand
    BY <1>2 DEF Tasks
  <2>2. \A t \in TaskOf(asked) : running # t
    BY <1>2, TaskFacts
  <2>3. \A o \in {"read", "next", "close", "send"} : running.op # o
    BY <1>2 DEF NoTask, Task
  <2> QED
    BY <1>1, <2>1, <2>2, <2>3 DEF HasTask, Has, Due
<1>3. CASE running # NoTask
  <2>1. running \in TaskOf(asked) /\ <<running>> \in Seq(TaskOf(asked)) /\ Tasks = <<running>> \o strand
    BY <1>3 DEF Tasks
  <2>2. Len(<<running>>) = 1 /\ <<running>>[1] = running
    OBVIOUS
  <2>3. /\ Tasks \in Seq(TaskOf(asked)) /\ Len(Tasks) = 1 + Len(strand) /\ Tasks[1] = running
        /\ \A i \in 1..Len(strand) : Tasks[i + 1] = strand[i]
    <3>1. Tasks \in Seq(TaskOf(asked)) /\ Len(Tasks) = Len(<<running>>) + Len(strand)
            /\ \A i \in 1..(Len(<<running>>) + Len(strand)) :
                 Tasks[i] = IF i <= Len(<<running>>) THEN <<running>>[i] ELSE strand[i - Len(<<running>>)]
      BY <2>1, ConcatProperties
    <3> QED
      BY <1>1, <2>2, <3>1
  <2>4. /\ DOMAIN Tasks = 1..(1 + Len(strand))
        /\ \A i \in DOMAIN Tasks : Tasks[i] = IF i = 1 THEN running ELSE strand[i - 1]
        /\ \A i \in DOMAIN Tasks : i # 1 => i - 1 \in DOMAIN strand
    <3>1. DOMAIN Tasks = 1..(1 + Len(strand))
      BY <2>3, LenProperties
    <3>2. ASSUME NEW i \in 1..(1 + Len(strand)), i # 1 PROVE i - 1 \in 1..Len(strand) /\ Tasks[i] = strand[i - 1]
      <4>1. i - 1 \in 1..Len(strand) /\ (i - 1) + 1 = i
        BY <1>1, <3>2
      <4> QED
        BY <2>3, <4>1
    <3> QED
      BY <1>1, <2>3, <3>1, <3>2
  <2>5. ASSUME NEW i \in DOMAIN strand PROVE i + 1 \in DOMAIN Tasks /\ Tasks[i + 1] = strand[i]
    BY <1>1, <2>3, <2>4
  <2>6. 1 \in DOMAIN Tasks /\ Tasks[1] = running /\ Len(Tasks) = 1 + Len(strand)
    BY <1>1, <2>3, <2>4
  <2>7. ASSUME NEW o \in {"read", "next", "close", "send"} PROVE HasTask(o) <=> Has(o)
    <3>1. ASSUME HasTask(o) PROVE Has(o)
      <4>1. PICK i \in DOMAIN Tasks : Tasks[i].op = o
        BY <2>4, <2>6, <3>1 DEF HasTask
      <4> QED
        BY <2>4, <4>1 DEF Has
    <3>2. ASSUME Has(o) PROVE HasTask(o)
      <4>1. \E i \in DOMAIN Tasks : Tasks[i].op = o
        BY <2>5, <2>6, <3>2 DEF Has
      <4> QED
        BY <2>4, <2>6, <4>1 DEF HasTask
    <3> QED
      BY <3>1, <3>2
  <2>8. ASSUME NEW t \in TaskOf(asked)
        PROVE (\E i \in DOMAIN Tasks : Tasks[i] = t) <=> Due(t)
    <3>1. ASSUME NEW i \in DOMAIN Tasks, Tasks[i] = t PROVE Due(t)
      BY <2>4, <3>1 DEF Due
    <3>2. ASSUME Due(t) PROVE \E i \in DOMAIN Tasks : Tasks[i] = t
      BY <2>5, <2>6, <3>2 DEF Due
    <3> QED
      BY <3>1, <3>2
  <2>9. \A i \in DOMAIN Tasks : Tasks[i] \in TaskOf(asked)
    BY <1>1, <2>1, <2>4
  <2> QED
    BY <2>4, <2>6, <2>7, <2>8, <2>9
<1> QED
  BY <1>2, <1>3

-----------------------------------------------------------------------------
(* What a step does to the socket, the strand, the queue and the writes.   *)

coreVars == <<open, strand, running, queue, writes, sent, asked>>

\* A close is posted; a get is answered; the next task begins; a task ends that has
\* nothing to do.
Asks    == /\ asked' = asked + 1 /\ Post("send", asked + 1)
           /\ UNCHANGED <<open, running, queue, writes, sent>>
Alerts  == Post("close", 0) /\ UNCHANGED <<open, running, queue, writes, sent, asked>>
Begins  == /\ running = NoTask /\ strand # <<>>
           /\ running' = Head(strand) /\ strand' = Tail(strand)
           /\ UNCHANGED <<open, queue, writes, sent, asked>>
Ends    == /\ \/ running.op = "read" \/ (running.op \in {"send", "close"} /\ ~open)
              \/ running.op = "next" /\ queue = <<>>
           /\ running' = NoTask /\ UNCHANGED <<open, strand, queue, writes, sent, asked>>

\* A response enters the queue; the written one leaves it; the socket is closed.
Enters  == /\ running.op = "send" /\ running' = NoTask /\ open
           /\ queue' = Append(queue, running.arg)
           /\ IF queue = <<>> THEN StartWrite(running.arg) ELSE UNCHANGED writes
           /\ UNCHANGED <<open, strand, sent, asked>>
Leaves  == /\ running.op = "next" /\ running' = NoTask /\ queue # <<>>
           /\ queue' = Tail(queue)
           /\ IF Len(queue) > 1 THEN StartWrite(queue[2]) ELSE UNCHANGED writes
           /\ UNCHANGED <<open, strand, sent, asked>>
Closes  == /\ running.op = "close" /\ running' = NoTask /\ open
           /\ open' = FALSE /\ queue' = <<>>
           /\ \E st \in {"aborted", "failed"} :
                writes' = [i \in DOMAIN writes |->
                  IF writes[i].st = "pending" THEN [writes[i] EXCEPT !.st = st] ELSE writes[i]]
           /\ UNCHANGED <<strand, sent, asked>>

\* A write completes, fails, is reported.
Completes(i) == /\ writes[i].st = "pending"
                /\ writes' = [writes EXCEPT ![i].st = "done"]
                /\ sent' = Append(sent, writes[i].msg)
                /\ UNCHANGED <<open, strand, running, queue, asked>>
Breaks(i)    == /\ writes[i].st = "pending"
                /\ writes' = [writes EXCEPT ![i].st = "failed"]
                /\ UNCHANGED <<open, strand, running, queue, sent, asked>>
Reported(i)  == /\ writes[i].st # "pending"
                /\ writes' = [j \in 1..(Len(writes) - 1) |-> writes[IF j < i THEN j ELSE j + 1]]
                /\ CASE writes[i].st = "done"    -> Post("next", 0)
                     [] writes[i].st = "failed"  -> Post("close", 0)
                     [] writes[i].st = "aborted" -> UNCHANGED strand
                /\ UNCHANGED <<open, running, queue, sent, asked>>

OnWrites == \E i \in DOMAIN writes : Completes(i) \/ Breaks(i) \/ Reported(i)

LEMMA StrandSteps ==
  ASSUME StrandRun, open \in BOOLEAN PROVE Begins \/ Ends \/ Enters \/ Leaves \/ Closes
<1>1. CASE Begin
  BY <1>1 DEF Begin, Begins, netVars, readVars
<1>2. CASE FirstRead
  BY <1>2 DEF FirstRead, Finish, Ends, readVars
<1>3. CASE Send
  BY <1>3 DEF Send, Finish, Enters, readVars
<1>4. CASE TaskOnClosed
  BY <1>4 DEF TaskOnClosed, Finish, Ends, netVars, readVars
<1>5. CASE SendNext
  <2>1. IF Len(queue) > 1 THEN StartWrite(queue[2]) ELSE UNCHANGED writes
    BY <1>5 DEF SendNext
  <2> QED
    BY <1>5, <2>1 DEF SendNext, Finish, Leaves, readVars
<1>6. CASE SendNextOnEmpty
  BY <1>6 DEF SendNextOnEmpty, Finish, Ends, netVars, readVars
<1>7. CASE Close
  <2>1. CASE open
    BY <1>7, <2>1 DEF Close, Finish, Closes, readVars
  <2>2. CASE ~open
    <3>1. open' = FALSE /\ queue' = queue /\ writes' = writes
      BY <1>7, <2>2 DEF Close
    <3>2. open' = open
      BY <2>2, <3>1
    <3> QED
      BY <1>7, <2>2, <3>1, <3>2 DEF Close, Finish, Ends, readVars
  <2> QED
    BY <2>1, <2>2
<1> QED
  BY <1>1, <1>2, <1>3, <1>4, <1>5, <1>6, <1>7 DEF StrandRun

LEMMA OtherSteps ==
  ASSUME [Next]_vars, ~StrandRun
  PROVE  UNCHANGED coreVars \/ Asks \/ Alerts \/ OnWrites
<1> USE DEF coreVars
<1>1. CASE ReadDone \/ ParseEnds \/ Check \/ ReadTimer \/ ReadAgain \/ ReadEnds
  BY <1>1 DEF ReadDone, ParseEnds, Check, ReadTimer, ReadAgain, ReadEnds, readFrame, readVars
<1>2. CASE Parse
  BY <1>2 DEF Parse, Asks, readFrame
<1>3. CASE ParseFails \/ ReadFails \/ TimerHandler
  BY <1>3 DEF ParseFails, ReadFails, TimerHandler, Alerts, readFrame, netVars, readVars
<1>4. CASE Arrive \/ PeerEnds \/ Expire \/ Over \/ UNCHANGED vars
  BY <1>4 DEF Arrive, PeerEnds, Expire, Over, vars, envFrame, netVars, taskVars, readVars
<1>5. ASSUME NEW i \in DOMAIN writes, WriteHandler(i) \/ WriteDone(i) \/ WriteFails(i)
      PROVE  OnWrites
  <2>1. CASE WriteHandler(i)
    <3>1. Reported(i)
      BY <2>1 DEF WriteHandler, Reported, readVars
    <3> QED
      BY <3>1 DEF OnWrites
  <2>2. CASE WriteDone(i)
    BY <2>2 DEF WriteDone, Completes, OnWrites, envFrame, taskVars
  <2>3. CASE WriteFails(i)
    BY <2>3 DEF WriteFails, Breaks, OnWrites, envFrame, taskVars
  <2> QED
    BY <1>5, <2>1, <2>2, <2>3
<1> QED
  BY <1>1, <1>2, <1>3, <1>4, <1>5 DEF Next, ReadRun

-----------------------------------------------------------------------------
(* Each part of the invariant is kept by each kind of step.                *)

\* A step of the strand or of a write leaves what it does not touch well typed.
LEMMA CoreTypeKept ==
  ASSUME CoreType, Begins \/ Ends \/ Enters \/ Leaves \/ Closes \/ Asks \/ Alerts \/ OnWrites
  PROVE  CoreType'
<1> USE DEF CoreType
<1>1. \A i \in DOMAIN writes : writes[i] \in WriteOf(asked) /\ writes[i].msg \in 1..asked
  <2>1. \A i \in DOMAIN writes : writes[i] \in WriteOf(asked)
    BY ElementOfSeq, LenProperties
  <2> QED
    BY <2>1 DEF WriteOf
<1>2. \A m \in 1..asked : [msg |-> m, st |-> "pending"] \in WriteOf(asked)
  BY DEF WriteOf
<1>3. CASE Begins
  BY <1>3, Dropped DEF Begins
<1>4. CASE Ends
  BY <1>4 DEF Ends
<1>5. CASE Enters
  <2>1. running.arg \in 1..asked
    BY <1>5, TaskFacts DEF Enters, NoTask, Task
  <2>2. queue' \in Seq(1..asked)
    BY <1>5, <2>1, Appended DEF Enters
  <2>3. writes' \in Seq(WriteOf(asked))
    <3>1. writes' = writes \/ writes' = Append(writes, [msg |-> running.arg, st |-> "pending"])
      BY <1>5 DEF Enters, StartWrite
    <3> QED
      BY <1>2, <2>1, <3>1, Appended
  <2> QED
    BY <1>5, <2>2, <2>3 DEF Enters
<1>6. CASE Leaves
  <2>1. queue' \in Seq(1..asked)
    BY <1>6, Dropped DEF Leaves
  <2>2. writes' \in Seq(WriteOf(asked))
    <3>1. CASE Len(queue) > 1
      <4>1. queue[2] \in 1..asked
        BY <3>1, ElementOfSeq, LenProperties
      <4>2. writes' = Append(writes, [msg |-> queue[2], st |-> "pending"])
        BY <1>6, <3>1 DEF Leaves, StartWrite
      <4> QED
        BY <1>2, <4>1, <4>2, Appended
    <3>2. CASE ~(Len(queue) > 1)
      BY <1>6, <3>2 DEF Leaves
    <3> QED
      BY <3>1, <3>2
  <2> QED
    BY <1>6, <2>1, <2>2 DEF Leaves
<1>7. CASE Closes
  <2>1. PICK st \in {"aborted", "failed"} :
          writes' = [i \in DOMAIN writes |->
            IF writes[i].st = "pending" THEN [writes[i] EXCEPT !.st = st] ELSE writes[i]]
    BY <1>7 DEF Closes
  <2>2. \A w \in WriteOf(asked) : [w EXCEPT !.st = st] \in WriteOf(asked)
    BY DEF WriteOf
  <2>3. DOMAIN writes = 1..Len(writes) /\ Len(writes) \in Nat
    BY LenProperties
  <2>4. writes' \in Seq(WriteOf(asked))
    BY <1>1, <2>1, <2>2, <2>3, SeqDef
  <2>5. <<>> \in Seq(1..asked)
    BY EmptySeq
  <2> QED
    BY <1>7, <2>4, <2>5 DEF Closes
<1>8. CASE Asks
  <2>1. asked' = asked + 1 /\ strand' = Append(strand, Task("send", asked + 1))
    BY <1>8 DEF Asks, Post
  <2>2. /\ TaskOf(asked) \subseteq TaskOf(asked') /\ 1..asked \subseteq 1..asked'
        /\ WriteOf(asked) \subseteq WriteOf(asked') /\ asked' \in Nat
    BY <2>1, TasksGrow
  <2>3. strand \in Seq(TaskOf(asked'))
    BY <2>2, SeqGrows
  <2>4. Task("send", asked + 1) \in TaskOf(asked')
    BY <2>1, <2>2, TaskFacts
  <2>5. strand' \in Seq(TaskOf(asked'))
    BY <2>1, <2>3, <2>4, Appended
  <2>6. queue \in Seq(1..asked') /\ sent \in Seq(1..asked') /\ writes \in Seq(WriteOf(asked'))
    BY <2>2, SeqGrows
  <2> QED
    BY <1>8, <2>2, <2>5, <2>6 DEF Asks
<1>9. CASE Alerts
  <2>1. Task("close", 0) \in TaskOf(asked)
    BY TaskFacts
  <2> QED
    BY <1>9, <2>1, Appended DEF Alerts, Post
<1>10. ASSUME NEW i \in DOMAIN writes, Completes(i) PROVE CoreType'
  <2>1. sent' \in Seq(1..asked)
    BY <1>1, <1>10, Appended DEF Completes
  <2>2. [writes[i] EXCEPT !.st = "done"] \in WriteOf(asked)
    BY <1>1 DEF WriteOf
  <2>3. writes' \in Seq(WriteOf(asked))
    BY <1>10, <2>2, ExceptSeq DEF Completes
  <2> QED
    BY <1>10, <2>1, <2>3 DEF Completes
<1>11. ASSUME NEW i \in DOMAIN writes, Breaks(i) PROVE CoreType'
  <2>2. [writes[i] EXCEPT !.st = "failed"] \in WriteOf(asked)
    BY <1>1 DEF WriteOf
  <2>3. writes' \in Seq(WriteOf(asked))
    BY <1>11, <2>2, ExceptSeq DEF Breaks
  <2> QED
    BY <1>11, <2>3 DEF Breaks
<1>12. ASSUME NEW i \in DOMAIN writes, Reported(i) PROVE CoreType'
  <2>1. DOMAIN writes = 1..Len(writes) /\ Len(writes) \in Nat /\ i \in 1..Len(writes)
    BY LenProperties
  <2>2. writes' \in Seq(WriteOf(asked))
    <3>1. Len(writes) - 1 \in Nat
      BY <2>1
    <3>2. ASSUME NEW j \in 1..(Len(writes) - 1)
          PROVE  writes[IF j < i THEN j ELSE j + 1] \in WriteOf(asked)
      BY <1>1, <2>1
    <3> QED
      BY <1>12, <3>1, <3>2, SeqDef DEF Reported
  <2>3. strand' \in Seq(TaskOf(asked))
    <3>1. strand' = strand \/ \E o \in {"next", "close"} : strand' = Append(strand, Task(o, 0))
      <4>1. writes[i].st \in {"done", "failed", "aborted"}
        BY <1>1, <1>12 DEF Reported, WriteOf
      <4> QED
        BY <1>12, <4>1 DEF Reported, Post
    <3> QED
      BY <3>1, TaskFacts, Appended
  <2> QED
    BY <1>12, <2>2, <2>3 DEF Reported
<1> QED
  BY <1>3, <1>4, <1>5, <1>6, <1>7, <1>8, <1>9, <1>10, <1>11, <1>12 DEF OnWrites

-----------------------------------------------------------------------------
(* What becomes of the tasks.                                              *)

Op == {"read", "next", "close", "send"}

LEMMA BeginsHas ==
  ASSUME CoreType, Begins
  PROVE  /\ \A o \in Op : Has(o)' <=> Has(o)
         /\ \A n : Due(Task("send", n))' <=> Due(Task("send", n))
<1>1. /\ running = NoTask /\ running' = strand[1] /\ Len(strand) \in Nat /\ Len(strand) >= 1
      /\ DOMAIN strand = 1..Len(strand) /\ DOMAIN strand' = 1..(Len(strand) - 1)
      /\ \A i \in 1..(Len(strand) - 1) : strand'[i] = strand[i + 1]
  BY Dropped DEF CoreType, Begins
<1>2. NoTask.op = "none" /\ \A n : NoTask # Task("send", n)
  BY DEF NoTask, Task
<1>3. \A i \in DOMAIN strand :
        i # 1 => i - 1 \in DOMAIN strand' /\ strand'[i - 1] = strand[i]
  <2>1. ASSUME NEW i \in 1..Len(strand), i # 1
        PROVE  i - 1 \in 1..(Len(strand) - 1) /\ strand'[i - 1] = strand[i]
    <3>1. i - 1 \in 1..(Len(strand) - 1) /\ (i - 1) + 1 = i
      BY <1>1, <2>1
    <3> QED
      BY <1>1, <3>1
  <2> QED
    BY <1>1, <2>1
<1>4. \A i \in DOMAIN strand' : i + 1 \in DOMAIN strand /\ strand'[i] = strand[i + 1]
  BY <1>1
<1>5. 1 \in DOMAIN strand
  BY <1>1
<1>6. ASSUME NEW o \in Op PROVE Has(o)' <=> Has(o)
  <2>1. ASSUME Has(o) PROVE Has(o)'
    <3>1. PICK i \in DOMAIN strand : strand[i].op = o
      BY <1>1, <1>2, <1>6, <2>1 DEF Has, Op
    <3> QED
      BY <1>1, <1>3, <3>1 DEF Has
  <2>2. ASSUME Has(o)' PROVE Has(o)
    <3>1. \E i \in DOMAIN strand : strand[i].op = o
      BY <1>1, <1>4, <1>5, <2>2 DEF Has
    <3> QED
      BY <3>1 DEF Has
  <2> QED
    BY <2>1, <2>2
<1>7. ASSUME NEW n PROVE Due(Task("send", n))' <=> Due(Task("send", n))
  <2>1. ASSUME Due(Task("send", n)) PROVE Due(Task("send", n))'
    <3>1. PICK i \in DOMAIN strand : strand[i] = Task("send", n)
      BY <1>1, <1>2, <2>1 DEF Due
    <3> QED
      BY <1>1, <1>3, <3>1 DEF Due
  <2>2. ASSUME Due(Task("send", n))' PROVE Due(Task("send", n))
    <3>1. \E i \in DOMAIN strand : strand[i] = Task("send", n)
      BY <1>1, <1>4, <1>5, <2>2 DEF Due
    <3> QED
      BY <3>1 DEF Due
  <2> QED
    BY <2>1, <2>2
<1> QED
  BY <1>6, <1>7

LEMMA PostHas ==
  ASSUME CoreType, NEW n \in Nat, n >= asked, NEW t \in TaskOf(n),
         strand' = Append(strand, t), running' = running
  PROVE  /\ DOMAIN strand = 1..Len(strand) /\ Len(strand) \in Nat
         /\ DOMAIN strand' = 1..(Len(strand) + 1) /\ strand'[Len(strand) + 1] = t
         /\ \A i \in DOMAIN strand : strand'[i] = strand[i]
         /\ \A i \in DOMAIN strand' : i \in DOMAIN strand \/ i = Len(strand) + 1
         /\ \A o : Has(o)' <=> Has(o) \/ t.op = o
         /\ \A u : Due(u) => Due(u)'
         /\ Due(t)'
<1>1. strand \in Seq(TaskOf(n))
  BY TasksGrow, SeqGrows DEF CoreType
<1>2. /\ DOMAIN strand = 1..Len(strand) /\ Len(strand) \in Nat
      /\ DOMAIN strand' = 1..(Len(strand) + 1) /\ strand'[Len(strand) + 1] = t
      /\ \A i \in DOMAIN strand : strand'[i] = strand[i]
  BY <1>1, Appended
<1>3. /\ \A i \in DOMAIN strand' : i \in DOMAIN strand \/ i = Len(strand) + 1
      /\ \A i \in DOMAIN strand : i \in DOMAIN strand'
      /\ Len(strand) + 1 \in DOMAIN strand'
  BY <1>2
<1>4. ASSUME NEW o PROVE Has(o)' <=> Has(o) \/ t.op = o
  BY <1>2, <1>3 DEF Has
<1>5. ASSUME NEW u, Due(u) PROVE Due(u)'
  BY <1>2, <1>3, <1>5 DEF Due
<1>6. Due(t)'
  BY <1>2, <1>3 DEF Due
<1> QED
  BY <1>2, <1>3, <1>4, <1>5, <1>6

LEMMA EndHas ==
  ASSUME running' = NoTask, strand' = strand
  PROVE  /\ \A o \in Op : Has(o)' => Has(o)
         /\ \A o \in Op : Has(o) /\ running.op # o => Has(o)'
         /\ \A t : Due(t) /\ running # t => Due(t)'
<1>1. NoTask.op = "none"
  BY DEF NoTask, Task
<1> QED
  BY <1>1 DEF Has, Due, Op

-----------------------------------------------------------------------------
(* What becomes of the writes.                                             *)

LEMMA OneWrite ==
  ASSUME CoreType, Lock
  PROVE  /\ \A i \in DOMAIN writes : i = 1
         /\ writes # <<>> => DOMAIN writes = {1} /\ Len(writes) = 1
         /\ writes = <<>> => DOMAIN writes = {} /\ Len(writes) = 0
<1>1. DOMAIN writes = 1..Len(writes) /\ Len(writes) \in Nat /\ Len(writes) <= 1
  BY LenProperties DEF CoreType, Lock
<1>2. writes # <<>> => Len(writes) # 0
  BY EmptySeq DEF CoreType
<1>3. writes = <<>> => Len(writes) = 0
  BY EmptySeq
<1> QED
  BY <1>1, <1>2, <1>3

LEMMA Started ==
  ASSUME NEW m, NEW n \in Nat, m \in 1..n, writes = <<>>, StartWrite(m)
  PROVE  /\ writes' # <<>> /\ Len(writes') = 1 /\ DOMAIN writes' = {1}
         /\ writes'[1].msg = m /\ writes'[1].st = "pending"
<1> DEFINE x == [msg |-> m, st |-> "pending"]
<1>1. <<>> \in Seq({x}) /\ Len(<<>>) = 0
  BY EmptySeq
<1>2. writes' = Append(<<>>, x)
  BY DEF StartWrite
<1>3. x.msg = m /\ x.st = "pending"
  OBVIOUS
<1> HIDE DEF x
<1>4. writes' # <<>> /\ Len(writes') = 0 + 1 /\ DOMAIN writes' = 1..(0 + 1) /\ writes'[0 + 1] = x
  BY <1>1, <1>2, Appended
<1> QED
  BY <1>3, <1>4

LEMMA WritesMove ==
  ASSUME CoreType, Lock, NEW i \in DOMAIN writes, NEW s,
         writes' = [writes EXCEPT ![i].st = s]
  PROVE  /\ writes # <<>> /\ writes' # <<>> /\ Len(writes') = 1
         /\ DOMAIN writes = {1} /\ DOMAIN writes' = {1} /\ i = 1
         /\ writes'[1].msg = writes[1].msg /\ writes'[1].st = s
<1>1. i = 1 /\ DOMAIN writes = {1} /\ Len(writes) = 1 /\ writes # <<>>
  BY OneWrite
<1>2. writes[1] \in WriteOf(asked)
  BY <1>1, ElementOfSeq DEF CoreType
<1>3. writes'[1] = [writes[1] EXCEPT !.st = s] /\ DOMAIN writes' = {1}
  BY <1>1
<1>4. writes'[1].msg = writes[1].msg /\ writes'[1].st = s
  BY <1>2, <1>3 DEF WriteOf
<1>5. writes' \in Seq(WriteOf(asked) \cup {writes'[1]}) /\ Len(writes') = 1
  <2>1. writes' = [writes EXCEPT ![1] = writes'[1]]
    BY <1>1, <1>3
  <2>2. writes \in Seq(WriteOf(asked) \cup {writes'[1]}) /\ 1 \in 1..Len(writes)
    BY <1>1, SeqGrows DEF CoreType
  <2> QED
    BY <1>1, <2>1, <2>2, ExceptSeq
<1>6. writes' # <<>>
  BY <1>5, EmptySeq
<1> QED
  BY <1>1, <1>3, <1>4, <1>5, <1>6

LEMMA WriteReported ==
  ASSUME CoreType, Lock, NEW i \in DOMAIN writes, Reported(i)
  PROVE  /\ i = 1 /\ writes # <<>> /\ DOMAIN writes = {1} /\ writes' = <<>>
         /\ \/ writes[1].st = "done" /\ Post("next", 0)
            \/ writes[1].st = "failed" /\ Post("close", 0)
            \/ writes[1].st = "aborted" /\ strand' = strand
<1>1. i = 1 /\ DOMAIN writes = {1} /\ Len(writes) = 1 /\ writes # <<>>
  BY OneWrite
<1>2. writes[1] \in WriteOf(asked)
  BY <1>1, ElementOfSeq DEF CoreType
<1>3. writes[1].st \in {"done", "failed", "aborted"}
  BY <1>1, <1>2 DEF Reported, WriteOf
<1>4. writes' = <<>>
  <2>1. Len(writes) - 1 = 0
    BY <1>1
  <2>2. writes' = [j \in 1..0 |-> writes[IF j < i THEN j ELSE j + 1]]
    BY <2>1 DEF Reported
  <2> QED
    BY <2>2
<1> QED
  BY <1>1, <1>3, <1>4 DEF Reported

LEMMA WritesShut ==
  ASSUME CoreType, Lock, Closes
  PROVE  /\ writes' = <<>> <=> writes = <<>>
         /\ Len(writes') = Len(writes) /\ DOMAIN writes' = DOMAIN writes
         /\ \A i \in DOMAIN writes' : writes'[i].st # "pending"
<1>1. PICK st \in {"aborted", "failed"} :
        writes' = [i \in DOMAIN writes |->
          IF writes[i].st = "pending" THEN [writes[i] EXCEPT !.st = st] ELSE writes[i]]
  BY DEF Closes
<1>2. DOMAIN writes = 1..Len(writes) /\ Len(writes) \in Nat
  BY LenProperties DEF CoreType
<1>3. ASSUME NEW i \in DOMAIN writes PROVE writes'[i].st # "pending"
  <2>1. writes[i] \in WriteOf(asked)
    BY <1>2, ElementOfSeq DEF CoreType
  <2> QED
    BY <1>1, <2>1 DEF WriteOf
<1>4. DOMAIN writes' = 1..Len(writes)
  BY <1>1, <1>2
<1>5. writes' \in Seq({writes'[i] : i \in 1..Len(writes)})
  BY <1>1, <1>2, SeqDef
<1>6. Len(writes') = Len(writes)
  BY <1>2, <1>4, <1>5, LenProperties
<1> QED
  BY <1>1, <1>3, <1>5, <1>6, EmptySeq DEF CoreType

-----------------------------------------------------------------------------
(* The lock of the write side.                                             *)

\* A task that is posted keeps the lock, unless it is the one that drops a message.
LEMMA PostLock ==
  ASSUME CoreType, Lock, NEW n \in Nat, n >= asked, NEW t \in TaskOf(n),
         strand' = Append(strand, t), running' = running,
         \/ writes' = writes /\ t.op # "next"
         \/ writes' = <<>> /\ (t.op = "next" => writes # <<>>)
  PROVE  Lock'
<1>1. /\ DOMAIN strand' = 1..(Len(strand) + 1) /\ strand'[Len(strand) + 1] = t
      /\ \A i \in DOMAIN strand : strand'[i] = strand[i]
      /\ \A i \in DOMAIN strand' : i \in DOMAIN strand \/ i = Len(strand) + 1
      /\ \A o : Has(o)' <=> Has(o) \/ t.op = o
  BY PostHas
<1>2. Len(writes') <= 1 /\ (writes' # <<>> => ~Has("next")')
  <2>1. Len(<<>>) = 0
    BY EmptySeq
  <2> QED
    BY <1>1, <2>1 DEF Lock
<1>3. t.op = "next" => ~Has("next")
  BY DEF Lock
<1>4. running.op = "next" => \A i \in DOMAIN strand' : strand'[i].op # "next"
  BY <1>1, <1>3 DEF Lock, Has
<1>5. \A i, j \in DOMAIN strand' : strand'[i].op = "next" /\ strand'[j].op = "next" => i = j
  BY <1>1, <1>3 DEF Lock, Has
<1> QED
  BY <1>2, <1>4, <1>5 DEF Lock

\* So does the end of a task that starts no write beside another.
LEMMA EndLock ==
  ASSUME CoreType, Lock, running' = NoTask, strand' = strand,
         \/ Len(writes') = Len(writes) /\ (writes' = <<>> <=> writes = <<>>)
         \/ Len(writes') = 1 /\ writes' # <<>> /\ \A i \in DOMAIN strand : strand[i].op # "next"
  PROVE  Lock'
<1>1. NoTask.op = "none"
  BY DEF NoTask, Task
<1>2. ~Has("next") => ~Has("next")'
  BY EndHas DEF Op
<1>3. (\A i \in DOMAIN strand : strand[i].op # "next") => ~Has("next")'
  BY <1>1 DEF Has
<1>4. Len(writes') <= 1
  <2>1. Len(writes') = Len(writes) \/ Len(writes') = 1
    BY Zenon
  <2>2. Len(writes) <= 1
    BY DEF Lock
  <2>3. 1 <= 1
    OBVIOUS
  <2> QED
    BY <2>1, <2>2, <2>3, Zenon
<1>5. writes' # <<>> => ~Has("next")'
  BY <1>2, <1>3, Zenon DEF Lock
<1> QED
  BY <1>1, <1>4, <1>5 DEF Lock

LEMMA LockKept ==
  ASSUME CoreType, Lock, Front,
         Begins \/ Ends \/ Enters \/ Leaves \/ Closes \/ Asks \/ Alerts \/ OnWrites
  PROVE  Lock'
<1>1. CASE Begins
  <2>1. /\ running = NoTask /\ running' = strand[1] /\ Len(strand) \in Nat /\ Len(strand) >= 1
        /\ DOMAIN strand = 1..Len(strand) /\ DOMAIN strand' = 1..(Len(strand) - 1)
        /\ \A i \in 1..(Len(strand) - 1) : strand'[i] = strand[i + 1]
    BY <1>1, Dropped DEF CoreType, Begins
  <2>2. Has("next")' <=> Has("next")
    BY <1>1, BeginsHas DEF Op
  <2>3. writes' = writes
    BY <1>1 DEF Begins
  <2>4. \A i \in DOMAIN strand' : i + 1 \in DOMAIN strand /\ i + 1 # 1 /\ strand'[i] = strand[i + 1]
    BY <2>1
  <2>5. 1 \in DOMAIN strand
    BY <2>1
  <2>6. running'.op = "next" => \A i \in DOMAIN strand' : strand'[i].op # "next"
    BY <2>1, <2>4, <2>5 DEF Lock
  <2>7. \A i, j \in DOMAIN strand' : strand'[i].op = "next" /\ strand'[j].op = "next" => i = j
    <3>1. ASSUME NEW i \in DOMAIN strand', NEW j \in DOMAIN strand',
                 strand'[i].op = "next", strand'[j].op = "next"
          PROVE  i = j
      <4>1. i + 1 = j + 1
        BY <2>4, <3>1 DEF Lock
      <4> QED
        BY <2>1, <4>1
    <3> QED
      BY <3>1
  <2> QED
    BY <2>2, <2>3, <2>6, <2>7 DEF Lock
<1>2. CASE Ends
  BY <1>2, EndLock DEF Ends
<1>3. CASE Enters
  <2>1. CASE queue = <<>>
    <3>1. writes = <<>> /\ ~Has("next")
      BY <1>3, <2>1 DEF Enters, Front
    <3>2. asked \in Nat /\ running.arg \in 1..asked
      BY <1>3, TaskFacts DEF CoreType, Enters, NoTask, Task
    <3>3. Len(writes') = 1 /\ writes' # <<>>
      BY <1>3, <2>1, <3>1, <3>2, Started DEF Enters
    <3> QED
      BY <1>3, <3>1, <3>3, EndLock DEF Enters, Has
  <2>2. CASE queue # <<>>
    BY <1>3, <2>2, EndLock DEF Enters
  <2> QED
    BY <2>1, <2>2
<1>4. CASE Leaves
  <2>1. CASE Len(queue) > 1
    <3>1. writes = <<>> /\ \A i \in DOMAIN strand : strand[i].op # "next"
      BY <1>4 DEF Leaves, Lock, Has
    <3>2. asked \in Nat /\ queue[2] \in 1..asked
      BY <2>1, ElementOfSeq, LenProperties DEF CoreType
    <3>3. Len(writes') = 1 /\ writes' # <<>>
      BY <1>4, <2>1, <3>1, <3>2, Started DEF Leaves
    <3> QED
      BY <1>4, <3>1, <3>3, EndLock DEF Leaves
  <2>2. CASE ~(Len(queue) > 1)
    BY <1>4, <2>2, EndLock DEF Leaves
  <2> QED
    BY <2>1, <2>2
<1>5. CASE Closes
  BY <1>5, WritesShut, EndLock DEF Closes
<1>6. CASE Asks
  <2>1. Task("send", asked + 1) \in TaskOf(asked + 1) /\ asked + 1 \in Nat /\ asked + 1 >= asked
          /\ Task("send", asked + 1).op # "next"
    BY TaskFacts DEF CoreType
  <2> QED
    BY <1>6, <2>1, PostLock DEF Asks, Post
<1>7. CASE Alerts
  <2>1. Task("close", 0) \in TaskOf(asked) /\ asked \in Nat /\ asked >= asked
          /\ Task("close", 0).op # "next"
    BY TaskFacts DEF CoreType
  <2> QED
    BY <1>7, <2>1, PostLock DEF Alerts, Post
<1>8. ASSUME NEW i \in DOMAIN writes, Completes(i) \/ Breaks(i) PROVE Lock'
  <2>1. Len(writes') = 1 /\ writes # <<>> /\ strand' = strand /\ running' = running
    BY <1>8, WritesMove DEF Completes, Breaks
  <2> QED
    BY <2>1 DEF Lock, Has
<1>9. ASSUME NEW i \in DOMAIN writes, Reported(i) PROVE Lock'
  <2>1. writes # <<>> /\ writes' = <<>> /\ running' = running
    BY <1>9, WriteReported DEF Reported
  <2>2. CASE Post("next", 0) \/ Post("close", 0)
    <3>1. /\ asked \in Nat /\ asked >= asked
          /\ \A o \in {"next", "close"} : Task(o, 0) \in TaskOf(asked)
      BY TaskFacts DEF CoreType
    <3> QED
      BY <2>1, <2>2, <3>1, PostLock DEF Post
  <2>3. CASE strand' = strand
    <3>1. Len(<<>>) = 0
      BY EmptySeq
    <3> QED
      BY <2>1, <2>3, <3>1 DEF Lock, Has
  <2> QED
    BY <1>9, <2>2, <2>3, WriteReported
<1> QED
  BY <1>1, <1>2, <1>3, <1>4, <1>5, <1>6, <1>7, <1>8, <1>9 DEF OnWrites

-----------------------------------------------------------------------------
(* What the lock says of the queue.                                        *)

LEMMA Entered ==
  ASSUME CoreType, Enters
  PROVE  /\ running.arg \in 1..asked /\ queue' # <<>> /\ Len(queue') = Len(queue) + 1
         /\ Len(queue) \in Nat /\ DOMAIN queue = 1..Len(queue)
         /\ DOMAIN queue' = 1..(Len(queue) + 1)
         /\ queue'[Len(queue) + 1] = running.arg /\ \A i \in DOMAIN queue : queue'[i] = queue[i]
         /\ queue # <<>> => Len(queue) >= 1
         /\ queue = <<>> => Len(queue) = 0
         /\ Head(queue') = queue'[1] /\ (queue # <<>> => Head(queue) = queue[1])
<1>1. running.arg \in 1..asked /\ queue \in Seq(1..asked) /\ queue' = Append(queue, running.arg)
  BY TaskFacts DEF CoreType, Enters, NoTask, Task
<1>2. /\ queue' \in Seq(1..asked) /\ queue' # <<>> /\ Len(queue') = Len(queue) + 1
      /\ DOMAIN queue' = 1..(Len(queue) + 1) /\ DOMAIN queue = 1..Len(queue) /\ Len(queue) \in Nat
      /\ queue'[Len(queue) + 1] = running.arg /\ \A i \in DOMAIN queue : queue'[i] = queue[i]
  BY <1>1, Appended
<1>3. /\ queue # <<>> => Len(queue) >= 1 /\ Head(queue) = queue[1]
      /\ queue = <<>> => Len(queue) = 0
  BY <1>1, <1>2, Dropped, EmptySeq
<1>4. Head(queue') = queue'[1]
  BY <1>2, Dropped
<1> QED
  BY <1>1, <1>2, <1>3, <1>4

LEMMA Left ==
  ASSUME CoreType, Leaves
  PROVE  /\ Len(queue) \in Nat /\ Len(queue) >= 1 /\ DOMAIN queue = 1..Len(queue)
         /\ DOMAIN queue' = 1..(Len(queue) - 1) /\ Len(queue') = Len(queue) - 1
         /\ \A i \in 1..(Len(queue) - 1) : queue'[i] = queue[i + 1]
         /\ Len(queue) > 1 => queue' # <<>> /\ Head(queue') = queue[2] /\ queue[2] \in 1..asked
                                /\ queue'[1] = queue[2]
         /\ ~(Len(queue) > 1) => queue' = <<>>
<1>1. queue \in Seq(1..asked) /\ queue # <<>> /\ queue' = Tail(queue)
  BY DEF CoreType, Leaves
<1>2. /\ queue' \in Seq(1..asked) /\ Len(queue') = Len(queue) - 1
      /\ Len(queue) \in Nat /\ Len(queue) >= 1
      /\ DOMAIN queue' = 1..(Len(queue) - 1) /\ DOMAIN queue = 1..Len(queue)
      /\ \A i \in 1..(Len(queue) - 1) : queue'[i] = queue[i + 1]
  BY <1>1, Dropped
<1>3. ASSUME Len(queue) > 1
      PROVE  queue' # <<>> /\ Head(queue') = queue[2] /\ queue[2] \in 1..asked /\ queue'[1] = queue[2]
  <2>1. queue'[1] = queue[2] /\ Len(queue') # 0
    BY <1>2, <1>3
  <2>2. queue' # <<>>
    BY <1>2, <2>1, EmptySeq
  <2>3. Head(queue') = queue'[1] /\ queue'[1] \in 1..asked
    BY <1>2, <2>2, Dropped
  <2> QED
    BY <2>1, <2>2, <2>3
<1>4. ASSUME ~(Len(queue) > 1) PROVE queue' = <<>>
  <2>1. Len(queue') = 0
    BY <1>2, <1>4
  <2> QED
    BY <1>2, <2>1, EmptySeq
<1> QED
  BY <1>2, <1>3, <1>4

LEMMA FrontKept ==
  ASSUME CoreType, Lock, Front, open \in BOOLEAN,
         Begins \/ Ends \/ Enters \/ Leaves \/ Closes \/ Asks \/ Alerts \/ OnWrites
  PROVE  Front'
<1>1. CASE Begins
  <2>1. (Has("next")' <=> Has("next")) /\ (Has("close")' <=> Has("close"))
    BY <1>1, BeginsHas DEF Op
  <2> QED
    BY <1>1, <2>1 DEF Begins, Front
<1>2. CASE Ends
  <2>1. Has("next")' => Has("next")
    BY <1>2, EndHas DEF Ends, Op
  <2>2. open /\ queue # <<>> => running.op = "read"
    BY <1>2 DEF Ends
  <2>3. /\ open /\ queue # <<>> /\ Has("next") => Has("next")'
        /\ open /\ queue # <<>> /\ Has("close") => Has("close")'
    BY <1>2, <2>2, EndHas DEF Ends, Op
  <2>4. open' = open /\ queue' = queue /\ writes' = writes
    BY <1>2 DEF Ends
  <2> QED
    BY <2>1, <2>3, <2>4 DEF Front
<1>3. CASE Enters
  <2>1. open' = open /\ open /\ queue' # <<>> /\ Head(queue') = queue'[1]
    BY <1>3, Entered DEF Enters
  <2>2. CASE queue = <<>>
    <3>1. writes = <<>> /\ asked \in Nat /\ running.arg \in 1..asked /\ StartWrite(running.arg)
      BY <1>3, <2>1, <2>2, Entered DEF Front, Enters, CoreType
    <3>2. writes' # <<>> /\ DOMAIN writes' = {1} /\ writes'[1].msg = running.arg
            /\ writes'[1].st = "pending"
      BY <3>1, Started
    <3>3. queue'[1] = running.arg
      BY <1>3, <2>2, Entered
    <3> QED
      BY <2>1, <3>2, <3>3 DEF Front
  <2>3. CASE queue # <<>>
    <3>1. writes' = writes
      BY <1>3, <2>3 DEF Enters
    <3>2. Head(queue') = Head(queue)
      <4>1. 1 \in DOMAIN queue /\ Head(queue) = queue[1]
        BY <1>3, <2>3, Entered
      <4> QED
        BY <1>3, <2>1, <4>1, Entered
    <3>3. (Has("next") => Has("next")') /\ (Has("close") => Has("close")')
      BY <1>3, EndHas DEF Enters, Op
    <3> QED
      BY <2>1, <2>3, <3>1, <3>2, <3>3 DEF Front
  <2> QED
    BY <2>2, <2>3
<1>4. CASE Leaves
  <2>1. open' = open /\ open /\ writes = <<>> /\ ~Has("next")'
    <3>1. open' = open /\ open
      BY <1>4 DEF Leaves, Front
    <3>2. writes = <<>> /\ \A i \in DOMAIN strand : strand[i].op # "next"
      BY <1>4 DEF Leaves, Lock, Has
    <3>3. NoTask.op # "next"
      BY DEF NoTask, Task
    <3> QED
      BY <1>4, <3>1, <3>2, <3>3 DEF Leaves, Has
  <2>2. CASE Len(queue) > 1
    <3>1. asked \in Nat /\ queue[2] \in 1..asked /\ StartWrite(queue[2])
            /\ queue' # <<>> /\ Head(queue') = queue[2]
      BY <1>4, <2>2, Left DEF Leaves, CoreType
    <3>2. writes' # <<>> /\ DOMAIN writes' = {1} /\ writes'[1].msg = queue[2]
            /\ writes'[1].st = "pending"
      BY <2>1, <3>1, Started
    <3> QED
      BY <2>1, <3>1, <3>2 DEF Front
  <2>3. CASE ~(Len(queue) > 1)
    <3>1. writes' = <<>> /\ queue' = <<>>
      BY <1>4, <2>1, <2>3, Left DEF Leaves
    <3>2. DOMAIN writes' = {}
      BY <3>1, EmptySeq
    <3> QED
      BY <2>1, <3>1, <3>2 DEF Front
  <2> QED
    BY <2>2, <2>3
<1>5. CASE Closes
  <2>1. open' = FALSE /\ queue' = <<>> /\ \A i \in DOMAIN writes' : writes'[i].st # "pending"
    BY <1>5, WritesShut DEF Closes
  <2> QED
    BY <2>1 DEF Front
<1>6. ASSUME NEW t \in TaskOf(asked + 1), t.op \in {"send", "close"}, strand' = Append(strand, t),
             UNCHANGED <<running, open, queue, writes>>
      PROVE  Front'
  <2>1. asked + 1 \in Nat /\ asked + 1 >= asked /\ running' = running
    BY <1>6 DEF CoreType
  <2>2. \A o : Has(o)' <=> Has(o) \/ t.op = o
    BY <1>6, <2>1, PostHas
  <2>3. (Has("next")' <=> Has("next")) /\ (Has("close") => Has("close")')
    BY <1>6, <2>2
  <2> QED
    BY <1>6, <2>3 DEF Front
<1>7. CASE Asks
  BY <1>6, <1>7, TaskFacts DEF Asks, Post, CoreType
<1>8. CASE Alerts
  BY <1>6, <1>8, TaskFacts DEF Alerts, Post, CoreType
<1>9. ASSUME NEW i \in DOMAIN writes, Completes(i) \/ Breaks(i) PROVE Front'
  <2>1. /\ writes # <<>> /\ writes' # <<>> /\ DOMAIN writes = {1} /\ DOMAIN writes' = {1} /\ i = 1
        /\ writes'[1].msg = writes[1].msg /\ writes'[1].st \in {"done", "failed"}
        /\ writes[1].st = "pending"
    BY <1>9, WritesMove DEF Completes, Breaks
  <2>2. open /\ open' = open /\ queue' = queue /\ strand' = strand /\ running' = running
    BY <1>9, <2>1 DEF Completes, Breaks, Front
  <2> QED
    BY <2>1, <2>2 DEF Front, Has
<1>10. ASSUME NEW i \in DOMAIN writes, Reported(i) PROVE Front'
  <2>1. /\ i = 1 /\ writes # <<>> /\ DOMAIN writes = {1} /\ writes' = <<>> /\ DOMAIN writes' = {}
        /\ running' = running /\ queue' = queue /\ open' = open
    <3>1. i = 1 /\ writes # <<>> /\ DOMAIN writes = {1} /\ writes' = <<>>
      BY <1>10, WriteReported
    <3>2. running' = running /\ queue' = queue /\ open' = open
      BY <1>10 DEF Reported
    <3>3. DOMAIN writes' = {}
      BY <3>1
    <3> QED
      BY <3>1, <3>2, <3>3
  <2>2. ASSUME NEW o \in {"next", "close"}, Post(o, 0) PROVE Front'
    <3>1. \A a : Has(a)' <=> Has(a) \/ a = o
      <4>1. Task(o, 0) \in TaskOf(asked) /\ asked \in Nat /\ Task(o, 0).op = o
        BY TaskFacts DEF CoreType
      <4> QED
        BY <2>1, <2>2, <4>1, PostHas DEF Post
    <3>2. open => queue # <<>>
      BY <2>1 DEF Front
    <3>3. ~Has("next")
      BY <2>1 DEF Lock
    <3> QED
      BY <2>1, <3>1, <3>2, <3>3 DEF Front
  <2>3. CASE writes[1].st = "aborted" /\ strand' = strand
    <3>1. ~open
      BY <2>1, <2>3 DEF Front
    <3> QED
      BY <2>1, <3>1 DEF Front
  <2> QED
    BY <1>10, <2>2, <2>3, WriteReported
<1> QED
  BY <1>1, <1>2, <1>3, <1>4, <1>5, <1>7, <1>8, <1>9, <1>10 DEF OnWrites

-----------------------------------------------------------------------------
(* The order of the responses that wait for the strand.                    *)

LEMMA TidyKept ==
  ASSUME CoreType, Tidy,
         Begins \/ Ends \/ Enters \/ Leaves \/ Closes \/ Asks \/ Alerts \/ OnWrites
  PROVE  Tidy'
<1>1. CASE Begins
  <2>1. /\ running' = strand[1] /\ Len(strand) \in Nat /\ Len(strand) >= 1
        /\ DOMAIN strand = 1..Len(strand) /\ DOMAIN strand' = 1..(Len(strand) - 1)
        /\ \A i \in 1..(Len(strand) - 1) : strand'[i] = strand[i + 1]
    BY <1>1, Dropped DEF CoreType, Begins
  <2>2. \A i \in DOMAIN strand' : i + 1 \in DOMAIN strand /\ 1 < i + 1 /\ strand'[i] = strand[i + 1]
    BY <2>1
  <2>3. 1 \in DOMAIN strand
    BY <2>1
  <2>4. running'.op = "send" =>
          \A j \in DOMAIN strand' : strand'[j].op = "send" => running'.arg < strand'[j].arg
    BY <2>1, <2>2, <2>3 DEF Tidy
  <2>5. ASSUME NEW i \in DOMAIN strand', NEW j \in DOMAIN strand', i < j,
               strand'[i].op = "send", strand'[j].op = "send"
        PROVE  strand'[i].arg < strand'[j].arg
    <3>1. i + 1 < j + 1
      BY <2>1, <2>5
    <3> QED
      BY <2>2, <2>5, <3>1 DEF Tidy
  <2> QED
    BY <2>4, <2>5 DEF Tidy
<1>2. ASSUME running' = NoTask, strand' = strand PROVE Tidy'
  <2>1. NoTask.op = "none"
    BY DEF NoTask, Task
  <2> QED
    BY <1>2, <2>1 DEF Tidy
<1>3. ASSUME running' = running, strand' = strand PROVE Tidy'
  BY <1>3 DEF Tidy
<1>4. ASSUME running' = running, NEW n \in Nat, n >= asked, NEW t \in TaskOf(n),
             strand' = Append(strand, t), t.op = "send" => t.arg = asked + 1
      PROVE  Tidy'
  <2>1. /\ DOMAIN strand = 1..Len(strand) /\ Len(strand) \in Nat
        /\ DOMAIN strand' = 1..(Len(strand) + 1) /\ strand'[Len(strand) + 1] = t
        /\ \A i \in DOMAIN strand : strand'[i] = strand[i]
        /\ \A i \in DOMAIN strand' : i \in DOMAIN strand \/ i = Len(strand) + 1
    BY <1>4, PostHas
  <2>2. \A i \in DOMAIN strand : strand[i].op = "send" => strand[i].arg < asked + 1
    <3>1. \A i \in DOMAIN strand : strand[i] \in TaskOf(asked)
      BY <2>1, ElementOfSeq DEF CoreType
    <3>2. asked \in Nat /\ \A m \in 1..asked : m < asked + 1
      BY DEF CoreType
    <3>3. \A i \in DOMAIN strand : strand[i].op = "send" => strand[i].arg \in 1..asked
      BY <3>1, <3>2, TaskFacts
    <3> QED
      BY <3>2, <3>3
  <2>3. running.op = "send" => running.arg < asked + 1
    BY TaskFacts DEF CoreType, NoTask, Task
  <2>4. running'.op = "send" =>
          \A j \in DOMAIN strand' : strand'[j].op = "send" => running'.arg < strand'[j].arg
    BY <1>4, <2>1, <2>3 DEF Tidy
  <2>5. ASSUME NEW i \in DOMAIN strand', NEW j \in DOMAIN strand', i < j,
               strand'[i].op = "send", strand'[j].op = "send"
        PROVE  strand'[i].arg < strand'[j].arg
    <3>1. i \in DOMAIN strand
      BY <2>1, <2>5
    <3>2. CASE j \in DOMAIN strand
      BY <2>1, <2>5, <3>1, <3>2 DEF Tidy
    <3>3. CASE j = Len(strand) + 1
      BY <1>4, <2>1, <2>2, <2>5, <3>1, <3>3
    <3> QED
      BY <2>1, <3>2, <3>3
  <2> QED
    BY <2>4, <2>5 DEF Tidy
<1>5. CASE Begins \/ Ends \/ Enters \/ Leaves \/ Closes
  BY <1>1, <1>2, <1>5 DEF Ends, Enters, Leaves, Closes
<1>6. CASE Asks
  <2>1. /\ Task("send", asked + 1) \in TaskOf(asked + 1) /\ asked + 1 \in Nat /\ asked + 1 >= asked
        /\ Task("send", asked + 1).arg = asked + 1
    BY TaskFacts DEF CoreType
  <2>2. running' = running /\ strand' = Append(strand, Task("send", asked + 1))
    BY <1>6 DEF Asks, Post
  <2> QED
    BY <1>4, <2>1, <2>2
<1>7. ASSUME running' = running, NEW o \in {"next", "close"}, Post(o, 0) PROVE Tidy'
  <2>1. Task(o, 0) \in TaskOf(asked) /\ asked \in Nat /\ asked >= asked /\ Task(o, 0).op # "send"
    BY TaskFacts DEF CoreType
  <2> QED
    BY <1>4, <1>7, <2>1 DEF Post
<1>8. CASE Alerts
  BY <1>7, <1>8 DEF Alerts
<1>9. ASSUME NEW i \in DOMAIN writes, Completes(i) \/ Breaks(i) \/ Reported(i) PROVE Tidy'
  <2>1. CASE Completes(i) \/ Breaks(i)
    BY <1>3, <2>1 DEF Completes, Breaks
  <2>2. CASE Reported(i)
    <3>1. writes[i].st \in {"done", "failed", "aborted"}
      <4>1. writes[i] \in WriteOf(asked)
        BY ElementOfSeq, LenProperties DEF CoreType
      <4> QED
        BY <2>2, <4>1 DEF Reported, WriteOf
    <3>2. running' = running /\ (Post("next", 0) \/ Post("close", 0) \/ strand' = strand)
      BY <2>2, <3>1 DEF Reported
    <3> QED
      BY <1>3, <1>7, <3>2
  <2> QED
    BY <1>9, <2>1, <2>2
<1> QED
  BY <1>5, <1>6, <1>8, <1>9 DEF OnWrites

-----------------------------------------------------------------------------
(* The numbers of the responses, from the network back to the strand.      *)

LEMMA QueueFacts ==
  ASSUME CoreType
  PROVE  /\ Len(queue) \in Nat /\ DOMAIN queue = 1..Len(queue) /\ asked \in Nat
         /\ queue # <<>> => Len(queue) >= 1 /\ queue[1] \in 1..asked /\ Head(queue) = queue[1]
                              /\ queue[Len(queue)] \in 1..asked
         /\ queue = <<>> => Len(queue) = 0
         /\ Len(sent) \in Nat /\ DOMAIN sent = 1..Len(sent)
         /\ Last \in Nat
<1>1. /\ queue \in Seq(1..asked) /\ sent \in Seq(1..asked) /\ asked \in Nat
      /\ Len(queue) \in Nat /\ DOMAIN queue = 1..Len(queue)
      /\ Len(sent) \in Nat /\ DOMAIN sent = 1..Len(sent)
  BY LenProperties DEF CoreType
<1>2. queue # <<>> => Len(queue) >= 1 /\ queue[1] \in 1..asked /\ Head(queue) = queue[1]
  BY <1>1, Dropped
<1>3. queue # <<>> => queue[Len(queue)] \in 1..asked
  BY <1>1, <1>2, ElementOfSeq
<1>4. queue = <<>> => Len(queue) = 0
  BY EmptySeq
<1> QED
  BY <1>1, <1>2, <1>3, <1>4 DEF Last

LEMMA LastAsked ==
  ASSUME CoreType, Chain, Len(sent) <= asked PROVE Last <= asked
<1>1. CASE queue = <<>>
  BY <1>1 DEF Last
<1>2. CASE queue # <<>>
  <2>1. Len(queue) \in DOMAIN queue
    BY <1>2, QueueFacts
  <2>2. queue[Len(queue)] = queue[1] + Len(queue) - 1
    BY <2>1 DEF Chain
  <2> QED
    BY <1>2, <2>2, QueueFacts DEF Last
<1> QED
  BY <1>1, <1>2

\* The task of send that runs has the next response.
LEMMA FirstSend ==
  ASSUME CoreType, Tidy, Chain, running.op = "send"
  PROVE  running.arg = Last + 1
<1>1. running.arg \in 1..asked /\ running.arg > Last /\ Last \in Nat /\ asked \in Nat
  BY TaskFacts, QueueFacts DEF CoreType, NoTask, Task, Chain
<1>2. Last + 1 \in (Last + 1)..asked
  BY <1>1
<1>3. Due(Task("send", Last + 1))
  BY <1>2 DEF Chain
<1>4. Task("send", Last + 1).op = "send" /\ Task("send", Last + 1).arg = Last + 1
  BY DEF Task
<1>5. ASSUME NEW i \in DOMAIN strand, strand[i] = Task("send", Last + 1) PROVE FALSE
  <2>1. running.arg < Last + 1
    BY <1>4, <1>5 DEF Tidy
  <2> QED
    BY <1>1, <2>1
<1> QED
  BY <1>3, <1>4, <1>5 DEF Due

\* What keeps the chain as it is.
LEMMA ChainStays ==
  ASSUME CoreType, Chain, queue' = queue, sent' = sent, queue # <<>> => (Unsent' <=> Unsent),
         \A n : Due(Task("send", n)) => Due(Task("send", n))',
         \/ asked' = asked
         \/ asked' = asked + 1 /\ \A n : n = asked + 1 => Due(Task("send", n))',
         running'.op = "send" => running'.arg > Last,
         \A i \in DOMAIN strand' : strand'[i].op = "send" => strand'[i].arg > Last
  PROVE  Chain'
<1>1. Last' = Last
  BY DEF Last
<1>2. queue' # <<>> => queue'[1] = IF Unsent' THEN Len(sent') + 1 ELSE Len(sent')
  <2>1. queue # <<>> => queue[1] = IF Unsent THEN Len(sent) + 1 ELSE Len(sent)
    BY DEF Chain
  <2> HIDE DEF Unsent
  <2> QED
    BY <2>1, Zenon
<1>3. \A i \in DOMAIN queue' : queue'[i] = queue'[1] + i - 1
  BY DEF Chain
<1>4. ASSUME NEW n \in (Last + 1)..asked' PROVE Due(Task("send", n))'
  <2>1. Last \in Nat /\ asked \in Nat
    BY QueueFacts
  <2>2. n \in (Last + 1)..asked \/ (n = asked + 1 /\ asked' = asked + 1)
    BY <1>4, <2>1
  <2>3. CASE n \in (Last + 1)..asked
    BY <2>3 DEF Chain
  <2>4. CASE n = asked + 1 /\ asked' = asked + 1
    <3>1. asked' # asked
      BY <2>1, <2>4
    <3> QED
      BY <2>4, <3>1
  <2> QED
    BY <2>2, <2>3, <2>4
<1> QED
  BY <1>1, <1>2, <1>3, <1>4 DEF Chain

\* Stalled is left only by a task that drops a message or by the end of the socket.
LEMMA StalledStays ==
  ASSUME queue' = queue, writes' = writes, Has("next")' => Has("next") PROVE Stalled => Stalled'
BY DEF Stalled

LEMMA OrderKept ==
  ASSUME CoreType, Lock, Front, Tidy, Order, open \in BOOLEAN,
         Begins \/ Ends \/ Enters \/ Leaves \/ Closes \/ Asks \/ Alerts \/ OnWrites
  PROVE  Order'
<1>1. ASSUME sent' = sent, asked' = asked \/ asked' = asked + 1,
             open' /\ ~Stalled' => Chain'
      PROVE  Order'
  <2>1. Len(sent) <= asked'
    BY <1>1, QueueFacts DEF Order
  <2> QED
    BY <1>1, <2>1 DEF Order
<1>2. CASE Begins
  <2>1. /\ running = NoTask /\ running' = strand[1] /\ Len(strand) \in Nat /\ Len(strand) >= 1
        /\ DOMAIN strand = 1..Len(strand) /\ DOMAIN strand' = 1..(Len(strand) - 1)
        /\ \A i \in 1..(Len(strand) - 1) : strand'[i] = strand[i + 1]
    BY <1>2, Dropped DEF CoreType, Begins
  <2>2. /\ Has("next")' <=> Has("next")
        /\ \A n : Due(Task("send", n))' <=> Due(Task("send", n))
    BY <1>2, BeginsHas DEF Op
  <2>3. UNCHANGED <<open, queue, writes, sent, asked>>
    BY <1>2 DEF Begins
  <2>4. Stalled => Stalled'
    BY <2>2, <2>3, StalledStays
  <2>5. Unsent' <=> Unsent
    BY <2>3 DEF Unsent
  <2>6. ASSUME Chain PROVE Chain'
    <3>1. \A i \in DOMAIN strand' : i + 1 \in DOMAIN strand /\ strand'[i] = strand[i + 1]
      BY <2>1
    <3>2. 1 \in DOMAIN strand
      BY <2>1
    <3>3. /\ running'.op = "send" => running'.arg > Last
          /\ \A i \in DOMAIN strand' : strand'[i].op = "send" => strand'[i].arg > Last
      BY <2>1, <2>6, <3>1, <3>2 DEF Chain
    <3> HIDE DEF Unsent
    <3> QED
      BY <2>2, <2>3, <2>5, <2>6, <3>3, ChainStays
  <2>7. open /\ ~Stalled => Chain
    BY DEF Order
  <2> HIDE DEF Stalled, Chain
  <2> QED
    BY <1>1, <2>3, <2>4, <2>6, <2>7
<1>3. CASE Ends
  <2>1. /\ UNCHANGED <<open, strand, queue, writes, sent, asked>> /\ running' = NoTask
        /\ open => running.op \in {"read", "next"}
    BY <1>3 DEF Ends
  <2>2. Stalled => Stalled'
    <3>1. Has("next")' => Has("next")
      BY <2>1, EndHas DEF Op
    <3> QED
      BY <2>1, <3>1, StalledStays
  <2>3. ASSUME Chain, open PROVE Chain'
    <3>1. \A n : running # Task("send", n)
      BY <2>1, <2>3 DEF Task
    <3>2. \A n : Due(Task("send", n)) => Due(Task("send", n))'
      BY <2>1, <3>1, EndHas
    <3>3. Unsent' <=> Unsent
      BY <2>1 DEF Unsent
    <3>4. /\ running'.op # "send"
          /\ \A i \in DOMAIN strand' : strand'[i].op = "send" => strand'[i].arg > Last
      BY <2>1, <2>3 DEF Chain, NoTask, Task
    <3> QED
      BY <2>1, <2>3, <3>2, <3>3, <3>4, ChainStays
  <2>4. open /\ ~Stalled => Chain
    BY DEF Order
  <2> QED
    BY <1>1, <2>1, <2>2, <2>3, <2>4
<1>4. CASE Closes
  BY <1>1, <1>4 DEF Closes
<1>5. ASSUME running' = running, UNCHANGED <<open, queue, writes, sent>>,
             NEW t, t.op # "next", t.op = "send" => t.arg > asked,
             NEW n \in Nat, n >= asked, t \in TaskOf(n), strand' = Append(strand, t),
             \/ asked' = asked
             \/ asked' = asked + 1 /\ t = Task("send", asked + 1)
      PROVE  Order'
  <2>1. /\ DOMAIN strand' = 1..(Len(strand) + 1) /\ strand'[Len(strand) + 1] = t
        /\ \A i \in DOMAIN strand : strand'[i] = strand[i]
        /\ \A i \in DOMAIN strand' : i \in DOMAIN strand \/ i = Len(strand) + 1
        /\ \A o : Has(o)' <=> Has(o) \/ t.op = o
        /\ \A u : Due(u) => Due(u)'
        /\ Due(t)'
    BY <1>5, PostHas
  <2>2. Stalled => Stalled'
    BY <1>5, <2>1, StalledStays
  <2>3. ASSUME Chain PROVE Chain'
    <3>1. Last <= asked /\ Last \in Nat /\ asked \in Nat
      BY <2>3, LastAsked, QueueFacts DEF Order
    <3>2. t.op = "send" => t.arg > Last
      <4>1. t.op = "send" => t.arg \in 1..n
        BY <1>5, TaskFacts
      <4> QED
        BY <1>5, <3>1, <4>1
    <3>3. \A i \in DOMAIN strand' : strand'[i].op = "send" => strand'[i].arg > Last
      BY <2>1, <2>3, <3>2 DEF Chain
    <3>4. running'.op = "send" => running'.arg > Last
      BY <1>5, <2>3 DEF Chain
    <3>5. Unsent' <=> Unsent
      BY <1>5 DEF Unsent
    <3>6. \/ asked' = asked
          \/ asked' = asked + 1 /\ \A m : m = asked + 1 => Due(Task("send", m))'
      <4>1. ASSUME NEW m, t = Task("send", m) PROVE Due(Task("send", m))'
        BY <2>1, <4>1
      <4> QED
        BY <1>5, <4>1
    <3> QED
      BY <1>5, <2>1, <2>3, <3>3, <3>4, <3>5, <3>6, ChainStays
  <2>4. open /\ ~Stalled => Chain
    BY DEF Order
  <2> QED
    BY <1>1, <1>5, <2>2, <2>3, <2>4
<1>6. CASE Asks
  <2>1. /\ Task("send", asked + 1) \in TaskOf(asked + 1) /\ asked + 1 \in Nat /\ asked + 1 >= asked
        /\ Task("send", asked + 1).op = "send" /\ Task("send", asked + 1).arg = asked + 1
        /\ asked + 1 > asked
    BY TaskFacts DEF CoreType
  <2>2. /\ asked' = asked + 1 /\ strand' = Append(strand, Task("send", asked + 1))
        /\ UNCHANGED <<open, running, queue, writes, sent>>
    BY <1>6 DEF Asks, Post
  <2> QED
    BY <1>5, <2>1, <2>2
<1>7. CASE Alerts
  <2>1. Task("close", 0) \in TaskOf(asked) /\ asked \in Nat /\ asked >= asked
          /\ Task("close", 0).op = "close"
    BY TaskFacts DEF CoreType
  <2>2. strand' = Append(strand, Task("close", 0))
          /\ UNCHANGED <<open, running, queue, writes, sent, asked>>
    BY <1>7 DEF Alerts, Post
  <2> QED
    BY <1>5, <2>1, <2>2
<1>8. CASE Enters
  <2>1. /\ running.op = "send" /\ running' = NoTask /\ open
        /\ queue' = Append(queue, running.arg)
        /\ IF queue = <<>> THEN StartWrite(running.arg) ELSE UNCHANGED writes
        /\ UNCHANGED <<open, strand, sent, asked>>
    BY <1>8 DEF Enters
  <2>2. /\ running.arg \in 1..asked /\ queue' # <<>> /\ Len(queue') = Len(queue) + 1
        /\ Len(queue) \in Nat /\ DOMAIN queue = 1..Len(queue)
        /\ DOMAIN queue' = 1..(Len(queue) + 1)
        /\ queue'[Len(queue) + 1] = running.arg /\ \A i \in DOMAIN queue : queue'[i] = queue[i]
    BY <1>8, Entered
  <2>3. Stalled => Stalled'
    <3>1. ~Has("next") => ~Has("next")'
      BY <2>1, EndHas DEF Op
    <3> QED
      BY <2>1, <2>2, <3>1 DEF Stalled
  <2>4. ASSUME Chain PROVE Chain'
    <3>1. running.arg = Last + 1 /\ Last \in Nat /\ asked \in Nat
      BY <2>1, <2>4, FirstSend, QueueFacts
    <3>2. Last' = running.arg
      <4>1. CASE queue = <<>>
        <5>1. Len(queue) = 0
          BY <4>1, QueueFacts
        <5> QED
          BY <2>2, <3>1, <5>1 DEF Last
      <4>2. CASE queue # <<>>
        <5>1. Len(queue) >= 1 /\ queue[1] \in 1..asked /\ queue'[1] = queue[1]
          BY <2>2, <4>2, QueueFacts
        <5> QED
          BY <2>2, <3>1, <4>2, <5>1 DEF Last
      <4> QED
        BY <4>1, <4>2
    <3>3. queue'[1] = IF Unsent' THEN Len(sent') + 1 ELSE Len(sent')
      <4>1. CASE queue = <<>>
        <5>1. writes = <<>> /\ StartWrite(running.arg) /\ asked \in Nat
          BY <2>1, <4>1 DEF Front, CoreType
        <5>2. DOMAIN writes' = {1} /\ writes'[1].st = "pending"
          BY <2>2, <5>1, Started
        <5>3. Unsent'
          BY <5>2 DEF Unsent
        <5>4. queue'[1] = running.arg /\ running.arg = Len(sent) + 1 /\ Len(sent') = Len(sent)
          BY <2>1, <2>2, <3>1, <4>1, QueueFacts DEF Last
        <5> HIDE DEF Unsent
        <5> QED
          BY <5>3, <5>4
      <4>2. CASE queue # <<>>
        <5>1. queue'[1] = queue[1] /\ Len(sent') = Len(sent)
          BY <2>1, <2>2, <4>2, QueueFacts
        <5>2. Unsent' <=> Unsent
          BY <2>1, <4>2 DEF Unsent
        <5>3. queue[1] = IF Unsent THEN Len(sent) + 1 ELSE Len(sent)
          BY <2>4, <4>2 DEF Chain
        <5> HIDE DEF Unsent
        <5> QED
          BY <5>1, <5>2, <5>3, Zenon
      <4> QED
        BY <4>1, <4>2
    <3>4. \A i \in DOMAIN queue' : queue'[i] = queue'[1] + i - 1
      <4>1. CASE queue = <<>>
        <5>1. DOMAIN queue' = {1} /\ queue'[1] \in Nat
          BY <2>2, <3>1, <4>1, QueueFacts
        <5> QED
          BY <5>1
      <4>2. CASE queue # <<>>
        <5>1. /\ queue'[1] = queue[1] /\ queue[1] \in Nat /\ Len(queue) >= 1
              /\ queue'[Len(queue) + 1] = queue[1] + Len(queue)
          BY <2>2, <3>1, <4>2, QueueFacts DEF Last
        <5>2. \A i \in 1..Len(queue) : queue'[i] = queue[1] + i - 1
          BY <2>2, <2>4 DEF Chain
        <5>3. queue[1] + Len(queue) = queue[1] + (Len(queue) + 1) - 1
          BY <2>2, <5>1
        <5>4. \A i \in 1..(Len(queue) + 1) : i \in 1..Len(queue) \/ i = Len(queue) + 1
          BY <2>2
        <5> QED
          BY <2>2, <5>1, <5>2, <5>3, <5>4
      <4> QED
        BY <4>1, <4>2
    <3>5. ASSUME NEW n \in (Last' + 1)..asked' PROVE Due(Task("send", n))'
      <4>1. n \in (Last + 1)..asked /\ n # running.arg
        BY <2>1, <3>1, <3>2, <3>5
      <4>2. Due(Task("send", n)) /\ running # Task("send", n)
        BY <2>4, <4>1 DEF Chain, Task
      <4> QED
        BY <2>1, <4>2, EndHas
    <3>6. /\ running'.op # "send"
          /\ \A i \in DOMAIN strand' : strand'[i].op = "send" => strand'[i].arg > Last'
      <4>1. NoTask.op = "none"
        BY DEF NoTask, Task
      <4>2. \A i \in DOMAIN strand : strand[i] \in TaskOf(asked)
        BY ElementOfSeq, LenProperties DEF CoreType
      <4>3. \A i \in DOMAIN strand : strand[i].op = "send" => strand[i].arg \in 1..asked
        BY <3>1, <4>2, TaskFacts
      <4>4. \A i \in DOMAIN strand : strand[i].op = "send" => running.arg < strand[i].arg
        BY <2>1 DEF Tidy
      <4> QED
        BY <2>1, <3>1, <3>2, <4>1, <4>3, <4>4
    <3> QED
      BY <3>3, <3>4, <3>5, <3>6 DEF Chain
  <2>5. open /\ ~Stalled => Chain
    BY DEF Order
  <2> QED
    BY <1>1, <2>1, <2>3, <2>4, <2>5
<1>9. CASE Leaves
  <2>1. /\ running.op = "next" /\ running' = NoTask /\ queue # <<>>
        /\ IF Len(queue) > 1 THEN StartWrite(queue[2]) ELSE UNCHANGED writes
        /\ UNCHANGED <<open, strand, sent, asked>>
    BY <1>9 DEF Leaves
  <2>2. /\ Len(queue) \in Nat /\ Len(queue) >= 1 /\ DOMAIN queue = 1..Len(queue)
        /\ DOMAIN queue' = 1..(Len(queue) - 1) /\ Len(queue') = Len(queue) - 1
        /\ \A i \in 1..(Len(queue) - 1) : queue'[i] = queue[i + 1]
        /\ Len(queue) > 1 => queue' # <<>> /\ queue[2] \in 1..asked /\ queue'[1] = queue[2]
        /\ ~(Len(queue) > 1) => queue' = <<>>
    BY <1>9, Left
  <2>3. writes = <<>> /\ open /\ Chain
    <3>1. Has("next")
      BY <2>1 DEF Has
    <3> QED
      BY <2>1, <3>1 DEF Lock, Front, Order, Stalled
  <2>4. queue[1] = Len(sent) /\ Len(sent) \in Nat /\ queue[1] \in 1..asked /\ asked \in Nat
    <3>1. DOMAIN writes = {}
      BY <2>3
    <3>2. ~Unsent
      BY <3>1 DEF Unsent
    <3>3. queue[1] = IF Unsent THEN Len(sent) + 1 ELSE Len(sent)
      BY <2>1, <2>3 DEF Chain
    <3> HIDE DEF Unsent
    <3> QED
      BY <2>1, <3>2, <3>3, QueueFacts
  <2>5. \A i \in 1..Len(queue) : queue[i] = queue[1] + i - 1
    BY <2>2, <2>3 DEF Chain
  <2>6. Last' = Last /\ Last \in Nat
    <3>1. Last = queue[1] + Len(queue) - 1 /\ Last \in Nat
      BY <2>1, QueueFacts DEF Last
    <3>2. CASE Len(queue) > 1
      <4>1. queue[2] = queue[1] + 1
        BY <2>2, <2>4, <2>5, <3>2
      <4> QED
        BY <2>2, <2>4, <3>1, <3>2, <4>1 DEF Last
    <3>3. CASE ~(Len(queue) > 1)
      BY <2>1, <2>2, <2>4, <3>1, <3>3 DEF Last
    <3> QED
      BY <3>2, <3>3
  <2>7. queue' # <<>> => queue'[1] = IF Unsent' THEN Len(sent') + 1 ELSE Len(sent')
    <3>1. ASSUME queue' # <<>> PROVE Unsent' /\ queue'[1] = Len(sent') + 1
      <4>1. Len(queue) > 1
        BY <2>2, <3>1
      <4>2. DOMAIN writes' = {1} /\ writes'[1].st = "pending"
        BY <2>1, <2>2, <2>3, <2>4, <4>1, Started
      <4>3. Unsent'
        BY <4>2 DEF Unsent
      <4>4. queue'[1] = Len(sent') + 1
        BY <2>1, <2>2, <2>4, <2>5, <4>1
      <4> QED
        BY <4>3, <4>4
    <3> HIDE DEF Unsent
    <3> QED
      BY <3>1
  <2>8. \A i \in DOMAIN queue' : queue'[i] = queue'[1] + i - 1
    <3>1. ASSUME NEW i \in DOMAIN queue' PROVE queue'[i] = queue'[1] + i - 1
      <4>1. i \in 1..(Len(queue) - 1) /\ i + 1 \in 1..Len(queue) /\ 2 \in 1..Len(queue)
              /\ Len(queue) > 1
        BY <2>2, <3>1
      <4>2. queue'[i] = queue[1] + (i + 1) - 1 /\ queue'[1] = queue[1] + 2 - 1
        BY <2>2, <2>5, <4>1
      <4> QED
        BY <2>4, <4>1, <4>2
    <3> QED
      BY <3>1
  <2>9. ASSUME NEW n \in (Last' + 1)..asked' PROVE Due(Task("send", n))'
    <3>1. Due(Task("send", n)) /\ running # Task("send", n)
      BY <2>1, <2>3, <2>6, <2>9 DEF Chain, Task
    <3> QED
      BY <2>1, <3>1, EndHas
  <2>10. /\ running'.op # "send"
         /\ \A i \in DOMAIN strand' : strand'[i].op = "send" => strand'[i].arg > Last'
    BY <2>1, <2>3, <2>6 DEF Chain, NoTask, Task
  <2>11. Chain'
    BY <2>7, <2>8, <2>9, <2>10 DEF Chain
  <2> QED
    BY <1>1, <2>1, <2>11
<1>10. ASSUME NEW i \in DOMAIN writes, Completes(i) PROVE Order'
  <2>1. /\ i = 1 /\ DOMAIN writes = {1} /\ DOMAIN writes' = {1} /\ writes # <<>>
        /\ writes[1].st = "pending" /\ writes'[1].st = "done"
    <3>1. writes' = [writes EXCEPT ![i].st = "done"] /\ writes[i].st = "pending"
      BY <1>10 DEF Completes
    <3>2. /\ i = 1 /\ DOMAIN writes = {1} /\ DOMAIN writes' = {1} /\ writes # <<>>
          /\ writes'[1].st = "done"
      BY <3>1, WritesMove
    <3> QED
      BY <3>1, <3>2
  <2>2. /\ sent' = Append(sent, writes[1].msg)
        /\ UNCHANGED <<open, strand, running, queue, asked>>
    BY <1>10, <2>1 DEF Completes
  <2>3. open /\ queue # <<>> /\ writes[1].msg = queue[1] /\ Chain
    <3>1. open /\ queue # <<>> /\ writes[1].msg = Head(queue)
      BY <2>1 DEF Front
    <3> QED
      BY <2>1, <3>1, QueueFacts DEF Order, Stalled
  <2>4. queue[1] = Len(sent) + 1 /\ queue[1] \in 1..asked /\ Len(sent) \in Nat /\ asked \in Nat
    <3>1. Unsent
      BY <2>1 DEF Unsent
    <3>2. queue[1] = IF Unsent THEN Len(sent) + 1 ELSE Len(sent)
      BY <2>3 DEF Chain
    <3> HIDE DEF Unsent
    <3> QED
      BY <2>3, <3>1, <3>2, QueueFacts
  <2>5. /\ Len(sent') = Len(sent) + 1 /\ DOMAIN sent' = 1..(Len(sent) + 1)
        /\ DOMAIN sent = 1..Len(sent)
        /\ sent'[Len(sent) + 1] = queue[1] /\ \A j \in DOMAIN sent : sent'[j] = sent[j]
    BY <2>2, <2>3, <2>4, Appended DEF CoreType
  <2>6. \A j \in DOMAIN sent' : sent'[j] = j
    <3>1. \A j \in DOMAIN sent' : j \in DOMAIN sent \/ j = Len(sent) + 1
      BY <2>4, <2>5
    <3> QED
      BY <2>4, <2>5, <3>1 DEF Order
  <2>7. Len(sent') <= asked'
    BY <2>2, <2>4, <2>5
  <2>8. ~Unsent'
    BY <2>1 DEF Unsent
  <2>9. Last' = Last
    BY <2>2, <2>3 DEF Last
  <2>10. Chain'
    <3>1. queue'[1] = Len(sent')
      BY <2>2, <2>4, <2>5
    <3>2. queue' # <<>> => queue'[1] = IF Unsent' THEN Len(sent') + 1 ELSE Len(sent')
      <4> HIDE DEF Unsent
      <4> QED
        BY <2>8, <3>1
    <3>3. \A n \in (Last' + 1)..asked' : Due(Task("send", n))'
      BY <2>2, <2>3, <2>9 DEF Chain, Due
    <3> QED
      BY <2>2, <2>3, <2>9, <3>2, <3>3 DEF Chain
  <2> QED
    BY <2>6, <2>7, <2>10 DEF Order
<1>11. ASSUME NEW i \in DOMAIN writes, Breaks(i) PROVE Order'
  <2>1. /\ i = 1 /\ DOMAIN writes = {1} /\ DOMAIN writes' = {1} /\ writes # <<>>
        /\ writes[1].st = "pending" /\ writes'[1].st = "failed"
    <3>1. writes' = [writes EXCEPT ![i].st = "failed"] /\ writes[i].st = "pending"
      BY <1>11 DEF Breaks
    <3>2. /\ i = 1 /\ DOMAIN writes = {1} /\ DOMAIN writes' = {1} /\ writes # <<>>
          /\ writes'[1].st = "failed"
      BY <3>1, WritesMove
    <3> QED
      BY <3>1, <3>2
  <2>2. UNCHANGED <<open, strand, running, queue, sent, asked>>
    BY <1>11 DEF Breaks
  <2>3. open => Chain
    BY <2>1 DEF Order, Stalled
  <2>4. Unsent' <=> Unsent
    BY <2>1 DEF Unsent
  <2>5. ASSUME Chain PROVE Chain'
    <3>1. \A n : Due(Task("send", n)) => Due(Task("send", n))'
      BY <2>2 DEF Due
    <3>2. /\ running'.op = "send" => running'.arg > Last
          /\ \A j \in DOMAIN strand' : strand'[j].op = "send" => strand'[j].arg > Last
      BY <2>2, <2>5 DEF Chain
    <3> QED
      BY <2>2, <2>4, <2>5, <3>1, <3>2, ChainStays
  <2> QED
    BY <1>1, <2>2, <2>3, <2>5
<1>12. ASSUME NEW i \in DOMAIN writes, Reported(i) PROVE Order'
  <2>1. /\ i = 1 /\ writes # <<>> /\ DOMAIN writes = {1} /\ writes' = <<>>
        /\ \/ writes[1].st = "done" /\ Post("next", 0)
           \/ writes[1].st = "failed" /\ Post("close", 0)
           \/ writes[1].st = "aborted" /\ strand' = strand
    BY <1>12, WriteReported
  <2>2. UNCHANGED <<open, running, queue, sent, asked>>
    BY <1>12 DEF Reported
  <2>3. \A o \in {"next", "close"} : Task(o, 0) \in TaskOf(asked) /\ Task(o, 0).op = o
    BY TaskFacts DEF CoreType
  <2>4. CASE writes[1].st = "done" /\ Post("next", 0)
    <3>1. /\ DOMAIN strand' = 1..(Len(strand) + 1) /\ strand'[Len(strand) + 1] = Task("next", 0)
          /\ \A j \in DOMAIN strand : strand'[j] = strand[j]
          /\ \A j \in DOMAIN strand' : j \in DOMAIN strand \/ j = Len(strand) + 1
          /\ \A u : Due(u) => Due(u)'
      <4>1. asked \in Nat /\ asked >= asked /\ strand' = Append(strand, Task("next", 0))
        BY <2>4 DEF CoreType, Post
      <4> QED
        BY <2>2, <2>3, <4>1, PostHas
    <3>2. open => Chain
      BY <2>1 DEF Order, Stalled
    <3>3. ASSUME Chain PROVE Chain'
      <4>1. DOMAIN writes' = {}
        BY <2>1
      <4>2. ~Unsent /\ ~Unsent'
        BY <2>1, <2>4, <4>1 DEF Unsent
      <4>3. /\ running'.op = "send" => running'.arg > Last
            /\ \A j \in DOMAIN strand' : strand'[j].op = "send" => strand'[j].arg > Last
        BY <2>2, <2>3, <3>1, <3>3 DEF Chain
      <4> QED
        BY <2>2, <3>1, <3>3, <4>2, <4>3, ChainStays
    <3> QED
      BY <1>1, <2>2, <3>2, <3>3
  <2>5. CASE writes[1].st = "failed" /\ Post("close", 0)
    <3>1. ~Has("next")'
      <4>1. asked \in Nat /\ asked >= asked /\ strand' = Append(strand, Task("close", 0))
        BY <2>5 DEF CoreType, Post
      <4>2. \A o : Has(o)' <=> Has(o) \/ Task("close", 0).op = o
        BY <2>2, <2>3, <4>1, PostHas
      <4> QED
        BY <2>1, <2>3, <4>2 DEF Lock
    <3>2. open => queue # <<>>
      BY <2>1 DEF Front
    <3> QED
      BY <1>1, <2>1, <2>2, <3>1, <3>2 DEF Stalled
  <2>6. CASE writes[1].st = "aborted"
    <3>1. ~open
      BY <2>1, <2>6 DEF Front
    <3> QED
      BY <1>1, <2>2, <3>1
  <2> QED
    BY <2>1, <2>4, <2>5, <2>6
<1> QED
  BY <1>2, <1>3, <1>4, <1>6, <1>7, <1>8, <1>9, <1>10, <1>11, <1>12 DEF OnWrites

-----------------------------------------------------------------------------
(* The invariant, and what follows from it.                                *)

LEMMA InitCore == Init => Core
<1> SUFFICES ASSUME Init PROVE Core
  OBVIOUS
<1>1. /\ open = TRUE /\ strand = <<Task("read", 0)>> /\ running = NoTask
      /\ queue = <<>> /\ writes = <<>> /\ sent = <<>> /\ asked = 0
  BY DEF Init
<1>2. DOMAIN writes = {} /\ DOMAIN queue = {} /\ DOMAIN sent = {} /\ Len(sent) = 0
  BY <1>1
<1>3. /\ Task("read", 0) \in TaskOf(0) /\ Task("read", 0).op = "read"
      /\ NoTask.op = "none"
  BY TaskFacts DEF NoTask, Task
<1>4. strand \in Seq(TaskOf(0)) /\ DOMAIN strand = {1} /\ strand[1] = Task("read", 0)
  BY <1>1, <1>3
<1>5. CoreType
  BY <1>1, <1>4, EmptySeq DEF CoreType
<1>6. ~Has("next")
  BY <1>1, <1>3, <1>4 DEF Has
<1>7. Lock
  BY <1>1, <1>2, <1>3, <1>4, EmptySeq DEF Lock
<1>8. Front
  BY <1>1, <1>2, <1>6 DEF Front
<1>9. Tidy
  BY <1>1, <1>3, <1>4 DEF Tidy
<1>10. Chain
  <2>1. Last = 0
    BY <1>1, <1>2 DEF Last
  <2>2. \A n \in (Last + 1)..asked : Due(Task("send", n))
    BY <1>1, <2>1
  <2>3. /\ running.op # "send" /\ \A i \in DOMAIN strand : strand[i].op # "send"
    BY <1>1, <1>3, <1>4
  <2> QED
    BY <1>1, <1>2, <2>2, <2>3 DEF Chain
<1>11. Order
  BY <1>1, <1>2, <1>10 DEF Order
<1> QED
  BY <1>1, <1>5, <1>7, <1>8, <1>9, <1>11 DEF Core

LEMMA StepCore == Core /\ [Next]_vars => Core'
<1> SUFFICES ASSUME Core, [Next]_vars PROVE Core'
  OBVIOUS
<1>1. open \in BOOLEAN /\ CoreType /\ Lock /\ Front /\ Tidy /\ Order
  BY DEF Core
<1>2. UNCHANGED coreVars \/ Begins \/ Ends \/ Enters \/ Leaves \/ Closes \/ Asks \/ Alerts \/ OnWrites
  BY <1>1, StrandSteps, OtherSteps
<1>3. CASE UNCHANGED coreVars
  BY <1>1, <1>3 DEF coreVars, Core, CoreType, Lock, Front, Tidy, Order, Stalled, Unsent, Chain,
     Last, Due, Has
<1>4. CASE Begins \/ Ends \/ Enters \/ Leaves \/ Closes \/ Asks \/ Alerts \/ OnWrites
  <2>1. open' = open \/ open' = FALSE
    BY <1>4 DEF Begins, Ends, Enters, Leaves, Closes, Asks, Alerts, OnWrites, Completes, Breaks,
       Reported
  <2>2. open' \in BOOLEAN
    BY <1>1, <2>1
  <2>3. CoreType' /\ Lock' /\ Front' /\ Tidy' /\ Order'
    BY <1>1, <1>4, CoreTypeKept, LockKept, FrontKept, TidyKept, OrderKept
  <2> QED
    BY <2>2, <2>3 DEF Core
<1> QED
  BY <1>2, <1>3, <1>4

LEMMA CoreInvariant == Spec => []Core
BY InitCore, StepCore, PTL DEF Spec

\* At most one write is under way, and what it writes is the front of send_queue_.
THEOREM OneWriter == Spec => []SingleWriter
<1>1. Core => SingleWriter
  BY OneWrite DEF Core, Lock, Front, SingleWriter
<1> QED
  BY CoreInvariant, <1>1, PTL

\* While the socket is open and no close is due, something moves the queue.
THEOREM NoStall == Spec => []QueueMoves
<1>1. ASSUME Core PROVE QueueMoves
  <2>1. (HasTask("close") <=> Has("close")) /\ (HasTask("next") <=> Has("next"))
    BY <1>1, TasksAre DEF Core
  <2> QED
    BY <1>1, <2>1 DEF Core, Front, QueueMoves
<1> QED
  BY CoreInvariant, <1>1, PTL

\* The peer is sent the responses in order, each once, without a gap.
THEOREM SentInOrder == Spec => []InOrder
<1>1. ASSUME Core PROVE InOrder
  <2>1. sent = [i \in 1..Len(sent) |-> sent[i]]
    BY <1>1, LenProperties DEF Core, CoreType
  <2>2. \A i \in 1..Len(sent) : sent[i] = i
    BY <1>1, QueueFacts DEF Core, Order
  <2>3. sent = [i \in 1..Len(sent) |-> i]
    BY <2>1, <2>2
  <2> QED
    BY <1>1, <2>3 DEF Core, Order, InOrder, Numbers
<1> QED
  BY CoreInvariant, <1>1, PTL

\* While the socket is open and no close is due, every response that was asked for
\* and is not yet sent waits in the queue or in a task of send.
THEOREM NothingIsDropped == Spec => []NothingDropped
<1>1. ASSUME Core PROVE NothingDropped
  <2>1. CoreType /\ Front /\ Order
    BY <1>1 DEF Core
  <2> SUFFICES ASSUME open, ~HasTask("close"), NEW n \in (Len(sent) + 1)..asked PROVE Waits(n)
    BY DEF NothingDropped
  <2>2. ~Has("close")
    BY <2>1, TasksAre
  <2>3. Chain
    BY <2>1, <2>2 DEF Front, Order, Stalled
  <2>4. Last \in Nat /\ Len(sent) \in Nat /\ asked \in Nat /\ n \in Nat /\ n > Len(sent) /\ n <= asked
    BY <2>1, QueueFacts
  <2>5. CASE n > Last
    <3>1. Due(Task("send", n))
      BY <2>3, <2>4, <2>5 DEF Chain
    <3>2. Task("send", n) \in TaskOf(asked)
      BY <2>4, TaskFacts
    <3> QED
      BY <2>1, <3>1, <3>2, TasksAre DEF Waits
  <2>6. CASE ~(n > Last)
    <3>1. queue # <<>>
      BY <2>4, <2>6 DEF Last
    <3>2. /\ queue[1] \in Nat /\ Len(queue) \in Nat /\ DOMAIN queue = 1..Len(queue)
          /\ n <= queue[1] + Len(queue) - 1
      BY <2>1, <2>4, <2>6, <3>1, QueueFacts DEF Last
    <3>3. queue[1] <= Len(sent) + 1
      <4>1. queue[1] = Len(sent) + 1 \/ queue[1] = Len(sent)
        BY <2>3, <3>1 DEF Chain
      <4> QED
        BY <2>4, <4>1
    <3>4. n - queue[1] + 1 \in DOMAIN queue
      BY <2>4, <3>2, <3>3
    <3>5. queue[n - queue[1] + 1] = queue[1] + (n - queue[1] + 1) - 1
      BY <2>3, <3>4 DEF Chain
    <3>6. queue[n - queue[1] + 1] = n
      BY <2>4, <3>2, <3>5
    <3> QED
      BY <3>4, <3>6 DEF Waits
  <2> QED
    BY <2>5, <2>6
<1> QED
  BY CoreInvariant, <1>1, PTL

-----------------------------------------------------------------------------
(* The type invariant.                                                     *)

HandlerType ==
  /\ ub \in BOOLEAN
  /\ rd \in {"none", "pending", "ready", "eof", "error", "aborted"}
  /\ hpc \in {"idle", "parse", "check", "timer", "arm"} /\ batch \in Batch
  /\ timer \in {"off", "armed"} /\ fired \in BOOLEAN
  /\ reads \in 0..MaxReads

LEMMA BatchTail ==
  ASSUME NEW b \in Batch, b # <<>> PROVE Tail(b) \in Batch
<1>1. PICK n \in 0..MaxBatch : b \in [1..n -> Message]
  BY DEF Batch
<1>2. \A i \in DOMAIN b : b[i] = "bad" => i = Len(b)
  BY DEF Batch
<1>3. b \in Seq(Message) /\ DOMAIN b = 1..n
  BY <1>1, SeqDef
<1>4. Len(b) = n /\ n >= 1
  <2>1. Len(b) \in Nat /\ DOMAIN b = 1..Len(b) /\ Len(b) >= 1
    BY <1>3, Dropped
  <2> QED
    BY <1>1, <1>3, <2>1
<1> DEFINE t == Tail(b)
<1>5. /\ t \in Seq(Message) /\ Len(t) = n - 1 /\ DOMAIN t = 1..(n - 1)
      /\ \A i \in 1..(n - 1) : t[i] = b[i + 1]
  BY <1>3, <1>4, Dropped
<1> HIDE DEF t
<1>6. t \in [1..(n - 1) -> Message] /\ n - 1 \in 0..MaxBatch
  BY <1>1, <1>4, <1>5, ElementOfSeq
<1>7. ASSUME NEW i \in DOMAIN t, t[i] = "bad" PROVE i = Len(t)
  <2>1. i \in 1..(n - 1) /\ i + 1 \in 1..n
    BY <1>1, <1>4, <1>5, <1>7
  <2>2. i + 1 = n
    BY <1>2, <1>3, <1>4, <1>5, <1>7, <2>1
  <2> QED
    BY <1>1, <1>5, <2>1, <2>2
<1>8. t \in Batch
  BY <1>6, <1>7 DEF Batch
<1> QED
  BY <1>8 DEF t

LEMMA HandlerTypeKept == HandlerType /\ [Next]_vars => HandlerType'
<1> SUFFICES ASSUME HandlerType, [Next]_vars PROVE HandlerType'
  OBVIOUS
<1> USE DEF HandlerType
<1>0. <<>> \in Batch
  <2>1. <<>> \in [1..0 -> Message] /\ 0 \in 0..MaxBatch /\ DOMAIN <<>> = {}
    OBVIOUS
  <2> QED
    BY <2>1 DEF Batch
<1>1. CASE Begin \/ TaskOnClosed \/ FirstRead \/ Send
  BY <1>1 DEF Begin, TaskOnClosed, FirstRead, Send, ResetTimer, netVars, timeVars, readVars
<1>2. CASE SendNext
  <2>1. UNCHANGED <<rd, readVars, ub>> /\ (UNCHANGED timeVars \/ ResetTimer)
    BY <1>2 DEF SendNext
  <2> QED
    BY <2>1 DEF ResetTimer, timeVars, readVars
<1>3. CASE SendNextOnEmpty
  BY <1>3 DEF SendNextOnEmpty, netVars, timeVars, readVars
<1>4. CASE Close
  <2>1. UNCHANGED <<fired, readVars, ub>> /\ rd' \in {rd, "aborted"} /\ timer' \in {timer, "off"}
    BY <1>4 DEF Close
  <2> QED
    BY <2>1 DEF readVars
<1>5. CASE Parse
  <2>1. batch' \in Batch
    BY <1>5, BatchTail DEF Parse
  <2> QED
    BY <1>5, <2>1 DEF Parse, readFrame, timeVars
<1>6. CASE ReadDone \/ ParseFails \/ ParseEnds \/ Check \/ ReadTimer \/ ReadAgain
  BY <1>0, <1>6 DEF ReadDone, ParseFails, ParseEnds, Check, ReadTimer, ReadAgain, ResetTimer,
     readFrame, timeVars
<1>7. CASE ReadEnds \/ ReadFails \/ TimerHandler
  BY <1>7 DEF ReadEnds, ReadFails, TimerHandler, readFrame, readVars, netVars, timeVars
<1>8. ASSUME NEW i \in DOMAIN writes, WriteHandler(i) \/ WriteDone(i) \/ WriteFails(i)
      PROVE  HandlerType'
  <2>1. UNCHANGED <<rd, hpc, batch, timer, fired, reads, ub>>
    BY <1>8 DEF WriteHandler, WriteDone, WriteFails, envFrame, readVars, timeVars
  <2> QED
    BY <2>1
<1>9. CASE Arrive \/ PeerEnds \/ Expire
  <2>1. reads' \in 0..MaxReads
    <3>1. reads \in 0..MaxReads /\ MaxReads \in Nat
            /\ (reads' = reads \/ (reads' = reads + 1 /\ reads < MaxReads))
      BY <1>9, ConnectionAssumption DEF Arrive, PeerEnds, Expire
    <3> HIDE DEF HandlerType
    <3> QED
      BY <3>1
  <2> HIDE ConnectionAssumption
  <2>2. UNCHANGED <<hpc, ub>> /\ batch' \in Batch
    BY <1>9 DEF Arrive, PeerEnds, Expire, envFrame
  <2>3. rd' \in {"none", "pending", "ready", "eof", "error", "aborted"}
    BY <1>9 DEF Arrive, PeerEnds, Expire
  <2>4. timer' \in {"off", "armed"} /\ fired' \in BOOLEAN
    BY <1>9 DEF Arrive, PeerEnds, Expire, timeVars
  <2> QED
    BY <2>1, <2>2, <2>3, <2>4
<1>10. CASE Over \/ UNCHANGED vars
  BY <1>10 DEF Over, vars, netVars, timeVars, readVars
<1> QED
  BY <1>1, <1>2, <1>3, <1>4, <1>5, <1>6, <1>7, <1>8, <1>9, <1>10 DEF Next, StrandRun, ReadRun

\* Every variable keeps its type; a task of send and a write carry the number of a
\* response that was asked for.
THEOREM TypeCorrect == Spec => []TypeOK
<1>1. Init => HandlerType
  <2> SUFFICES ASSUME Init PROVE HandlerType
    OBVIOUS
  <2>1. <<>> \in [1..0 -> Message] /\ 0 \in 0..MaxBatch /\ DOMAIN <<>> = {}
    OBVIOUS
  <2>2. <<>> \in Batch
    BY <2>1 DEF Batch
  <2>3. reads \in 0..MaxReads
    BY DEF Init
  <2>4. rd = "none" /\ hpc = "idle" /\ batch = <<>> /\ timer = "off" /\ fired = FALSE /\ ub = FALSE
    BY DEF Init
  <2> QED
    BY <2>2, <2>3, <2>4 DEF HandlerType
<1>2. ASSUME Core, HandlerType PROVE TypeOK
  <2>1. open \in BOOLEAN /\ CoreType
    BY <1>2 DEF Core
  <2>2. \A t \in {Tasks[i] : i \in DOMAIN Tasks} :
          \/ t.op \in {"read", "next", "close"} /\ t.arg = 0
          \/ t.op = "send" /\ t.arg \in 1..asked
    <3>1. \A i \in DOMAIN Tasks : Tasks[i] \in TaskOf(asked)
      BY <2>1, TasksAre
    <3> QED
      BY <2>1, <3>1, TaskFacts DEF CoreType
  <2> QED
    BY <1>2, <2>1, <2>2 DEF CoreType, HandlerType, TypeOK, WriteOf
<1> QED
  BY CoreInvariant, HandlerTypeKept, <1>1, <1>2, PTL DEF Spec
=============================================================================
