----------------------------- MODULE SessionProofs -----------------------------
(***************************************************************************)
(* Proofs about Session for any program, any number of requests, of        *)
(* request numbers, of keys and of sets of other clients, and pipes of any *)
(* capacity.                                                               *)
(***************************************************************************)
EXTENDS Session, TLAPS, SequenceTheorems, FiniteSetTheorems

-----------------------------------------------------------------------------
(* Types: what TypeOK says, and that a get is sent with a number.          *)

Said(s) == IF s = "client" THEN {m \in Message : m.op = "get" => m.nr # 0} ELSE Response

TaskOf(s) == [op : {"read", "next", "close"}, msg : {Nothing}] \cup
             [op : {"send"}, msg : Said(s)]

EndsType ==
  /\ socket \in [Side -> {"new", "open", "closed"}]
  /\ writing \in [Side -> BOOLEAN] /\ reading \in [Side -> BOOLEAN]
  /\ DOMAIN tasks = Side /\ DOMAIN queue = Side
  /\ \A s \in Side : tasks[s] \in Seq(TaskOf(s)) /\ queue[s] \in Seq(Said(s))

PipesType ==
  /\ DOMAIN pipe = Side
  /\ \A s \in Side : pipe[s] \in Seq(Said(s)) /\ Len(pipe[s]) <= Capacity

StoreType ==
  present \subseteq Key /\ length \in [Key -> Nat] /\ tooLong \in BOOLEAN
    /\ others \in 0..MaxOthers

Types ==
  /\ program \in Program /\ broken \in BOOLEAN /\ ub \in BOOLEAN
  /\ EndsType /\ PipesType /\ StoreType /\ received \in Seq(Response)

-----------------------------------------------------------------------------
(* Sequences.                                                              *)

LEMMA Appended ==
  ASSUME NEW S, NEW s \in Seq(S), NEW x \in S, NEW t, t = Append(s, x)
  PROVE  /\ t \in Seq(S) /\ t # <<>> /\ Len(t) = Len(s) + 1
         /\ DOMAIN t = 1..(Len(s) + 1) /\ DOMAIN s = 1..Len(s) /\ Len(s) \in Nat
         /\ t[Len(s) + 1] = x /\ \A i \in DOMAIN s : t[i] = s[i]
<1>1. t \in Seq(S) /\ Len(t) = Len(s) + 1 /\ t[Len(s) + 1] = x
        /\ \A i \in 1..Len(s) : t[i] = s[i]
  BY AppendProperties
<1>2. DOMAIN s = 1..Len(s) /\ Len(s) \in Nat /\ DOMAIN t = 1..Len(t)
  BY <1>1, LenProperties
<1>3. t # <<>>
  BY <1>1, <1>2, EmptySeq
<1> QED
  BY <1>1, <1>2, <1>3

LEMMA Dropped ==
  ASSUME NEW S, NEW s \in Seq(S), s # <<>>, NEW t, t = Tail(s)
  PROVE  /\ t \in Seq(S) /\ Len(t) = Len(s) - 1 /\ Len(s) \in Nat /\ Len(s) >= 1
         /\ DOMAIN t = 1..(Len(s) - 1) /\ DOMAIN s = 1..Len(s)
         /\ \A i \in 1..(Len(s) - 1) : t[i] = s[i + 1]
         /\ Head(s) = s[1] /\ s[1] \in S
<1>1. t \in Seq(S) /\ Len(t) = Len(s) - 1 /\ Head(s) = s[1] /\ s[1] \in S
  BY HeadTailProperties, ElementOfSeq, LenProperties, EmptySeq
<1>2. Len(s) \in Nat /\ Len(s) >= 1 /\ DOMAIN s = 1..Len(s)
  BY LenProperties, EmptySeq
<1>3. DOMAIN t = 1..(Len(s) - 1) /\ \A i \in 1..(Len(s) - 1) : t[i] = s[i + 1]
  BY <1>1, <1>2, LenProperties, HeadTailProperties
<1> QED
  BY <1>1, <1>2, <1>3

-----------------------------------------------------------------------------
(* The requests of the program and their numbers.                          *)

\* The gets before the i-th request.
Before(i) == {j \in Gets(program) : j < i}

\* The i-th request as it is sent.
Sent(i) == [op |-> program[i].op, key |-> program[i].key,
            nr |-> IF program[i].op = "get" THEN Number(program, i) ELSE 0]

LEMMA ProgramType ==
  ASSUME program \in Program
  PROVE  /\ Len(program) \in Nat /\ DOMAIN program = 1..Len(program)
         /\ program \in Seq(Request)
         /\ \A i \in DOMAIN program : program[i].op \in {"get", "set"} /\ program[i].key \in Key
<1>1. PICK n \in 0..MaxRequests : program \in [1..n -> Request]
  BY DEF Program
<1>2. program \in Seq(Request)
  BY <1>1, SeqDef
<1> QED
  BY <1>1, <1>2, LenProperties DEF Request

LEMMA GetPlace ==
  ASSUME program \in Program, NEW i \in Gets(program)
  PROVE  i \in Nat /\ i >= 1 /\ i <= Len(program) /\ i \in DOMAIN program /\ program[i].op = "get"
BY ProgramType DEF Gets

LEMMA GetsFinite ==
  ASSUME program \in Program
  PROVE  /\ IsFiniteSet(Gets(program)) /\ Cardinality(Gets(program)) \in Nat
         /\ \A i \in Nat : /\ IsFiniteSet(Before(i)) /\ Cardinality(Before(i)) \in Nat
                           /\ Cardinality(Before(i)) <= Cardinality(Gets(program))
<1>1. Len(program) \in Nat /\ DOMAIN program = 1..Len(program)
  BY ProgramType
<1>2. IsFiniteSet(1..Len(program))
  BY <1>1, FS_Interval
<1>3. Gets(program) \in SUBSET (1..Len(program))
  BY <1>1 DEF Gets
<1>4. IsFiniteSet(Gets(program))
  BY <1>2, <1>3, FS_Subset
<1>5. ASSUME NEW i \in Nat
      PROVE  /\ IsFiniteSet(Before(i)) /\ Cardinality(Before(i)) \in Nat
             /\ Cardinality(Before(i)) <= Cardinality(Gets(program))
  <2>1. Before(i) \in SUBSET Gets(program)
    BY DEF Before
  <2> QED
    BY <1>4, <2>1, FS_Subset, FS_CardinalityType
<1> QED
  BY <1>4, <1>5, FS_CardinalityType

LEMMA Below ==
  ASSUME NEW G, \A j \in G : j \in Nat, NEW i \in Nat
  PROVE  /\ i \in G => {j \in G : j < i + 1} = {j \in G : j < i} \cup {i}
         /\ i \notin G => {j \in G : j < i + 1} = {j \in G : j < i}
<1>1. \A j \in G : j < i + 1 <=> j < i \/ j = i
  OBVIOUS
<1>2. ASSUME i \in G
      PROVE  {j \in G : j < i + 1} = {j \in G : j < i} \cup {i}
  BY <1>1, <1>2, Zenon
<1>3. ASSUME i \notin G
      PROVE  {j \in G : j < i + 1} = {j \in G : j < i}
  BY <1>1, <1>3, Zenon
<1> QED
  BY <1>2, <1>3

\* One get more from one request to the next, if that is a get.
LEMMA BeforeNext ==
  ASSUME program \in Program, NEW i \in Nat
  PROVE  /\ i \in Gets(program) => Cardinality(Before(i + 1)) = Cardinality(Before(i)) + 1
         /\ i \notin Gets(program) => Before(i + 1) = Before(i)
<1> DEFINE G == Gets(program)
<1>1. /\ i \in G => {j \in G : j < i + 1} = {j \in G : j < i} \cup {i}
      /\ i \notin G => {j \in G : j < i + 1} = {j \in G : j < i}
  <2>1. \A j \in G : j \in Nat
    BY GetPlace
  <2> HIDE DEF G
  <2> QED
    BY <2>1, Below, Zenon
<1>2. IsFiniteSet(Before(i)) /\ Cardinality(Before(i)) \in Nat /\ i \notin Before(i)
  BY GetsFinite DEF Before
<1> QED
  BY <1>1, <1>2, FS_AddElement DEF Before

\* Different gets have different places among the gets.
LEMMA PlaceUnique ==
  ASSUME program \in Program, NEW i \in Gets(program), NEW j \in Gets(program),
         Cardinality(Before(i)) = Cardinality(Before(j))
  PROVE  i = j
<1>1. ASSUME NEW a \in Gets(program), NEW b \in Gets(program), a < b
      PROVE  Cardinality(Before(a)) < Cardinality(Before(b))
  <2>1. a \in Nat /\ b \in Nat /\ a + 1 \in Nat
    BY GetPlace
  <2>2. Before(a + 1) \in SUBSET Before(b)
    <3> DEFINE G == Gets(program)
    <3>1. Before(a + 1) = {k \in G : k < a + 1} /\ Before(b) = {k \in G : k < b}
      BY DEF Before
    <3>2. \A k \in G : k \in Nat
      BY GetPlace
    <3> HIDE DEF G
    <3> QED
      BY <1>1, <2>1, <3>1, <3>2
  <2>3. Cardinality(Before(a + 1)) <= Cardinality(Before(b))
    BY <2>1, <2>2, GetsFinite, FS_Subset
  <2>4. Cardinality(Before(a + 1)) = Cardinality(Before(a)) + 1
    BY <2>1, BeforeNext
  <2>5. Cardinality(Before(a)) \in Nat /\ Cardinality(Before(b)) \in Nat
    BY <2>1, GetsFinite
  <2> QED
    BY <2>3, <2>4, <2>5
<1>2. i \in Nat /\ j \in Nat /\ Cardinality(Before(i)) \in Nat
  BY GetPlace, GetsFinite
<1>3. ~(i < j) /\ ~(j < i)
  BY <1>1, <1>2
<1> QED
  BY <1>2, <1>3

LEMMA NumberType ==
  ASSUME program \in Program, NEW i \in Gets(program)
  PROVE  Number(program, i) \in 1..Numbers
<1> DEFINE c == Cardinality(Before(i))
<1>1. c \in Nat /\ Numbers \in Nat \ {0}
  BY GetPlace, GetsFinite, SessionAssumption
<1>2. Number(program, i) = (c % Numbers) + 1
  BY DEF Number, Before
<1> HIDE DEF c
<1> QED
  BY <1>1, <1>2

-----------------------------------------------------------------------------
(* The tasks of a strand: which kinds there are, and which only once.      *)

HasOp(ts, o) == \E i \in DOMAIN ts : ts[i].op = o
Once(ts, o)  == \A i, j \in DOMAIN ts : ts[i].op = o /\ ts[j].op = o => i = j

LEMMA OpsAppend ==
  ASSUME NEW S, NEW ts \in Seq(S), NEW x \in S, NEW t2, t2 = Append(ts, x), NEW o
  PROVE  /\ HasOp(t2, o) <=> HasOp(ts, o) \/ x.op = o
         /\ Once(ts, o) /\ (x.op = o => ~HasOp(ts, o)) => Once(t2, o)
<1>1. /\ Len(ts) \in Nat /\ DOMAIN ts = 1..Len(ts) /\ DOMAIN t2 = 1..(Len(ts) + 1)
      /\ t2[Len(ts) + 1] = x /\ \A i \in 1..Len(ts) : t2[i] = ts[i]
  BY Appended
<1>2. \A i \in DOMAIN t2 : i \in DOMAIN ts \/ i = Len(ts) + 1
  BY <1>1
<1>3. DOMAIN ts \subseteq DOMAIN t2 /\ Len(ts) + 1 \in DOMAIN t2
  BY <1>1
<1> QED
  BY <1>1, <1>2, <1>3 DEF HasOp, Once

LEMMA OpsTail ==
  ASSUME NEW S, NEW ts \in Seq(S), ts # <<>>, NEW t2, t2 = Tail(ts), NEW o
  PROVE  /\ HasOp(ts, o) <=> Head(ts).op = o \/ HasOp(t2, o)
         /\ Once(ts, o) => Once(t2, o) /\ (Head(ts).op = o => ~HasOp(t2, o))
<1>1. /\ Len(ts) \in Nat /\ Len(ts) >= 1 /\ DOMAIN ts = 1..Len(ts) /\ Head(ts) = ts[1]
      /\ DOMAIN t2 = 1..(Len(ts) - 1) /\ \A i \in 1..(Len(ts) - 1) : t2[i] = ts[i + 1]
  BY Dropped
<1>2. \A i \in DOMAIN ts : i = 1 \/ (i - 1 \in DOMAIN t2 /\ t2[i - 1] = ts[i])
  BY <1>1
<1>3. \A i \in DOMAIN t2 : i + 1 \in DOMAIN ts /\ t2[i] = ts[i + 1] /\ i + 1 # 1
  BY <1>1
<1>4. 1 \in DOMAIN ts
  BY <1>1
<1>5. HasOp(ts, o) <=> Head(ts).op = o \/ HasOp(t2, o)
  BY <1>1, <1>2, <1>3, <1>4 DEF HasOp
<1>6. ASSUME Once(ts, o)
      PROVE  Once(t2, o) /\ (Head(ts).op = o => ~HasOp(t2, o))
  <2>1. ASSUME NEW i \in DOMAIN t2, NEW j \in DOMAIN t2, t2[i].op = o, t2[j].op = o
        PROVE  i = j
    <3>1. i + 1 = j + 1
      BY <1>3, <1>6, <2>1 DEF Once
    <3> QED
      BY <1>1, <3>1
  <2>2. ASSUME ts[1].op = o, NEW i \in DOMAIN t2, t2[i].op = o
        PROVE  FALSE
    BY <1>3, <1>4, <1>6, <2>2 DEF Once
  <2> QED
    BY <1>1, <2>1, <2>2 DEF Once, HasOp
<1> QED
  BY <1>5, <1>6

\* What holds of the strand, the queue and the operations of one end: one write and
\* one read at most, or a task that starts or ends it, and none after the socket is
\* closed; a queue that is not empty is being written.
EndOK(so, ts, q, w, r) ==
  /\ w => q # <<>> /\ ~HasOp(ts, "next")
  /\ r => ~HasOp(ts, "read")
  /\ Once(ts, "next") /\ Once(ts, "read")
  /\ HasOp(ts, "next") /\ so # "closed" => q # <<>>
  /\ so # "open" => ~w /\ ~r /\ q = <<>>
  /\ so = "new" => ts = <<>>
  /\ so = "open" /\ q # <<>> => w \/ HasOp(ts, "next") \/ HasOp(ts, "close")

Ends ==
  /\ \A s \in Side : EndOK(socket[s], tasks[s], queue[s], writing[s], reading[s])
  /\ socket["client"] = "new" => socket["server"] = "new"

-----------------------------------------------------------------------------
(* One direction of the connection: messages in tasks of send and in the   *)
(* queue of one end.                                                       *)

Has(I, n, m) == <<n, m>> \in I

\* I is a set of numbered messages.  Those in ts, q are numbered without a gap
\* up to T: num[i] is the number of the last one up to the i-th task, and w messages
\* have been written.
Numbering(I, ts, q, w, T, b, num) ==
  /\ b \in Nat /\ num \in [0..Len(ts) -> 0..T]
  /\ num[0] = b + Len(q) /\ num[Len(ts)] = T
  /\ \A i \in 1..Len(ts) : num[i] = num[i - 1] + (IF ts[i].op = "send" THEN 1 ELSE 0)
  /\ \A i \in 1..Len(ts) : ts[i].op = "send" => Has(I, num[i], ts[i].msg)
  /\ \A i \in 1..Len(q) : Has(I, b + i, q[i])
  /\ w = b + (IF HasOp(ts, "next") THEN 1 ELSE 0)

Chain(I, ts, q, w, T) == \E b, num : Numbering(I, ts, q, w, T, b, num)

LEMMA ChainMore ==
  ASSUME NEW I, NEW I2, I \subseteq I2, NEW ts, NEW q, NEW w, NEW T, Chain(I, ts, q, w, T)
  PROVE  Chain(I2, ts, q, w, T)
BY DEF Chain, Numbering, Has

\* A task is posted; a write has been completed if it is "next".
LEMMA ChainAppend ==
  ASSUME NEW I, NEW S, NEW ts \in Seq(S), NEW M, NEW q \in Seq(M), NEW w \in Nat, NEW T \in Nat,
         Chain(I, ts, q, w, T),
         NEW x \in S, NEW t2, t2 = Append(ts, x),
         NEW w2 \in Nat, x.op # "next" => w2 = w,
         x.op = "next" => w2 = w + 1 /\ ~HasOp(ts, "next"),
         NEW T2 \in Nat, x.op # "send" => T2 = T,
         x.op = "send" => T2 = T + 1 /\ Has(I, T2, x.msg)
  PROVE  Chain(I, t2, q, w2, T2)
<1>1. PICK b, num : Numbering(I, ts, q, w, T, b, num)
  BY DEF Chain
<1> DEFINE n == Len(ts)
           num2 == [i \in 0..(n + 1) |-> IF i = n + 1 THEN T2 ELSE num[i]]
<1>2. /\ n \in Nat /\ Len(t2) = n + 1 /\ t2[n + 1] = x /\ \A i \in 1..n : t2[i] = ts[i]
  BY Appended
<1>3. HasOp(t2, "next") <=> HasOp(ts, "next") \/ x.op = "next"
  BY OpsAppend
<1>4. /\ b \in Nat /\ num \in [0..n -> 0..T]
      /\ num[0] = b + Len(q) /\ num[n] = T
      /\ \A i \in 1..n : num[i] = num[i - 1] + (IF ts[i].op = "send" THEN 1 ELSE 0)
      /\ \A i \in 1..n : ts[i].op = "send" => Has(I, num[i], ts[i].msg)
      /\ \A i \in 1..Len(q) : Has(I, b + i, q[i])
      /\ w = b + (IF HasOp(ts, "next") THEN 1 ELSE 0)
  BY <1>1 DEF Numbering
<1> HIDE DEF n
<1>5. T2 \in Nat /\ T <= T2
  OBVIOUS
<1>6. num2 \in [0..(n + 1) -> 0..T2]
  BY <1>2, <1>4, <1>5
<1>7. num2[0] = b + Len(q) /\ num2[n + 1] = T2
  BY <1>2, <1>4
<1>8. ASSUME NEW i \in 1..(n + 1)
      PROVE  num2[i] = num2[i - 1] + (IF t2[i].op = "send" THEN 1 ELSE 0)
  <2>1. CASE i = n + 1
    <3>1. num2[i] = T2 /\ num2[i - 1] = T /\ t2[i] = x
      BY <1>2, <1>4, <2>1
    <3> QED
      BY <3>1
  <2>2. CASE i # n + 1
    <3>1. i \in 1..n /\ num2[i] = num[i] /\ num2[i - 1] = num[i - 1] /\ t2[i] = ts[i]
      BY <1>2, <2>2
    <3> QED
      BY <1>4, <3>1
  <2> QED
    BY <2>1, <2>2
<1>9. ASSUME NEW i \in 1..(n + 1), t2[i].op = "send"
      PROVE  Has(I, num2[i], t2[i].msg)
  <2>1. CASE i = n + 1
    <3>1. num2[i] = T2 /\ t2[i] = x
      BY <1>2, <2>1
    <3> QED
      BY <1>9, <3>1
  <2>2. CASE i # n + 1
    BY <1>2, <1>4, <1>9, <2>2
  <2> QED
    BY <2>1, <2>2
<1>10. w2 = b + (IF HasOp(t2, "next") THEN 1 ELSE 0)
  BY <1>3, <1>4
<1> HIDE DEF num2
<1>11. Numbering(I, t2, q, w2, T2, b, num2)
  BY <1>2, <1>4, <1>6, <1>7, <1>8, <1>9, <1>10 DEF Numbering
<1> QED
  BY <1>11 DEF Chain

\* The first task is run: "send" puts its message into the queue, "next" drops the
\* front of the queue, and others leave the queue alone.
LEMMA ChainTail ==
  ASSUME NEW I, NEW S, NEW ts \in Seq(S), ts # <<>>, NEW M, NEW q \in Seq(M),
         NEW w \in Nat, NEW T \in Nat, Chain(I, ts, q, w, T), Once(ts, "next"),
         NEW t2, t2 = Tail(ts), NEW q2 \in Seq(M),
         Head(ts).op = "send" => Head(ts).msg \in M /\ q2 = Append(q, Head(ts).msg),
         Head(ts).op = "next" => q # <<>> /\ q2 = Tail(q),
         Head(ts).op \notin {"send", "next"} => q2 = q
  PROVE  Chain(I, t2, q2, w, T)
<1>1. PICK b, num : Numbering(I, ts, q, w, T, b, num)
  BY DEF Chain
<1> DEFINE n  == Len(ts)
           b2 == b + (IF Head(ts).op = "next" THEN 1 ELSE 0)
           num2 == [i \in 0..(n - 1) |-> num[i + 1]]
<1>2. /\ n \in Nat /\ n >= 1 /\ Len(t2) = n - 1 /\ Head(ts) = ts[1]
      /\ \A i \in 1..(n - 1) : t2[i] = ts[i + 1]
  BY Dropped
<1>3. /\ HasOp(ts, "next") <=> Head(ts).op = "next" \/ HasOp(t2, "next")
      /\ Head(ts).op = "next" => ~HasOp(t2, "next")
  BY OpsTail
<1>4. /\ b \in Nat /\ num \in [0..n -> 0..T]
      /\ num[0] = b + Len(q) /\ num[n] = T
      /\ \A i \in 1..n : num[i] = num[i - 1] + (IF ts[i].op = "send" THEN 1 ELSE 0)
      /\ \A i \in 1..n : ts[i].op = "send" => Has(I, num[i], ts[i].msg)
      /\ \A i \in 1..Len(q) : Has(I, b + i, q[i])
      /\ w = b + (IF HasOp(ts, "next") THEN 1 ELSE 0)
  BY <1>1 DEF Numbering
<1> HIDE DEF n
<1>5. num2 \in [0..(n - 1) -> 0..T] /\ num2[n - 1] = T /\ num2[0] = num[1]
  BY <1>2, <1>4
<1>6. \A i \in 1..(n - 1) : num2[i] = num[i + 1] /\ num2[i - 1] = num[i]
  BY <1>2
<1>7. \A i \in 1..(n - 1) : num2[i] = num2[i - 1] + (IF t2[i].op = "send" THEN 1 ELSE 0)
  <2> TAKE i \in 1..(n - 1)
  <2>1. i + 1 \in 1..n /\ (i + 1) - 1 = i
    BY <1>2
  <2>2. num[i + 1] = num[i] + (IF ts[i + 1].op = "send" THEN 1 ELSE 0)
    BY <1>4, <2>1
  <2> QED
    BY <1>2, <1>6, <2>2
<1>8. \A i \in 1..(n - 1) : t2[i].op = "send" => Has(I, num2[i], t2[i].msg)
  BY <1>2, <1>4, <1>6
<1>9. num[1] = num[0] + (IF Head(ts).op = "send" THEN 1 ELSE 0)
  <2>1. 1 \in 1..n /\ 1 - 1 = 0
    BY <1>2
  <2> QED
    BY <1>2, <1>4, <2>1
<1>10. w = b2 + (IF HasOp(t2, "next") THEN 1 ELSE 0)
  BY <1>3, <1>4
<1>11. num[1] = b2 + Len(q2) /\ b2 \in Nat /\ \A i \in 1..Len(q2) : Has(I, b2 + i, q2[i])
  <2>1. CASE Head(ts).op = "send"
    <3>1. /\ Len(q2) = Len(q) + 1 /\ Len(q) \in Nat /\ q2[Len(q) + 1] = Head(ts).msg
          /\ \A i \in 1..Len(q) : q2[i] = q[i]
      BY <2>1, Appended
    <3>2. b2 = b /\ num[1] = b + (Len(q) + 1)
      BY <1>4, <1>9, <2>1, <3>1
    <3>3. Has(I, num[1], Head(ts).msg)
      BY <1>2, <1>4, <2>1
    <3>4. ASSUME NEW i \in 1..(Len(q) + 1)
          PROVE  Has(I, b + i, q2[i])
      <4>1. CASE i = Len(q) + 1
        BY <3>1, <3>2, <3>3, <4>1
      <4>2. CASE i # Len(q) + 1
        <5>1. i \in 1..Len(q)
          BY <3>1, <4>2
        <5> QED
          BY <1>4, <3>1, <5>1
      <4> QED
        BY <4>1, <4>2
    <3> HIDE DEF b2
    <3> QED
      BY <1>4, <3>1, <3>2, <3>4
  <2>2. CASE Head(ts).op = "next"
    <3>1. /\ Len(q2) = Len(q) - 1 /\ Len(q) \in Nat /\ Len(q) >= 1
          /\ \A i \in 1..(Len(q) - 1) : q2[i] = q[i + 1]
      BY <2>2, Dropped
    <3>2. num[1] = num[0] + 0 /\ b2 = b + 1
      BY <1>9, <2>2
    <3>3. num[1] = b + Len(q)
      BY <1>4, <3>1, <3>2
    <3>4. ASSUME NEW i \in 1..(Len(q) - 1)
          PROVE  Has(I, (b + 1) + i, q2[i])
      <4>1. i + 1 \in 1..Len(q) /\ b + (i + 1) = (b + 1) + i
        BY <1>4, <3>1
      <4>2. Has(I, b + (i + 1), q[i + 1])
        BY <1>4, <4>1
      <4> QED
        BY <3>1, <4>1, <4>2
    <3> HIDE DEF b2
    <3> QED
      BY <1>4, <3>1, <3>2, <3>3, <3>4
  <2>3. CASE Head(ts).op \notin {"send", "next"}
    <3>0. b2 = b + 0 /\ num[1] = num[0] + 0 /\ q2 = q /\ Len(q) \in Nat
      BY <1>9, <2>3, LenProperties
    <3>1. b2 = b /\ num[1] = b + Len(q) /\ q2 = q /\ Len(q) \in Nat
      <4> HIDE DEF b2
      <4> QED
        BY <1>4, <3>0
    <3> HIDE DEF b2
    <3> QED
      BY <1>4, <3>1
  <2> QED
    BY <2>1, <2>2, <2>3
<1> HIDE DEF num2, b2
<1>12. Numbering(I, t2, q2, w, T, b2, num2)
  BY <1>2, <1>5, <1>7, <1>8, <1>10, <1>11 DEF Numbering
<1> QED
  BY <1>12 DEF Chain

\* While no completed write waits for its "next", the front of the queue is the next
\* message to be written.
LEMMA ChainFront ==
  ASSUME NEW I, NEW S, NEW ts \in Seq(S), NEW M, NEW q \in Seq(M), q # <<>>,
         NEW w \in Nat, NEW T \in Nat, Chain(I, ts, q, w, T), ~HasOp(ts, "next")
  PROVE  w + 1 <= T /\ Has(I, w + 1, Head(q))
<1>1. PICK b, num : Numbering(I, ts, q, w, T, b, num)
  BY DEF Chain
<1>2. Len(q) \in Nat /\ Len(q) >= 1 /\ Head(q) = q[1]
  BY Dropped
<1>3. w = b /\ b \in Nat /\ Has(I, b + 1, q[1])
  BY <1>1, <1>2 DEF Numbering
<1>4. num[0] = b + Len(q) /\ num[0] \in 0..T
  <2>1. Len(ts) \in Nat
    BY LenProperties
  <2> QED
    BY <1>1, <2>1 DEF Numbering
<1> QED
  BY <1>2, <1>3, <1>4

\* All has been written when strand and queue are empty.
LEMMA ChainEmpty ==
  ASSUME NEW I, NEW w \in Nat, NEW T \in Nat, Chain(I, <<>>, <<>>, w, T)
  PROVE  w = T
<1>1. PICK b, num : Numbering(I, <<>>, <<>>, w, T, b, num)
  BY DEF Chain
<1>2. Len(<<>>) = 0 /\ ~HasOp(<<>>, "next")
  BY EmptySeq DEF HasOp
<1> QED
  BY <1>1, <1>2 DEF Numbering

-----------------------------------------------------------------------------
(* Each end keeps to EndOK.                                                *)

LEMMA EndShut ==
  ASSUME NEW ts, NEW so, NEW q, NEW w, NEW r, EndOK(so, ts, q, w, r)
  PROVE  EndOK("closed", ts, <<>>, FALSE, FALSE)
BY DEF EndOK

LEMMA LoopShape ==
  ASSUME program \in Program
  PROVE  /\ Len(Loop) = Len(program) + 1 /\ Loop[1] = Task("read", Nothing)
         /\ \A i \in 1..Len(program) : Loop[i + 1] = Task("send", Sent(i))
         /\ Loop \in Seq(TaskOf("client"))
<1> DEFINE n == Len(program)
           sends == [i \in DOMAIN program |-> Task("send", Sent(i))]
<1>1. n \in Nat /\ DOMAIN program = 1..n
  BY ProgramType
<1>2. Loop = <<Task("read", Nothing)>> \o sends
  BY DEF Loop, Sent, Task
<1>3. \A i \in 1..n : Task("send", Sent(i)) \in TaskOf("client")
  <2> TAKE i \in 1..n
  <2>1. program[i].op \in {"get", "set"} /\ program[i].key \in Key
    BY <1>1, ProgramType
  <2>2. program[i].op = "get" => Number(program, i) \in 1..Numbers
    BY <1>1, NumberType DEF Gets
  <2>3. Numbers \in Nat
    BY SessionAssumption
  <2>4. Sent(i).nr \in 0..Numbers /\ (program[i].op = "get" => Sent(i).nr # 0)
    BY <2>2, <2>3 DEF Sent
  <2>5. Sent(i) \in Said("client")
    BY <2>1, <2>4 DEF Said, Message, Sent
  <2> QED
    BY <2>5 DEF Task, TaskOf
<1>4. sends \in Seq(TaskOf("client")) /\ Len(sends) = n
  BY <1>1, <1>3, SeqDef, LenProperties
<1>5. <<Task("read", Nothing)>> \in Seq(TaskOf("client")) /\ Len(<<Task("read", Nothing)>>) = 1
        /\ <<Task("read", Nothing)>>[1] = Task("read", Nothing)
  <2>1. Task("read", Nothing) \in TaskOf("client")
    BY DEF Task, TaskOf
  <2> QED
    BY <2>1
<1>6. /\ Loop \in Seq(TaskOf("client")) /\ Len(Loop) = 1 + n
      /\ \A i \in 1..(1 + n) : Loop[i] = IF i <= 1 THEN Task("read", Nothing) ELSE sends[i - 1]
  <2> HIDE DEF sends
  <2> QED
    BY <1>1, <1>2, <1>4, <1>5, ConcatProperties
<1>7. \A i \in 1..n : Loop[i + 1] = sends[i]
  <2> TAKE i \in 1..n
  <2>1. i + 1 \in 1..(1 + n) /\ ~(i + 1 <= 1) /\ (i + 1) - 1 = i
    BY <1>1
  <2> HIDE DEF sends
  <2> QED
    BY <1>6, <2>1
<1>8. Loop[1] = Task("read", Nothing)
  <2>1. 1 \in 1..(1 + n) /\ 1 <= 1
    BY <1>1
  <2> HIDE DEF sends
  <2> QED
    BY <1>6, <2>1
<1>9. Len(Loop) = n + 1
  BY <1>1, <1>6
<1>10. \A i \in 1..n : Loop[i + 1] = Task("send", Sent(i))
  BY <1>1, <1>7
<1> QED
  BY <1>6, <1>8, <1>9, <1>10

LEMMA LoopOps ==
  ASSUME program \in Program
  PROVE  /\ ~HasOp(Loop, "next") /\ ~HasOp(Loop, "close") /\ HasOp(Loop, "read")
         /\ Once(Loop, "next") /\ Once(Loop, "read")
<1>1. DOMAIN Loop = 1..(Len(program) + 1) /\ Len(program) \in Nat
  BY LoopShape, LenProperties, ProgramType
<1>2. \A i \in DOMAIN Loop : Loop[i].op = IF i = 1 THEN "read" ELSE "send"
  <2> TAKE i \in DOMAIN Loop
  <2>1. CASE i = 1
    BY <2>1, LoopShape DEF Task
  <2>2. CASE i # 1
    <3>1. i - 1 \in 1..Len(program) /\ (i - 1) + 1 = i
      BY <1>1, <2>2
    <3>2. Loop[(i - 1) + 1] = Task("send", Sent(i - 1))
      BY <3>1, LoopShape
    <3> QED
      BY <2>2, <3>1, <3>2 DEF Task
  <2> QED
    BY <2>1, <2>2
<1>3. 1 \in DOMAIN Loop
  BY <1>1
<1> QED
  BY <1>2, <1>3 DEF HasOp, Once

-----------------------------------------------------------------------------
(* What the actions do to strand, queue and pipe of each end.              *)

\* The end t is left as it is.
Kept(t) == /\ socket'[t] = socket[t] /\ tasks'[t] = tasks[t] /\ queue'[t] = queue[t]
           /\ writing'[t] = writing[t] /\ reading'[t] = reading[t]

LEMMA Sides ==
  /\ Side = {"client", "server"} /\ "client" \in Side /\ "server" \in Side
  /\ Other("client") = "server" /\ Other("server") = "client"
  /\ \A s \in Side : /\ Other(s) \in Side /\ Other(s) # s
                     /\ \A t \in Side : t = s \/ t = Other(s)
BY DEF Side, Other

LEMMA PostDone ==
  ASSUME Types, NEW s \in Side, NEW op, NEW m, Task(op, m) \in TaskOf(s), Post(s, op, m)
  PROVE  /\ DOMAIN tasks' = Side
         /\ tasks'[s] = Append(tasks[s], Task(op, m))
         /\ \A t \in Side : t # s => tasks'[t] = tasks[t]
         /\ \A t \in Side : tasks'[t] \in Seq(TaskOf(t))
<1>1. DOMAIN tasks = Side /\ \A t \in Side : tasks[t] \in Seq(TaskOf(t))
  BY DEF Types, EndsType
<1>2. /\ DOMAIN tasks' = Side
      /\ tasks'[s] = Append(tasks[s], Task(op, m))
      /\ \A t \in Side : t # s => tasks'[t] = tasks[t]
  BY <1>1 DEF Post
<1>3. tasks'[s] \in Seq(TaskOf(s))
  BY <1>1, <1>2, AppendProperties
<1> QED
  BY <1>1, <1>2, <1>3

LEMMA RunDone ==
  ASSUME Types, NEW s \in Side, NEW op, Run(s, op)
  PROVE  /\ DOMAIN tasks' = Side /\ tasks[s] # <<>> /\ Head(tasks[s]).op = op
         /\ Head(tasks[s]) \in TaskOf(s)
         /\ tasks'[s] = Tail(tasks[s])
         /\ \A t \in Side : t # s => tasks'[t] = tasks[t]
         /\ \A t \in Side : tasks'[t] \in Seq(TaskOf(t))
<1>1. DOMAIN tasks = Side /\ \A t \in Side : tasks[t] \in Seq(TaskOf(t))
  BY DEF Types, EndsType
<1>2. /\ DOMAIN tasks' = Side /\ tasks[s] # <<>> /\ Head(tasks[s]).op = op
      /\ tasks'[s] = Tail(tasks[s])
      /\ \A t \in Side : t # s => tasks'[t] = tasks[t]
  BY <1>1 DEF Run
<1>3. tasks'[s] \in Seq(TaskOf(s)) /\ Head(tasks[s]) \in TaskOf(s)
  BY <1>1, <1>2, HeadTailProperties
<1> QED
  BY <1>1, <1>2, <1>3

LEMMA TaskTypes ==
  ASSUME NEW s \in Side
  PROVE  /\ \A op \in {"read", "next", "close"} :
              Task(op, Nothing) \in TaskOf(s) /\ Task(op, Nothing).op = op
         /\ \A m \in Said(s) : /\ Task("send", m) \in TaskOf(s)
                               /\ Task("send", m).op = "send" /\ Task("send", m).msg = m
         /\ \A t \in TaskOf(s) : t.op = "send" => t.msg \in Said(s)
BY DEF Task, TaskOf

\* What a message from the client is, and its answer.
LEMMA AnswerType ==
  ASSUME Types, NEW m \in Said("client"), m.op = "get"
  PROVE  Answer(m) \in Said("server")
<1>1. m.key \in Key /\ m.nr \in 0..Numbers /\ m.nr # 0 /\ Numbers \in Nat
  BY SessionAssumption DEF Said, Message
<1>2. m.nr \in 1..Numbers
  BY <1>1
<1>3. Found(m.key) \in BOOLEAN /\ length[m.key] \in Nat
  BY <1>1 DEF Found, Types, StoreType
<1> QED
  BY <1>1, <1>2, <1>3 DEF Answer, Said, Response

\* The first message that has come is taken from its pipe.
LEMMA ReceiveDone ==
  ASSUME Types, NEW s \in Side, Receive(s)
  PROVE  /\ DOMAIN pipe' = Side /\ pipe[Other(s)] # <<>> /\ reading[s]
         /\ Arriving(s) \in Said(Other(s))
         /\ pipe'[Other(s)] = Tail(pipe[Other(s)]) /\ pipe'[s] = pipe[s]
         /\ PipesType'
<1>1. DOMAIN pipe = Side /\ Other(s) \in Side /\ Other(s) # s
        /\ \A t \in Side : pipe[t] \in Seq(Said(t)) /\ Len(pipe[t]) <= Capacity
  BY Sides DEF Types, PipesType
<1>2. DOMAIN pipe' = Side /\ pipe[Other(s)] # <<>> /\ reading[s]
        /\ pipe'[Other(s)] = Tail(pipe[Other(s)])
        /\ \A t \in Side : t # Other(s) => pipe'[t] = pipe[t]
  BY <1>1 DEF Receive, Arrived
<1>3. pipe'[Other(s)] \in Seq(Said(Other(s))) /\ Arriving(s) \in Said(Other(s))
        /\ Len(pipe'[Other(s)]) = Len(pipe[Other(s)]) - 1 /\ Len(pipe[Other(s)]) \in Nat
  BY <1>1, <1>2, HeadTailProperties, LenProperties DEF Arriving
<1>4. Len(pipe'[Other(s)]) <= Capacity
  BY <1>1, <1>3, SessionAssumption
<1>5. ASSUME NEW t \in Side
      PROVE  pipe'[t] \in Seq(Said(t)) /\ Len(pipe'[t]) <= Capacity
  BY <1>1, <1>2, <1>3, <1>4
<1> QED
  BY <1>1, <1>2, <1>3, <1>5 DEF PipesType

\* The front of the queue is written.
LEMMA WriteDone ==
  ASSUME Types, Ends, NEW s \in Side, Write(s)
  PROVE  /\ queue[s] # <<>> /\ Head(queue[s]) \in Said(s)
         /\ pipe'[s] = Append(pipe[s], Head(queue[s]))
         /\ pipe'[Other(s)] = pipe[Other(s)]
         /\ PipesType'
<1>1. DOMAIN pipe = Side /\ Other(s) \in Side /\ Other(s) # s /\ queue[s] \in Seq(Said(s))
        /\ \A t \in Side : pipe[t] \in Seq(Said(t)) /\ Len(pipe[t]) <= Capacity
  BY Sides DEF Types, PipesType, EndsType
<1>2. queue[s] # <<>>
  BY DEF Ends, EndOK, Write
<1>3. DOMAIN pipe' = Side /\ pipe'[s] = Append(pipe[s], Head(queue[s]))
        /\ Len(pipe[s]) < Capacity
        /\ \A t \in Side : t # s => pipe'[t] = pipe[t]
  BY <1>1 DEF Write
<1>4. Head(queue[s]) \in Said(s)
  BY <1>1, <1>2, HeadTailProperties
<1>5. pipe'[s] \in Seq(Said(s)) /\ Len(pipe'[s]) = Len(pipe[s]) + 1 /\ Len(pipe[s]) \in Nat
  BY <1>1, <1>3, <1>4, AppendProperties, LenProperties
<1>6. Len(pipe'[s]) <= Capacity
  BY <1>3, <1>5, SessionAssumption
<1>7. ASSUME NEW t \in Side
      PROVE  pipe'[t] \in Seq(Said(t)) /\ Len(pipe'[t]) <= Capacity
  BY <1>1, <1>3, <1>5, <1>6
<1> QED
  BY <1>1, <1>2, <1>3, <1>4, <1>7 DEF PipesType

-----------------------------------------------------------------------------
(* Each action moves one end, keeps to EndOK and the types, and leaves the *)
(* other end alone.                                                        *)

\* Every end but s is left as it is.
Apart(s) == \A t \in Side : t # s => Kept(t)

Moved(s) ==
  /\ EndsType' /\ Apart(s)
  /\ EndOK(socket'[s], tasks'[s], queue'[s], writing'[s], reading'[s])
  /\ socket'["client"] # "new"

LEMMA MovedEnds ==
  ASSUME Ends, NEW s \in Side, Moved(s)
  PROVE  Ends'
<1>1. ASSUME NEW t \in Side
      PROVE  EndOK(socket'[t], tasks'[t], queue'[t], writing'[t], reading'[t])
  <2>1. CASE t = s
    BY <2>1 DEF Moved
  <2>2. CASE t # s
    BY <2>2 DEF Moved, Apart, Kept, Ends
  <2> QED
    BY <2>1, <2>2
<1> QED
  BY <1>1 DEF Moved, Ends

\* What is known of one end before a step.
LEMMA EndNow ==
  ASSUME Types, Ends, NEW s \in Side
  PROVE  /\ tasks[s] \in Seq(TaskOf(s)) /\ queue[s] \in Seq(Said(s))
         /\ writing[s] \in BOOLEAN /\ reading[s] \in BOOLEAN
         /\ EndOK(socket[s], tasks[s], queue[s], writing[s], reading[s])
         /\ writing[s] \/ reading[s] => socket[s] = "open"
         /\ writing[s] \/ reading[s] \/ tasks[s] # <<>> \/ socket[s] = "open" =>
              socket["client"] # "new"
<1>1. EndOK(socket[s], tasks[s], queue[s], writing[s], reading[s])
  BY DEF Ends
<1> QED
  BY <1>1, Sides DEF Types, EndsType, Ends, EndOK

\* The kinds of tasks that are left when the first has run.
LEMMA RunOps ==
  ASSUME Types, NEW s \in Side, NEW op, Run(s, op), NEW o
  PROVE  /\ HasOp(tasks[s], o) <=> op = o \/ HasOp(tasks'[s], o)
         /\ Once(tasks[s], o) => Once(tasks'[s], o) /\ (op = o => ~HasOp(tasks'[s], o))
<1>1. tasks[s] \in Seq(TaskOf(s)) /\ tasks[s] # <<>> /\ tasks'[s] = Tail(tasks[s])
        /\ Head(tasks[s]).op = op
  BY RunDone DEF Types, EndsType
<1> QED
  BY <1>1, OpsTail

LEMMA RunMoves ==
  ASSUME Types, Ends, NEW s \in Side, NEW op, Run(s, op),
         socket' \in [Side -> {"new", "open", "closed"}], socket'[s] # "new",
         writing' \in [Side -> BOOLEAN], reading' \in [Side -> BOOLEAN],
         DOMAIN queue' = Side, queue'[s] \in Seq(Said(s)),
         \A t \in Side : t # s => /\ socket'[t] = socket[t] /\ queue'[t] = queue[t]
                                  /\ writing'[t] = writing[t] /\ reading'[t] = reading[t],
         EndOK(socket'[s], tasks'[s], queue'[s], writing'[s], reading'[s])
  PROVE  Moved(s)
<1>1. /\ DOMAIN tasks' = Side /\ tasks[s] # <<>> /\ tasks'[s] = Tail(tasks[s])
      /\ \A t \in Side : t # s => tasks'[t] = tasks[t]
      /\ \A t \in Side : tasks'[t] \in Seq(TaskOf(t))
  BY RunDone
<1>2. \A t \in Side : queue'[t] \in Seq(Said(t))
  BY EndNow
<1>3. EndsType'
  BY <1>1, <1>2 DEF EndsType
<1>4. Apart(s)
  BY <1>1 DEF Apart, Kept
<1>5. socket'["client"] # "new"
  BY <1>1, EndNow, Sides
<1> QED
  BY <1>1, <1>3, <1>4, <1>5 DEF Moved

LEMMA ReadMoves ==
  ASSUME Types, Ends, NEW s \in Side, RunRead(s)
  PROVE  Moved(s)
<1>1. /\ tasks[s] \in Seq(TaskOf(s)) /\ queue[s] \in Seq(Said(s))
      /\ writing[s] \in BOOLEAN /\ reading[s] \in BOOLEAN
      /\ EndOK(socket[s], tasks[s], queue[s], writing[s], reading[s])
  BY EndNow
<1>2. Run(s, "read") /\ tasks[s] # <<>> /\ Head(tasks[s]).op = "read"
  BY RunDone DEF RunRead
<1>3. /\ HasOp(tasks[s], "read") /\ (Once(tasks[s], "read") => ~HasOp(tasks'[s], "read"))
      /\ HasOp(tasks[s], "next") <=> HasOp(tasks'[s], "next")
      /\ HasOp(tasks[s], "close") <=> HasOp(tasks'[s], "close")
      /\ Once(tasks[s], "next") => Once(tasks'[s], "next")
      /\ Once(tasks[s], "read") => Once(tasks'[s], "read")
  BY <1>2, RunOps
<1>4. /\ socket' = socket /\ queue' = queue /\ writing' = writing
      /\ reading' \in [Side -> BOOLEAN] /\ reading'[s] = (socket[s] = "open")
      /\ \A t \in Side : t # s => reading'[t] = reading[t]
  BY DEF RunRead, Types, EndsType
<1>5. socket[s] # "new"
  BY <1>2, EndNow DEF EndOK
<1>6. EndOK(socket[s], tasks'[s], queue[s], writing[s], reading'[s])
  <2>1. CASE socket[s] = "open"
    <3>1. reading'[s] = TRUE
      BY <1>4, <2>1
    <3> QED
      BY <1>1, <1>3, <2>1, <3>1 DEF EndOK
  <2>2. CASE socket[s] # "open"
    <3>1. reading'[s] = FALSE
      BY <1>4, <2>2
    <3> QED
      BY <1>1, <1>5, <1>3, <2>2, <3>1 DEF EndOK
  <2> QED
    BY <2>1, <2>2
<1> QED
  BY <1>2, <1>4, <1>5, <1>6, RunMoves DEF Types, EndsType

LEMMA SendMoves ==
  ASSUME Types, Ends, NEW s \in Side, RunSend(s)
  PROVE  /\ Moved(s)
         /\ socket[s] = "open" => queue'[s] = Append(queue[s], Head(tasks[s]).msg)
<1>1. /\ tasks[s] \in Seq(TaskOf(s)) /\ queue[s] \in Seq(Said(s))
      /\ writing[s] \in BOOLEAN /\ reading[s] \in BOOLEAN
      /\ EndOK(socket[s], tasks[s], queue[s], writing[s], reading[s])
  BY EndNow
<1>2. Run(s, "send") /\ tasks[s] # <<>> /\ Head(tasks[s]).op = "send"
        /\ Head(tasks[s]).msg \in Said(s)
  BY RunDone, TaskTypes DEF RunSend
<1>3. /\ HasOp(tasks[s], "read") <=> HasOp(tasks'[s], "read")
      /\ HasOp(tasks[s], "next") <=> HasOp(tasks'[s], "next")
      /\ HasOp(tasks[s], "close") <=> HasOp(tasks'[s], "close")
      /\ Once(tasks[s], "next") => Once(tasks'[s], "next")
      /\ Once(tasks[s], "read") => Once(tasks'[s], "read")
  BY <1>2, RunOps
<1>4. socket' = socket /\ reading' = reading /\ socket[s] # "new"
  BY <1>2, EndNow DEF RunSend, EndOK
<1> DEFINE q2 == Append(queue[s], Head(tasks[s]).msg)
<1>5. CASE socket[s] = "open"
  <2>1. /\ DOMAIN queue' = Side /\ queue'[s] = q2
        /\ \A t \in Side : t # s => queue'[t] = queue[t]
        /\ writing' \in [Side -> BOOLEAN] /\ writing'[s] = (writing[s] \/ queue[s] = <<>>)
        /\ \A t \in Side : t # s => writing'[t] = writing[t]
    BY <1>5 DEF RunSend, Types, EndsType
  <2>2. q2 \in Seq(Said(s)) /\ q2 # <<>>
    BY <1>2, EndNow, AppendProperties
  <2> HIDE DEF q2
  <2>3. EndOK(socket[s], tasks'[s], q2, writing'[s], reading[s])
    BY <1>1, <1>2, <1>5, <2>1, <2>2, <1>3 DEF EndOK
  <2>4. Moved(s)
    BY <1>2, <1>4, <2>1, <2>2, <2>3, RunMoves DEF Types, EndsType
  <2> QED
    BY <2>1, <2>4 DEF q2
<1>6. CASE socket[s] # "open"
  <2>1. queue' = queue /\ writing' = writing
    BY <1>6 DEF RunSend
  <2>2. EndOK(socket[s], tasks'[s], queue[s], writing[s], reading[s])
    BY <1>1, <1>2, <1>6, <1>3 DEF EndOK
  <2> QED
    BY <1>2, <1>4, <1>6, <2>1, <2>2, RunMoves, EndNow DEF Types, EndsType
<1> QED
  BY <1>5, <1>6

LEMMA NextMoves ==
  ASSUME Types, Ends, NEW s \in Side, RunNext(s)
  PROVE  /\ Moved(s)
         /\ socket[s] # "closed" => queue[s] # <<>> /\ queue'[s] = Tail(queue[s])
<1>1. /\ tasks[s] \in Seq(TaskOf(s)) /\ queue[s] \in Seq(Said(s))
      /\ writing[s] \in BOOLEAN /\ reading[s] \in BOOLEAN
      /\ EndOK(socket[s], tasks[s], queue[s], writing[s], reading[s])
  BY EndNow
<1>2. Run(s, "next") /\ tasks[s] # <<>> /\ Head(tasks[s]).op = "next"
  BY RunDone DEF RunNext
<1>3. /\ HasOp(tasks[s], "read") <=> HasOp(tasks'[s], "read")
      /\ HasOp(tasks[s], "next") /\ (Once(tasks[s], "next") => ~HasOp(tasks'[s], "next"))
      /\ HasOp(tasks[s], "close") <=> HasOp(tasks'[s], "close")
      /\ Once(tasks[s], "next") => Once(tasks'[s], "next")
      /\ Once(tasks[s], "read") => Once(tasks'[s], "read")
  BY <1>2, RunOps
<1>4. socket' = socket /\ reading' = reading /\ socket[s] # "new"
  BY <1>2, EndNow DEF RunNext, EndOK
<1> DEFINE q2 == Tail(queue[s])
<1>5. CASE queue[s] # <<>>
  <2>1. q2 \in Seq(Said(s)) /\ (Len(queue[s]) > 1 <=> q2 # <<>>)
    <3>1. q2 \in Seq(Said(s)) /\ Len(q2) = Len(queue[s]) - 1 /\ Len(queue[s]) \in Nat
      BY <1>5, EndNow, HeadTailProperties, LenProperties
    <3>2. q2 # <<>> <=> Len(q2) # 0
      BY <3>1, EmptySeq
    <3>3. Len(queue[s]) # 0
      BY <1>5, EndNow, EmptySeq
    <3> HIDE DEF q2
    <3> QED
      BY <3>1, <3>2, <3>3
  <2>2. /\ DOMAIN queue' = Side /\ queue'[s] = q2
        /\ \A t \in Side : t # s => queue'[t] = queue[t]
        /\ writing' \in [Side -> BOOLEAN] /\ writing'[s] = (Len(queue[s]) > 1)
        /\ \A t \in Side : t # s => writing'[t] = writing[t]
    <3>1. /\ queue' = [queue EXCEPT ![s] = Tail(@)]
          /\ writing' = [writing EXCEPT ![s] = Len(queue[s]) > 1]
      BY <1>5 DEF RunNext
    <3>2. (Len(queue[s]) > 1) \in BOOLEAN
      OBVIOUS
    <3> QED
      BY <3>1, <3>2 DEF Types, EndsType
  <2> HIDE DEF q2
  <2>3. EndOK(socket[s], tasks'[s], q2, writing'[s], reading[s])
    <3>1. writing'[s] = (q2 # <<>>)
      BY <2>1, <2>2
    <3> QED
      BY <1>1, <1>2, <1>5, <3>1, <1>3 DEF q2, EndOK
  <2>4. Moved(s)
    BY <1>2, <1>4, <2>1, <2>2, <2>3, RunMoves DEF Types, EndsType
  <2> QED
    BY <1>5, <2>2, <2>4 DEF q2
<1>6. CASE queue[s] = <<>>
  <2>1. queue' = queue /\ writing' = writing
    BY <1>6 DEF RunNext
  <2>2. EndOK(socket[s], tasks'[s], queue[s], writing[s], reading[s]) /\ socket[s] = "closed"
    BY <1>1, <1>2, <1>6, <1>3 DEF EndOK
  <2> QED
    BY <1>2, <1>4, <2>1, <2>2, RunMoves, EndNow DEF Types, EndsType
<1> QED
  BY <1>5, <1>6

LEMMA ShutDone ==
  ASSUME Types, NEW s \in Side, Shut(s)
  PROVE  /\ socket' \in [Side -> {"new", "open", "closed"}]
         /\ writing' \in [Side -> BOOLEAN] /\ reading' \in [Side -> BOOLEAN]
         /\ DOMAIN queue' = Side /\ \A t \in Side : queue'[t] \in Seq(Said(t))
         /\ socket'[s] = "closed" /\ queue'[s] = <<>> /\ writing'[s] = FALSE /\ reading'[s] = FALSE
         /\ \A t \in Side : t # s => /\ socket'[t] = socket[t] /\ queue'[t] = queue[t]
                                     /\ writing'[t] = writing[t] /\ reading'[t] = reading[t]
<1>1. /\ socket' \in [Side -> {"new", "open", "closed"}]
      /\ writing' \in [Side -> BOOLEAN] /\ reading' \in [Side -> BOOLEAN]
      /\ DOMAIN queue' = Side
      /\ socket'[s] = "closed" /\ queue'[s] = <<>> /\ writing'[s] = FALSE /\ reading'[s] = FALSE
      /\ \A t \in Side : t # s => /\ socket'[t] = socket[t] /\ queue'[t] = queue[t]
                                  /\ writing'[t] = writing[t] /\ reading'[t] = reading[t]
  BY DEF Shut, Types, EndsType
<1>2. ASSUME NEW t \in Side
      PROVE  queue'[t] \in Seq(Said(t))
  BY <1>1, EmptySeq DEF Types, EndsType
<1> QED
  BY <1>1, <1>2

LEMMA CloseMoves ==
  ASSUME Types, Ends, NEW s \in Side, RunClose(s)
  PROVE  Moved(s) /\ socket'[s] = "closed"
<1>1. Run(s, "close") /\ Shut(s) /\ tasks[s] # <<>>
  BY RunDone DEF RunClose
<1>2. EndOK("closed", tasks'[s], <<>>, FALSE, FALSE)
  <2>1. /\ Once(tasks[s], "next") => Once(tasks'[s], "next")
        /\ Once(tasks[s], "read") => Once(tasks'[s], "read")
    BY <1>1, RunOps
  <2>2. EndOK(socket[s], tasks[s], queue[s], writing[s], reading[s])
    BY EndNow
  <2> QED
    BY <2>1, <2>2 DEF EndOK
<1> QED
  BY <1>1, <1>2, ShutDone, RunMoves

LEMMA DestroyMoves ==
  ASSUME Types, Ends, Destroy
  PROVE  Moved("server") /\ socket'["server"] = "closed"
<1>1. Shut("server") /\ socket["server"] = "open" /\ tasks' = tasks /\ "server" \in Side
  BY Sides DEF Destroy, Forsaken
<1>2. EndOK("closed", tasks["server"], <<>>, FALSE, FALSE)
  BY <1>1, EndNow, EndShut
<1>3. EndsType'
  BY <1>1, ShutDone DEF EndsType, Types
<1>4. Apart("server")
  BY <1>1, ShutDone DEF Apart, Kept
<1>5. socket'["client"] # "new"
  <2>1. socket["client"] # "new"
    BY <1>1, EndNow
  <2> QED
    BY <1>1, <2>1, ShutDone, Sides
<1> QED
  BY <1>1, <1>2, <1>3, <1>4, <1>5, ShutDone DEF Moved

LEMMA PostOps ==
  ASSUME Types, NEW s \in Side, NEW op, NEW m, Task(op, m) \in TaskOf(s), Post(s, op, m), NEW o
  PROVE  /\ HasOp(tasks'[s], o) <=> HasOp(tasks[s], o) \/ op = o
         /\ Once(tasks[s], o) /\ (op = o => ~HasOp(tasks[s], o)) => Once(tasks'[s], o)
<1> DEFINE x == Task(op, m)
<1>1. tasks[s] \in Seq(TaskOf(s)) /\ tasks'[s] = Append(tasks[s], x)
        /\ x \in TaskOf(s) /\ x.op = op
  BY PostDone DEF Types, EndsType, Task
<1> HIDE DEF x
<1> QED
  BY <1>1, OpsAppend

\* A handler of an end that is open posts a task, perhaps as a write or a read ends.
LEMMA PostMoves ==
  ASSUME Types, Ends, NEW s \in Side, NEW op, NEW m, Task(op, m) \in TaskOf(s), Post(s, op, m),
         socket[s] = "open", socket' = socket, queue' = queue,
         writing' \in [Side -> BOOLEAN], reading' \in [Side -> BOOLEAN],
         \A t \in Side : t # s => writing'[t] = writing[t] /\ reading'[t] = reading[t],
         reading'[s] => reading[s],
         \/ op \in {"send", "close"} /\ writing'[s] = writing[s]
         \/ op \in {"next", "close"} /\ writing[s] /\ ~writing'[s]
  PROVE  Moved(s)
<1>1. /\ DOMAIN tasks' = Side /\ \A t \in Side : tasks'[t] \in Seq(TaskOf(t))
      /\ \A t \in Side : t # s => tasks'[t] = tasks[t]
  BY PostDone
<1>2. /\ writing[s] \in BOOLEAN /\ reading[s] \in BOOLEAN
      /\ writing'[s] \in BOOLEAN /\ reading'[s] \in BOOLEAN
      /\ EndOK(socket[s], tasks[s], queue[s], writing[s], reading[s])
  BY EndNow
<1>3. /\ HasOp(tasks'[s], "next") <=> HasOp(tasks[s], "next") \/ op = "next"
      /\ HasOp(tasks'[s], "read") <=> HasOp(tasks[s], "read") \/ op = "read"
      /\ HasOp(tasks'[s], "close") <=> HasOp(tasks[s], "close") \/ op = "close"
  BY PostOps
<1>4. /\ Once(tasks[s], "next") /\ (op = "next" => ~HasOp(tasks[s], "next"))
           => Once(tasks'[s], "next")
      /\ Once(tasks[s], "read") /\ (op = "read" => ~HasOp(tasks[s], "read"))
           => Once(tasks'[s], "read")
  BY PostOps
<1>5. EndOK(socket[s], tasks'[s], queue[s], writing'[s], reading'[s])
  <2>1. CASE op \in {"send", "close"} /\ writing'[s] = writing[s]
    BY <1>2, <1>3, <1>4, <2>1 DEF EndOK
  <2>2. CASE op \in {"next", "close"} /\ writing[s] /\ ~writing'[s]
    BY <1>2, <1>3, <1>4, <2>2 DEF EndOK
  <2> QED
    BY <2>1, <2>2
<1>6. EndsType'
  BY <1>1 DEF EndsType, Types
<1>7. Apart(s)
  BY <1>1 DEF Apart, Kept
<1>8. socket'["client"] # "new"
  BY EndNow
<1> QED
  BY <1>5, <1>6, <1>7, <1>8 DEF Moved

LEMMA WriteMoves ==
  ASSUME Types, Ends, NEW s \in Side, Write(s)
  PROVE  Moved(s) /\ ~HasOp(tasks[s], "next") /\ socket[s] = "open"
<1>1. /\ Post(s, "next", Nothing) /\ Task("next", Nothing) \in TaskOf(s)
      /\ socket' = socket /\ queue' = queue /\ reading' = reading /\ writing[s]
  BY TaskTypes DEF Write
<1>2. socket[s] = "open" /\ ~HasOp(tasks[s], "next")
  BY <1>1, EndNow DEF EndOK
<1>3. /\ writing' \in [Side -> BOOLEAN] /\ ~writing'[s]
      /\ \A t \in Side : t # s => writing'[t] = writing[t]
  BY DEF Write, Types, EndsType
<1>4. Moved(s)
  BY <1>1, <1>2, <1>3, PostMoves DEF Types, EndsType
<1> QED
  BY <1>2, <1>4

LEMMA WriteFailsMoves ==
  ASSUME Types, Ends, NEW s \in Side, WriteFails(s)
  PROVE  Moved(s)
<1>1. /\ Post(s, "close", Nothing) /\ Task("close", Nothing) \in TaskOf(s)
      /\ socket' = socket /\ queue' = queue /\ reading' = reading /\ writing[s]
  BY TaskTypes DEF WriteFails
<1>2. socket[s] = "open"
  BY <1>1, EndNow
<1>3. /\ writing' \in [Side -> BOOLEAN] /\ ~writing'[s]
      /\ \A t \in Side : t # s => writing'[t] = writing[t]
  BY DEF WriteFails, Types, EndsType
<1> QED
  BY <1>1, <1>2, <1>3, PostMoves DEF Types, EndsType

\* A read ends, and the end is closed.
LEMMA ReadFailsMoves ==
  ASSUME Types, Ends, NEW s \in Side, Post(s, "close", Nothing), reading[s],
         reading' = [reading EXCEPT ![s] = FALSE], UNCHANGED <<socket, queue, writing>>
  PROVE  Moved(s)
<1>1. Task("close", Nothing) \in TaskOf(s) /\ socket[s] = "open"
  BY TaskTypes, EndNow
<1>2. /\ reading' \in [Side -> BOOLEAN] /\ ~reading'[s]
      /\ \A t \in Side : t # s => reading'[t] = reading[t]
  BY DEF Types, EndsType
<1> QED
  BY <1>1, <1>2, PostMoves DEF Types, EndsType

LEMMA ReadEndsMoves ==
  ASSUME Types, Ends, NEW s \in Side, ReadEnds(s)
  PROVE  Moved(s)
<1>1. /\ reading[s] /\ socket' = socket /\ queue' = queue /\ writing' = writing
      /\ tasks' = tasks /\ reading' \in [Side -> BOOLEAN] /\ ~reading'[s]
      /\ \A t \in Side : t # s => reading'[t] = reading[t]
  BY DEF ReadEnds, Types, EndsType
<1>2. reading'[s] \in BOOLEAN /\ writing[s] \in BOOLEAN
        /\ EndOK(socket[s], tasks[s], queue[s], writing[s], reading[s])
  BY <1>1, EndNow
<1>3. EndOK(socket[s], tasks[s], queue[s], writing[s], reading'[s])
  BY <1>1, <1>2 DEF EndOK
<1>4. EndsType'
  BY <1>1 DEF EndsType, Types
<1>5. Apart(s)
  BY <1>1 DEF Apart, Kept
<1>6. socket'["client"] # "new"
  BY <1>1, EndNow
<1> QED
  BY <1>1, <1>3, <1>4, <1>5, <1>6 DEF Moved

LEMMA ExpireMoves ==
  ASSUME Types, Ends, NEW s \in Side, Expire(s)
  PROVE  Moved(s)
<1>1. /\ Post(s, "close", Nothing) /\ Task("close", Nothing) \in TaskOf(s)
      /\ socket' = socket /\ queue' = queue /\ writing' = writing /\ reading' = reading
      /\ socket[s] = "open"
  BY TaskTypes DEF Expire, Armed
<1> QED
  BY <1>1, PostMoves DEF Types, EndsType

LEMMA ServeGetMoves ==
  ASSUME Types, Ends, ServeGet
  PROVE  Moved("server") /\ Task("send", Answer(Arriving("server"))) \in TaskOf("server")
<1>1. "server" \in Side /\ Receive("server") /\ Other("server") = "client"
  BY Sides DEF ServeGet
<1>2. Arriving("server") \in Said("client") /\ reading["server"]
  BY <1>1, ReceiveDone
<1>3. Answer(Arriving("server")) \in Said("server")
  BY <1>2, AnswerType DEF ServeGet
<1>4. /\ Post("server", "send", Answer(Arriving("server")))
      /\ Task("send", Answer(Arriving("server"))) \in TaskOf("server")
      /\ socket' = socket /\ queue' = queue /\ writing' = writing /\ reading' = reading
  BY <1>1, <1>3, TaskTypes DEF ServeGet, Receive
<1>5. socket["server"] = "open"
  BY <1>1, <1>2, EndNow
<1> QED
  BY <1>1, <1>4, <1>5, PostMoves DEF Types, EndsType

LEMMA ConnectMoves ==
  ASSUME Types, Ends, Connect
  PROVE  Moved("client") /\ queue["client"] = <<>> /\ tasks["client"] = <<>>
<1>1. /\ "client" \in Side /\ socket["client"] = "new"
      /\ socket' \in [Side -> {"new", "open", "closed"}] /\ socket'["client"] = "open"
      /\ \A t \in Side : t # "client" => socket'[t] = socket[t]
      /\ DOMAIN tasks' = Side /\ tasks'["client"] = Loop
      /\ \A t \in Side : t # "client" => tasks'[t] = tasks[t]
      /\ queue' = queue /\ writing' = writing /\ reading' = reading
  BY Sides DEF Connect, Types, EndsType
<1>2. queue["client"] = <<>> /\ tasks["client"] = <<>> /\ ~writing["client"] /\ ~reading["client"]
  BY <1>1, EndNow DEF EndOK
<1>3. EndOK("open", Loop, queue["client"], writing["client"], reading["client"])
  BY <1>2, LoopOps DEF EndOK, Types
<1>4. \A t \in Side : tasks'[t] \in Seq(TaskOf(t))
  BY <1>1, LoopShape DEF Types, EndsType
<1>5. EndsType'
  BY <1>1, <1>4 DEF EndsType, Types
<1>6. Apart("client")
  BY <1>1 DEF Apart, Kept
<1> QED
  BY <1>1, <1>2, <1>3, <1>5, <1>6 DEF Moved

LEMMA AcceptMoves ==
  ASSUME Types, Ends, Accept
  PROVE  Moved("server")
<1>1. /\ "server" \in Side /\ "client" # "server" /\ "client" \in Side
      /\ socket["server"] = "new" /\ socket["client"] # "new"
      /\ socket' \in [Side -> {"new", "open", "closed"}] /\ socket'["server"] = "open"
      /\ \A t \in Side : t # "server" => socket'[t] = socket[t]
      /\ queue' = queue /\ writing' = writing /\ reading' = reading
      /\ Post("server", "read", Nothing)
  BY Sides DEF Accept, Types, EndsType
<1>2. Task("read", Nothing) \in TaskOf("server")
  BY <1>1, TaskTypes
<1>3. /\ DOMAIN tasks' = Side /\ \A t \in Side : tasks'[t] \in Seq(TaskOf(t))
      /\ \A t \in Side : t # "server" => tasks'[t] = tasks[t]
  BY <1>1, <1>2, PostDone
<1>4. /\ queue["server"] = <<>> /\ tasks["server"] = <<>>
      /\ ~writing["server"] /\ ~reading["server"]
  BY <1>1, EndNow DEF EndOK
<1>5. \A o : ~HasOp(tasks["server"], o) /\ Once(tasks["server"], o)
  BY <1>4 DEF HasOp, Once
<1>6. ~HasOp(tasks'["server"], "next") /\ Once(tasks'["server"], "next")
        /\ Once(tasks'["server"], "read")
  BY <1>1, <1>2, <1>5, PostOps
<1>7. EndOK("open", tasks'["server"], queue["server"], writing["server"], reading["server"])
  BY <1>4, <1>6 DEF EndOK
<1>8. EndsType'
  BY <1>1, <1>3 DEF EndsType, Types
<1>9. Apart("server")
  BY <1>1, <1>3 DEF Apart, Kept
<1> QED
  BY <1>1, <1>7, <1>8, <1>9 DEF Moved

LEMMA ConnectFailsEnds ==
  ASSUME Types, Ends, ConnectFails
  PROVE  EndsType' /\ Ends'
<1>1. /\ \A s \in Side : socket'[s] = "closed"
      /\ socket' \in [Side -> {"new", "open", "closed"}]
      /\ \A s \in Side : socket[s] = "new"
      /\ tasks' = tasks /\ queue' = queue /\ writing' = writing /\ reading' = reading
  BY Sides DEF ConnectFails, Ends
<1>2. ASSUME NEW s \in Side
      PROVE  EndOK(socket'[s], tasks[s], queue[s], writing[s], reading[s])
  <2>1. EndOK("new", tasks[s], queue[s], writing[s], reading[s])
    BY <1>1, EndNow
  <2> QED
    BY <1>1, <2>1 DEF EndOK
<1> QED
  BY <1>1, <1>2, Sides DEF Ends, EndsType, Types

LEMMA EndsNext ==
  ASSUME Types, Ends, [Next]_vars
  PROVE  EndsType' /\ Ends'
<1>1. ASSUME UNCHANGED endVars
      PROVE  EndsType' /\ Ends'
  BY <1>1 DEF endVars, Types, EndsType, Ends
<1>2. ASSUME NEW s \in Side, Moved(s)
      PROVE  EndsType' /\ Ends'
  BY <1>2, MovedEnds DEF Moved
<1>3. CASE Connect
  BY <1>2, <1>3, ConnectMoves, Sides
<1>4. CASE ConnectFails
  BY <1>4, ConnectFailsEnds
<1>5. CASE Accept
  BY <1>2, <1>5, AcceptMoves, Sides
<1>6. CASE ServeGet
  BY <1>2, <1>6, ServeGetMoves, Sides
<1>7. CASE ServeSet \/ TakeResponse
  BY <1>1, <1>7 DEF ServeSet, TakeResponse, Receive, endVars
<1>8. CASE RefuseResponse
  <2>1. /\ "client" \in Side /\ Post("client", "close", Nothing) /\ reading["client"]
        /\ reading' = [reading EXCEPT !["client"] = FALSE] /\ UNCHANGED <<socket, queue, writing>>
    BY <1>8, Sides DEF RefuseResponse, Receive, Arrived
  <2> QED
    BY <1>2, <2>1, ReadFailsMoves
<1>9. CASE Destroy
  BY <1>2, <1>9, DestroyMoves, Sides
<1>10. ASSUME NEW s \in Side, Strand(s)
       PROVE  EndsType' /\ Ends'
  BY <1>2, <1>10, ReadMoves, SendMoves, NextMoves, CloseMoves DEF Strand
<1>11. ASSUME NEW s \in Side, Network(s)
       PROVE  EndsType' /\ Ends'
  <2>1. CASE ReadFails(s)
    BY <1>2, <2>1, ReadFailsMoves DEF ReadFails
  <2> QED
    BY <1>2, <1>11, <2>1, WriteMoves, WriteFailsMoves, ReadEndsMoves DEF Network
<1>12. ASSUME NEW s \in Side, Expire(s)
       PROVE  EndsType' /\ Ends'
  BY <1>2, <1>12, ExpireMoves
<1>13. CASE Break \/ OtherSet
  BY <1>1, <1>13 DEF Break, OtherSet
<1>14. CASE UNCHANGED vars
  BY <1>1, <1>14 DEF vars
<1> QED
  BY <1>3, <1>4, <1>5, <1>6, <1>7, <1>8, <1>9, <1>10, <1>11, <1>12, <1>13, <1>14
     DEF Next, Step, Dispatch

-----------------------------------------------------------------------------
(* Pipes, store and responses.                                             *)

Calm == UNCHANGED <<pipe, storeVars, received>>

LEMMA Kinds ==
  ASSUME [Next]_vars
  PROVE  \/ Calm \/ (\E s \in Side : Write(s))
         \/ ServeGet \/ ServeSet \/ TakeResponse \/ RefuseResponse \/ OtherSet
<1>1. ASSUME NEW s \in Side, Strand(s)
      PROVE  Calm
  BY <1>1 DEF Strand, RunRead, RunSend, RunNext, RunClose, Run, Calm
<1>2. ASSUME NEW s \in Side, Network(s), ~Write(s)
      PROVE  Calm
  BY <1>2 DEF Network, WriteFails, ReadEnds, ReadFails, Calm
<1>3. ASSUME NEW s \in Side, Expire(s)
      PROVE  Calm
  BY <1>3 DEF Expire, Calm
<1>4. CASE Connect \/ ConnectFails \/ Accept \/ Destroy \/ Break
  BY <1>4 DEF Connect, ConnectFails, Accept, Destroy, Break, Calm
<1>5. CASE UNCHANGED vars
  BY <1>5 DEF vars, Calm
<1> QED
  BY <1>1, <1>2, <1>3, <1>4, <1>5 DEF Next, Step, Dispatch

\* The program stays, the network is not repaired, and flags stay flags.
LEMMA Flags ==
  ASSUME Types, [Next]_vars
  PROVE  program' = program /\ broken' \in BOOLEAN /\ ub' \in BOOLEAN /\ (broken => broken')
<1> USE DEF Types
<1>1. ASSUME NEW s \in Side, Strand(s)
      PROVE  program' = program /\ broken' = broken /\ ub' \in BOOLEAN
  BY <1>1 DEF Strand, RunRead, RunSend, RunNext, RunClose, Run
<1>2. ASSUME NEW s \in Side, Network(s)
      PROVE  program' = program /\ broken' = broken /\ ub' = ub
  BY <1>2 DEF Network, Write, WriteFails, ReadEnds, ReadFails
<1>3. ASSUME NEW s \in Side, Expire(s)
      PROVE  program' = program /\ broken' = broken /\ ub' = ub
  BY <1>3 DEF Expire
<1>4. CASE Connect \/ ConnectFails \/ Accept \/ Destroy \/ Break \/ OtherSet
  BY <1>4 DEF Connect, ConnectFails, Accept, Destroy, Break, OtherSet
<1>5. CASE Dispatch
  BY <1>5 DEF Dispatch, ServeGet, ServeSet, TakeResponse, RefuseResponse, Receive
<1>6. CASE UNCHANGED vars
  BY <1>6 DEF vars
<1> QED
  BY <1>1, <1>2, <1>3, <1>4, <1>5, <1>6 DEF Next, Step

\* Lengths that a response cannot carry have left their trace.
Lens == \A k \in Key : ResponseSize(length[k]) > MaxMessage => tooLong

LEMMA Bound ==
  ASSUME Types, Lens, NEW k \in Key, NEW v \in Nat, Bind(k, v)
  PROVE  /\ present' = present \cup {k} /\ present' \subseteq Key
         /\ length' \in [Key -> Nat] /\ tooLong' \in BOOLEAN /\ (tooLong => tooLong') /\ Lens'
<1>1. /\ present \subseteq Key /\ length \in [Key -> Nat] /\ tooLong \in BOOLEAN
  BY DEF Types, StoreType
<1>2. /\ present' = present \cup {k} /\ length' = [length EXCEPT ![k] = v]
      /\ tooLong' = (tooLong \/ ResponseSize(v) > MaxMessage)
  BY DEF Bind
<1>3. \A j \in Key : length'[j] = IF j = k THEN v ELSE length[j]
  BY <1>1, <1>2
<1>4. tooLong' \in BOOLEAN /\ (tooLong => tooLong')
        /\ (ResponseSize(v) > MaxMessage => tooLong')
  BY <1>2
<1>5. Lens'
  BY <1>3, <1>4 DEF Lens
<1> QED
  BY <1>1, <1>2, <1>4, <1>5

\* What the steps do to the store, and that it keeps its type.
LEMMA StoreNext ==
  ASSUME Types, Ends, Lens, [Next]_vars
  PROVE  StoreType' /\ Lens' /\ (tooLong => tooLong') /\ present \subseteq present'
<1>1. CASE UNCHANGED storeVars
  BY <1>1 DEF storeVars, Types, StoreType, Lens
<1>2. CASE Calm
  BY <1>1, <1>2 DEF Calm
<1>3. ASSUME NEW s \in Side, Write(s)
      PROVE  UNCHANGED storeVars
  BY <1>3 DEF Write
<1>4. CASE ServeGet \/ TakeResponse \/ RefuseResponse
  BY <1>1, <1>4 DEF ServeGet, TakeResponse, RefuseResponse, storeVars
<1>5. CASE ServeSet
  <2>1. Arriving("server").key \in Key /\ ClientValue \in Nat
    <3>1. Arriving("server") \in Said("client")
      BY <1>5, ReceiveDone, Sides DEF ServeSet
    <3> QED
      BY <3>1, SessionAssumption DEF Said, Message
  <2>2. Bind(Arriving("server").key, ClientValue) /\ others' = others
    BY <1>5 DEF ServeSet
  <2> QED
    BY <2>1, <2>2, Bound DEF StoreType, Types
<1>6. CASE OtherSet
  <2>1. PICK k \in Key, v \in OtherValue : Bind(k, v)
    BY <1>6 DEF OtherSet
  <2>2. v \in Nat
    BY SessionAssumption
  <2>3. others' \in 0..MaxOthers
    BY <1>6, SessionAssumption DEF OtherSet, Types, StoreType
  <2> QED
    BY <2>1, <2>2, <2>3, Bound DEF StoreType, Types
<1> QED
  BY <1>1, <1>2, <1>3, <1>4, <1>5, <1>6, Kinds

LEMMA TypesNext ==
  ASSUME Types, Ends, Lens, [Next]_vars
  PROVE  Types'
<1>1. PipesType' /\ received' \in Seq(Response)
  <2>1. CASE Calm
    BY <2>1 DEF Calm, Types, PipesType
  <2>2. ASSUME NEW s \in Side, Write(s)
        PROVE  PipesType' /\ received' \in Seq(Response)
    BY <2>2, WriteDone DEF Write, Types
  <2>3. CASE ServeGet \/ ServeSet \/ RefuseResponse
    BY <2>3, ReceiveDone, Sides DEF ServeGet, ServeSet, RefuseResponse, Types
  <2>4. CASE TakeResponse
    <3>1. Receive("client") /\ received' = Append(received, Arriving("client"))
      BY <2>4 DEF TakeResponse
    <3>2. PipesType' /\ Arriving("client") \in Response
      BY <3>1, ReceiveDone, Sides DEF Said
    <3> QED
      BY <3>1, <3>2, AppendProperties DEF Types
  <2>5. CASE OtherSet
    BY <2>5 DEF OtherSet, Types, PipesType
  <2> QED
    BY <2>1, <2>2, <2>3, <2>4, <2>5, Kinds
<1> QED
  BY <1>1, EndsNext, StoreNext, Flags DEF Types

-----------------------------------------------------------------------------
(* The messages on their way.                                              *)

\* m answers the n-th get of the program, as far as the client's own sets go.
IsAnswer(n, m) ==
  \E i \in Gets(program) :
    /\ Cardinality(Before(i)) + 1 = n
    /\ m.key = program[i].key /\ m.nr = Number(program, i)
    /\ m.key \in SetBefore(program, i) => m.found
    /\ ResponseSize(m.size) > MaxMessage => tooLong

\* What an end may send, with its number.
Items(s) == IF s = "client" THEN {<<n, Sent(n)>> : n \in 1..Len(program)}
                            ELSE {x \in Nat \X Response : IsAnswer(x[1], x[2])}

LEMMA ClientItem ==
  ASSUME NEW n, NEW m
  PROVE  Has(Items("client"), n, m) <=> n \in 1..Len(program) /\ m = Sent(n)
BY DEF Items, Has

LEMMA ServerItem ==
  ASSUME NEW n, NEW m
  PROVE  Has(Items("server"), n, m) <=> n \in Nat /\ m \in Response /\ IsAnswer(n, m)
<1> DEFINE R == Response
<1>1. Items("server") = {x \in Nat \X R : IsAnswer(x[1], x[2])}
  BY DEF Items
<1>2. <<n, m>>[1] = n /\ <<n, m>>[2] = m
  OBVIOUS
<1>3. <<n, m>> \in Nat \X R <=> n \in Nat /\ m \in R
  OBVIOUS
<1> HIDE DEF R
<1>4. <<n, m>> \in Items("server") <=>
        <<n, m>> \in Nat \X R /\ IsAnswer(<<n, m>>[1], <<n, m>>[2])
  BY <1>1
<1> QED
  BY <1>2, <1>3, <1>4 DEF R, Has

\* An answer stays one.
LEMMA AnswerKept ==
  ASSUME program' = program, tooLong => tooLong', NEW n, NEW m, IsAnswer(n, m)
  PROVE  IsAnswer(n, m)'
BY DEF IsAnswer, Before

LEMMA ItemsGrow ==
  ASSUME program' = program, tooLong => tooLong', NEW s \in Side
  PROVE  Items(s) \subseteq Items(s)'
<1>1. CASE s = "client"
  BY <1>1 DEF Items, Sent
<1>2. CASE s # "client"
  <2>1. Items(s) = {x \in Nat \X Response : IsAnswer(x[1], x[2])}
        /\ Items(s)' = {x \in Nat \X Response : IsAnswer(x[1], x[2])'}
    BY <1>2 DEF Items
  <2> QED
    BY <2>1, AnswerKept
<1> QED
  BY <1>1, <1>2

\* The messages in a pipe are the next ones after the c that have been read.
Piped(I, p, c, T) == c + Len(p) <= T /\ \A i \in 1..Len(p) : Has(I, c + i, p[i])

LEMMA PipedMore ==
  ASSUME NEW I, NEW I2, I \subseteq I2, NEW p, NEW c, NEW T, Piped(I, p, c, T)
  PROVE  Piped(I2, p, c, T)
BY DEF Piped, Has

LEMMA PipedTail ==
  ASSUME NEW I, NEW M, NEW p \in Seq(M), p # <<>>, NEW c \in Nat, NEW T \in Nat,
         Piped(I, p, c, T), NEW p2, p2 = Tail(p)
  PROVE  /\ Piped(I, p2, c + 1, T) /\ (c + 1) + Len(p2) = c + Len(p)
         /\ Has(I, c + 1, Head(p)) /\ c + 1 <= T
<1>1. /\ Len(p) \in Nat /\ Len(p) >= 1 /\ Len(p2) = Len(p) - 1 /\ Head(p) = p[1]
      /\ \A i \in 1..(Len(p) - 1) : p2[i] = p[i + 1]
  BY Dropped
<1> DEFINE n == Len(p)
<1> HIDE DEF n
<1>2. ASSUME NEW i \in 1..(n - 1)
      PROVE  Has(I, (c + 1) + i, p2[i])
  <2>1. i + 1 \in 1..n /\ c + (i + 1) = (c + 1) + i
    BY <1>1 DEF n
  <2>2. Has(I, c + (i + 1), p[i + 1])
    BY <2>1 DEF n, Piped
  <2> QED
    BY <1>1, <2>1, <2>2 DEF n
<1>3. (c + 1) + Len(p2) = c + Len(p) /\ c + 1 <= T
  BY <1>1 DEF Piped
<1>4. Has(I, c + 1, p[1])
  BY <1>1 DEF Piped
<1> QED
  BY <1>1, <1>2, <1>3, <1>4 DEF Piped, n

\* All that is on its way from s: c messages have been read at the other end, and
\* the strand was given T.
Line(s, c, T) ==
  /\ Piped(Items(s), pipe[s], c, T)
  /\ socket[s] # "closed" => Chain(Items(s), tasks[s], queue[s], c + Len(pipe[s]), T)

LEMMA LineNow ==
  ASSUME Types, NEW s \in Side, NEW c \in Nat
  PROVE  /\ tasks[s] \in Seq(TaskOf(s)) /\ queue[s] \in Seq(Said(s)) /\ pipe[s] \in Seq(Said(s))
         /\ Len(pipe[s]) \in Nat /\ c + Len(pipe[s]) \in Nat
<1>1. tasks[s] \in Seq(TaskOf(s)) /\ queue[s] \in Seq(Said(s)) /\ pipe[s] \in Seq(Said(s))
  BY DEF Types, EndsType, PipesType
<1>2. Len(pipe[s]) \in Nat
  BY <1>1, LenProperties
<1> QED
  BY <1>1, <1>2

-----------------------------------------------------------------------------
(* What a step of one end does to what is on its way.                      *)

\* Nothing is read at the other end, and no new message is given to the strand.
LineStays(s) == \A c, T \in Nat : Line(s, c, T) => Line(s, c, T)'

LEMMA LineKept ==
  ASSUME NEW s \in Side, Items(s) \subseteq Items(s)', pipe'[s] = pipe[s],
         \/ socket'[s] = "closed"
         \/ socket[s] # "closed" /\ tasks'[s] = tasks[s] /\ queue'[s] = queue[s]
  PROVE  LineStays(s)
<1> SUFFICES ASSUME NEW c \in Nat, NEW T \in Nat, Line(s, c, T)
             PROVE  Line(s, c, T)'
  BY DEF LineStays
<1> DEFINE I2 == Items(s)'
<1>1. Items(s) \subseteq I2
  OBVIOUS
<1>2. Line(s, c, T)' <=>
        /\ Piped(I2, pipe'[s], c, T)
        /\ socket'[s] # "closed" => Chain(I2, tasks'[s], queue'[s], c + Len(pipe'[s]), T)
  BY DEF Line
<1> HIDE DEF I2
<1>3. Piped(I2, pipe[s], c, T)
  BY <1>1, PipedMore DEF Line
<1>4. CASE socket'[s] = "closed"
  BY <1>2, <1>3, <1>4
<1>5. CASE socket[s] # "closed" /\ tasks'[s] = tasks[s] /\ queue'[s] = queue[s]
  <2>1. Chain(Items(s), tasks[s], queue[s], c + Len(pipe[s]), T)
    BY <1>5 DEF Line
  <2>2. Chain(I2, tasks[s], queue[s], c + Len(pipe[s]), T)
    BY <1>1, <2>1, ChainMore
  <2> QED
    BY <1>2, <1>3, <1>5, <2>2
<1> QED
  BY <1>4, <1>5

LEMMA LineRun ==
  ASSUME Types, Ends, NEW s \in Side, NEW op, Run(s, op), Items(s)' = Items(s),
         socket' = socket, queue'[s] \in Seq(Said(s)),
         op = "send" /\ socket[s] # "closed" => queue'[s] = Append(queue[s], Head(tasks[s]).msg),
         op = "next" /\ socket[s] # "closed" => queue[s] # <<>> /\ queue'[s] = Tail(queue[s]),
         op \notin {"send", "next"} => queue'[s] = queue[s]
  PROVE  LineStays(s)
<1> SUFFICES ASSUME NEW c \in Nat, NEW T \in Nat, Line(s, c, T)
             PROVE  Line(s, c, T)'
  BY DEF LineStays
<1>1. /\ tasks[s] # <<>> /\ Head(tasks[s]).op = op /\ tasks'[s] = Tail(tasks[s])
      /\ op = "send" => Head(tasks[s]).msg \in Said(s)
      /\ pipe' = pipe
  BY RunDone, TaskTypes DEF Run
<1>2. Once(tasks[s], "next")
  BY EndNow DEF EndOK
<1>3. ASSUME socket[s] # "closed"
      PROVE  Chain(Items(s), tasks'[s], queue'[s], c + Len(pipe[s]), T)
  <2> DEFINE I == Items(s)
             w == c + Len(pipe[s])
  <2>1. Chain(I, tasks[s], queue[s], w, T)
    BY <1>3 DEF Line
  <2>2. w \in Nat /\ tasks[s] \in Seq(TaskOf(s)) /\ queue[s] \in Seq(Said(s))
    BY LineNow
  <2> HIDE DEF I, w
  <2>3. Chain(I, tasks'[s], queue'[s], w, T)
    BY <1>1, <1>2, <1>3, <2>1, <2>2, ChainTail
  <2> QED
    BY <2>3 DEF I, w
<1> QED
  BY <1>1, <1>3 DEF Line

LEMMA LinePost ==
  ASSUME Types, NEW s \in Side, NEW op, NEW m, Post(s, op, m), Task(op, m) \in TaskOf(s),
         op \in {"read", "close"}, Items(s) \subseteq Items(s)', pipe'[s] = pipe[s],
         queue'[s] = queue[s], socket'[s] = "closed" \/ socket[s] # "closed"
  PROVE  LineStays(s)
<1> SUFFICES ASSUME NEW c \in Nat, NEW T \in Nat, Line(s, c, T)
             PROVE  Line(s, c, T)'
  BY DEF LineStays
<1> DEFINE I == Items(s)
           I2 == Items(s)'
           x == Task(op, m)
           w == c + Len(pipe[s])
<1>1. /\ x \in TaskOf(s) /\ x.op = op /\ tasks'[s] = Append(tasks[s], x) /\ I \subseteq I2
  BY PostDone DEF Task
<1>2. Line(s, c, T)' <=>
        /\ Piped(I2, pipe[s], c, T)
        /\ socket'[s] # "closed" => Chain(I2, tasks'[s], queue[s], w, T)
  BY DEF Line
<1>3. Piped(I, pipe[s], c, T) /\ (socket[s] # "closed" => Chain(I, tasks[s], queue[s], w, T))
  BY DEF Line
<1>4. w \in Nat /\ tasks[s] \in Seq(TaskOf(s)) /\ queue[s] \in Seq(Said(s))
  BY LineNow
<1> HIDE DEF I, I2, x, w
<1>5. Piped(I2, pipe[s], c, T)
  BY <1>1, <1>3, PipedMore
<1>6. ASSUME socket'[s] # "closed"
      PROVE  Chain(I2, tasks'[s], queue[s], w, T)
  <2>1. Chain(I2, tasks[s], queue[s], w, T)
    BY <1>1, <1>3, <1>6, ChainMore
  <2>2. x.op # "next" /\ x.op # "send"
    BY <1>1
  <2> QED
    BY <1>1, <1>4, <2>1, <2>2, ChainAppend
<1> QED
  BY <1>2, <1>5, <1>6

LEMMA LineWrite ==
  ASSUME Types, Ends, NEW s \in Side, Write(s), Items(s)' = Items(s)
  PROVE  LineStays(s)
<1> SUFFICES ASSUME NEW c \in Nat, NEW T \in Nat, Line(s, c, T)
             PROVE  Line(s, c, T)'
  BY DEF LineStays
<1> DEFINE I == Items(s)
           x == Task("next", Nothing)
           w == c + Len(pipe[s])
           m == Head(queue[s])
<1>1. /\ x \in TaskOf(s) /\ x.op = "next" /\ tasks'[s] = Append(tasks[s], x)
      /\ socket'[s] = "open" /\ socket[s] = "open" /\ ~HasOp(tasks[s], "next")
      /\ queue[s] # <<>> /\ m \in Said(s) /\ queue'[s] = queue[s]
      /\ pipe'[s] = Append(pipe[s], m)
  <2>1. Post(s, "next", Nothing) /\ socket' = socket /\ queue' = queue
    BY DEF Write
  <2>2. x \in TaskOf(s) /\ x.op = "next"
    BY TaskTypes
  <2>3. tasks'[s] = Append(tasks[s], x)
    BY <2>1, <2>2, PostDone
  <2>4. socket[s] = "open" /\ ~HasOp(tasks[s], "next")
    BY WriteMoves
  <2>5. queue[s] # <<>> /\ m \in Said(s) /\ pipe'[s] = Append(pipe[s], m)
    BY WriteDone
  <2> QED
    BY <2>1, <2>2, <2>3, <2>4, <2>5
<1>2. Line(s, c, T)' <=>
        /\ Piped(I, pipe'[s], c, T)
        /\ Chain(I, tasks'[s], queue[s], c + Len(pipe'[s]), T)
  BY <1>1 DEF Line
<1>3. Piped(I, pipe[s], c, T) /\ Chain(I, tasks[s], queue[s], w, T)
  BY <1>1 DEF Line
<1>4. /\ w \in Nat /\ tasks[s] \in Seq(TaskOf(s)) /\ queue[s] \in Seq(Said(s))
      /\ pipe[s] \in Seq(Said(s)) /\ w = c + Len(pipe[s])
  BY LineNow
<1> HIDE DEF I, x
<1>5. w + 1 <= T /\ Has(I, w + 1, Head(queue[s]))
  <2> HIDE DEF w, m
  <2> QED
    BY <1>1, <1>3, <1>4, ChainFront
<1>6. Piped(I, pipe'[s], c, T) /\ c + Len(pipe'[s]) = w + 1
  <2> DEFINE p == pipe[s]
             p2 == pipe'[s]
             n == Len(p)
  <2>1. Len(p) = n /\ n \in Nat /\ w = c + n /\ Has(I, w + 1, m) /\ w + 1 <= T
    BY <1>4, <1>5, LenProperties
  <2>2. Len(p2) = n + 1 /\ p2[n + 1] = m /\ \A i \in 1..n : p2[i] = p[i]
    <3> HIDE DEF m
    <3> QED
      BY <1>1, <1>4, AppendProperties
  <2> HIDE DEF w, m, p, p2, n
  <2>3. \A i \in 1..n : Has(I, c + i, p[i])
    BY <1>3, <2>1 DEF Piped, p
  <2>4. ASSUME NEW i \in 1..(n + 1)
        PROVE  Has(I, c + i, p2[i])
    <3>1. CASE i = n + 1
      <4>1. c + i = w + 1
        BY <2>1, <3>1
      <4> QED
        BY <2>1, <2>2, <3>1, <4>1
    <3>2. CASE i # n + 1
      <4>1. i \in 1..n
        BY <2>1, <3>2
      <4> QED
        BY <2>2, <2>3, <4>1
    <3> QED
      BY <3>1, <3>2
  <2>5. c + Len(p2) = w + 1
    BY <2>1, <2>2
  <2>6. Piped(I, p2, c, T) /\ c + Len(p2) = w + 1
    BY <2>1, <2>2, <2>4, <2>5 DEF Piped
  <2> QED
    BY <2>6 DEF p2
<1> HIDE DEF w
<1>7. Chain(I, tasks'[s], queue[s], w + 1, T)
  <2>1. x.op = "next" /\ w + 1 \in Nat
    BY <1>1, <1>4
  <2> QED
    BY <1>1, <1>3, <1>4, <2>1, ChainAppend
<1> QED
  BY <1>2, <1>6, <1>7

LEMMA ItemsSame ==
  ASSUME program' = program, tooLong' = tooLong, NEW s \in Side
  PROVE  Items(s)' = Items(s)
BY DEF Items, Sent, IsAnswer, Before

\* A step of the other end.
LEMMA LineApart ==
  ASSUME Types, Ends, Lens, [Next]_vars, NEW s \in Side, Kept(s), pipe'[s] = pipe[s]
  PROVE  LineStays(s)
<1>1. Items(s) \subseteq Items(s)'
  BY Flags, StoreNext, ItemsGrow
<1> QED
  BY <1>1, LineKept DEF Kept

LEMMA LinesStay ==
  ASSUME Types, Ends, Lens, [Next]_vars, ~Dispatch, ~Connect, NEW s \in Side
  PROVE  LineStays(s)
<1>1. Items(s) \subseteq Items(s)'
  BY Flags, StoreNext, ItemsGrow
<1>2. ASSUME NEW a \in Side, Moved(a), a # s, pipe'[s] = pipe[s]
      PROVE  LineStays(s)
  BY <1>2, LineApart DEF Moved, Apart
<1>3. ASSUME NEW a \in Side, Strand(a)
      PROVE  LineStays(s)
  <2>1. pipe' = pipe /\ program' = program /\ tooLong' = tooLong
    BY <1>3 DEF Strand, RunRead, RunSend, RunNext, RunClose, Run, storeVars
  <2>2. Moved(a)
    BY <1>3, ReadMoves, SendMoves, NextMoves, CloseMoves DEF Strand
  <2>3. CASE a # s
    BY <1>2, <2>1, <2>2, <2>3
  <2>4. CASE a = s
    <3>1. Items(s)' = Items(s)
      BY <2>1, ItemsSame
    <3>2. queue'[s] \in Seq(Said(s))
      BY <2>2, <2>4 DEF Moved, EndsType
    <3>3. CASE RunRead(s)
      <4>1. Run(s, "read") /\ socket' = socket /\ queue'[s] = queue[s]
        BY <3>3 DEF RunRead
      <4> QED
        BY <3>1, <3>2, <4>1, LineRun
    <3>4. CASE RunSend(s)
      <4>1. Run(s, "send") /\ socket' = socket
        BY <3>4 DEF RunSend
      <4>2. socket[s] # "closed" => queue'[s] = Append(queue[s], Head(tasks[s]).msg)
        <5>1. socket[s] # "new"
          BY <4>1, RunDone, EndNow DEF EndOK
        <5>2. socket[s] \in {"new", "open", "closed"}
          BY DEF Types, EndsType
        <5> QED
          BY <3>4, <5>1, <5>2, SendMoves
      <4> QED
        BY <3>1, <3>2, <4>1, <4>2, LineRun
    <3>5. CASE RunNext(s)
      <4>1. Run(s, "next") /\ socket' = socket
        BY <3>5 DEF RunNext
      <4>2. socket[s] # "closed" => queue[s] # <<>> /\ queue'[s] = Tail(queue[s])
        BY <3>5, NextMoves
      <4> QED
        BY <3>1, <3>2, <4>1, <4>2, LineRun
    <3>6. CASE RunClose(s)
      BY <1>1, <2>1, <3>6, CloseMoves, LineKept
    <3> QED
      BY <1>3, <2>4, <3>3, <3>4, <3>5, <3>6 DEF Strand
  <2> QED
    BY <2>3, <2>4
<1>4. ASSUME NEW a \in Side, Write(a)
      PROVE  LineStays(s)
  <2>1. Moved(a) /\ \A t \in Side : t # a => pipe'[t] = pipe[t]
    BY <1>4, WriteMoves, WriteDone, Sides
  <2>2. CASE a # s
    BY <1>2, <2>1, <2>2
  <2>3. CASE a = s
    BY <1>4, <2>3, LineWrite, ItemsSame DEF Write, storeVars
  <2> QED
    BY <2>2, <2>3
\* An end posts a close, or the first read.
<1>5. ASSUME NEW a \in Side, Moved(a), NEW op \in {"read", "close"}, Post(a, op, Nothing),
             pipe' = pipe, queue' = queue, socket'[a] = "closed" \/ socket[a] # "closed"
      PROVE  LineStays(s)
  <2>1. Task(op, Nothing) \in TaskOf(a)
    BY TaskTypes
  <2> QED
    BY <1>1, <1>2, <1>5, <2>1, LinePost
\* An end is closed, or the connection of its strand, its queue and its pipe is left.
<1>6. ASSUME \A t \in Side : /\ pipe'[t] = pipe[t]
                             /\ \/ socket'[t] = "closed"
                                \/ /\ socket'[t] = socket[t]
                                   /\ tasks'[t] = tasks[t] /\ queue'[t] = queue[t]
      PROVE  LineStays(s)
  BY <1>1, <1>6, LineKept
<1>7. ASSUME NEW a \in Side, Network(a) \/ Expire(a)
      PROVE  LineStays(s)
  <2>1. CASE WriteFails(a)
    <3>1. socket[a] = "open"
      BY <2>1, EndNow DEF WriteFails
    <3> QED
      BY <1>5, <2>1, <3>1, WriteFailsMoves DEF WriteFails
  <2>2. CASE ReadFails(a)
    <3>1. socket[a] = "open" /\ Moved(a)
      BY <2>2, EndNow, ReadFailsMoves DEF ReadFails
    <3> QED
      BY <1>5, <2>2, <3>1 DEF ReadFails
  <2>3. CASE ReadEnds(a)
    BY <1>6, <2>3 DEF ReadEnds
  <2>4. CASE Expire(a)
    <3>1. socket[a] = "open" /\ Moved(a)
      BY <2>4, ExpireMoves DEF Expire, Armed
    <3> QED
      BY <1>5, <2>4, <3>1 DEF Expire
  <2> QED
    BY <1>4, <1>7, <2>1, <2>2, <2>3, <2>4 DEF Network
<1>8. CASE Accept
  <2>1. /\ Moved("server") /\ "server" \in Side /\ Post("server", "read", Nothing)
        /\ pipe' = pipe /\ queue' = queue /\ socket["server"] # "closed"
    BY <1>8, AcceptMoves, Sides DEF Accept
  <2> QED
    BY <1>5, <2>1
<1>9. CASE ConnectFails
  BY <1>6, <1>9 DEF ConnectFails
<1>10. CASE Destroy
  <2>1. Moved("server") /\ socket'["server"] = "closed" /\ "server" \in Side
    BY <1>10, DestroyMoves, Sides
  <2> QED
    BY <1>6, <1>10, <2>1 DEF Destroy, Moved, Apart, Kept
<1>11. CASE Break \/ OtherSet \/ UNCHANGED vars
  BY <1>6, <1>11 DEF Break, OtherSet, vars, endVars
<1> QED
  BY <1>3, <1>7, <1>8, <1>9, <1>10, <1>11 DEF Next, Step

-----------------------------------------------------------------------------
(* The two directions together.                                            *)

CanRead(s) == reading[s] \/ HasOp(tasks[s], "read")

\* The answers to the gets among the first h requests.
Served(h) == Cardinality(Before(h + 1))

\* The server has read h of the T requests that the client has made, and the client
\* has read d of the responses.  What it has read it was given, as long as it reads.
Flow(h, d, T) ==
  /\ h \in Nat /\ d \in Nat /\ T \in 0..Len(program)
  /\ socket["client"] = "new" => T = 0
  /\ socket["client"] = "open" => T = Len(program)
  /\ Line("client", h, T) /\ Line("server", d, Served(h))
  /\ SetBefore(program, h + 1) \subseteq present
  /\ Len(received) <= d
  /\ socket["client"] = "new" \/ CanRead("client") => d = Len(received)

\* Every response given to the client answers the get of its place.
Answered == \A n \in DOMAIN received : IsAnswer(n, received[n])

LEMMA ServedType ==
  ASSUME program \in Program, NEW h \in Nat
  PROVE  Served(h) \in Nat /\ Served(h) <= Cardinality(Gets(program))
<1>1. h + 1 \in Nat
  OBVIOUS
<1> QED
  BY <1>1, GetsFinite DEF Served

\* The first message in the pipe of the other end is read.
LEMMA LineTaken ==
  ASSUME Types, Ends, Lens, [Next]_vars, NEW s \in Side, NEW o \in Side, o = Other(s),
         Receive(s), Kept(o), NEW c \in Nat, NEW T \in Nat, Line(o, c, T)
  PROVE  /\ Line(o, c + 1, T)' /\ Has(Items(o), c + 1, Arriving(s)) /\ c + 1 <= T
<1> DEFINE I == Items(o)
           I2 == Items(o)'
           w == c + Len(pipe[o])
<1>1. /\ pipe[o] # <<>> /\ pipe'[o] = Tail(pipe[o]) /\ Arriving(s) = Head(pipe[o])
      /\ pipe[o] \in Seq(Said(o)) /\ w \in Nat
  BY ReceiveDone, LineNow DEF Arriving
<1>2. I \subseteq I2
  BY Flags, StoreNext, ItemsGrow
<1>3. Line(o, c + 1, T)' <=>
        /\ Piped(I2, pipe'[o], c + 1, T)
        /\ socket'[o] # "closed" => Chain(I2, tasks'[o], queue'[o], (c + 1) + Len(pipe'[o]), T)
  BY DEF Line
<1>4. Piped(I, pipe[o], c, T) /\ (socket[o] # "closed" => Chain(I, tasks[o], queue[o], w, T))
  BY DEF Line
<1> HIDE DEF I, I2
<1>5. /\ Piped(I, pipe'[o], c + 1, T) /\ (c + 1) + Len(pipe'[o]) = w
      /\ Has(I, c + 1, Head(pipe[o])) /\ c + 1 <= T
  BY <1>1, <1>4, PipedTail
<1>6. Piped(I2, pipe'[o], c + 1, T)
  BY <1>2, <1>5, PipedMore
<1> HIDE DEF w
<1>7. socket[o] # "closed" => Chain(I2, tasks[o], queue[o], w, T)
  BY <1>2, <1>4, ChainMore
<1> QED
  BY <1>1, <1>3, <1>5, <1>6, <1>7 DEF I, Kept

\* A response is given to the strand of the server.
LEMMA LineAnswers ==
  ASSUME Types, Ends, Lens, ServeGet, Items("server") \subseteq Items("server")',
         NEW c \in Nat, NEW T \in Nat, Line("server", c, T),
         Has(Items("server")', T + 1, Answer(Arriving("server")))
  PROVE  Line("server", c, T + 1)'
<1> DEFINE I == Items("server")
           I2 == Items("server")'
           m == Answer(Arriving("server"))
           x == Task("send", m)
           w == c + Len(pipe["server"])
<1>1. /\ "server" \in Side /\ x \in TaskOf("server") /\ x.op = "send" /\ x.msg = m
      /\ tasks'["server"] = Append(tasks["server"], x)
      /\ pipe'["server"] = pipe["server"] /\ queue' = queue /\ socket' = socket
  <2>1. "server" \in Side /\ x \in TaskOf("server") /\ x.op = "send" /\ x.msg = m
    BY ServeGetMoves, Sides DEF Task
  <2>2. Post("server", "send", m) /\ Receive("server") /\ queue' = queue /\ socket' = socket
    BY DEF ServeGet, Receive
  <2> HIDE DEF m
  <2> QED
    BY <2>1, <2>2, PostDone, ReceiveDone
<1>2. Line("server", c, T + 1)' <=>
        /\ Piped(I2, pipe'["server"], c, T + 1)
        /\ socket'["server"] # "closed" =>
             Chain(I2, tasks'["server"], queue'["server"], c + Len(pipe'["server"]), T + 1)
  BY DEF Line
<1>3. /\ Piped(I, pipe["server"], c, T)
      /\ socket["server"] # "closed" => Chain(I, tasks["server"], queue["server"], w, T)
  BY DEF Line
<1>4. /\ w \in Nat /\ tasks["server"] \in Seq(TaskOf("server"))
      /\ queue["server"] \in Seq(Said("server")) /\ Len(pipe["server"]) \in Nat
  BY <1>1, LineNow
<1> HIDE DEF I, I2, m, x
<1>5. Piped(I2, pipe["server"], c, T)
  BY <1>3, PipedMore DEF I, I2
<1>6. Piped(I2, pipe["server"], c, T + 1)
  BY <1>4, <1>5 DEF Piped
<1> HIDE DEF w
<1>7. ASSUME socket["server"] # "closed"
      PROVE  Chain(I2, tasks'["server"], queue["server"], w, T + 1)
  <2>1. Chain(I2, tasks["server"], queue["server"], w, T)
    BY <1>3, <1>7, ChainMore DEF I, I2
  <2> DEFINE ts == tasks["server"]
             q  == queue["server"]
             t2 == tasks'["server"]
             T2 == T + 1
  <2>2. /\ Has(I2, T2, x.msg) /\ T2 \in Nat /\ T2 = T + 1 /\ x.op = "send" /\ x.op # "next"
        /\ x \in TaskOf("server") /\ t2 = Append(ts, x)
    BY <1>1 DEF I2, m
  <2>3. /\ Chain(I2, ts, q, w, T) /\ w \in Nat
        /\ ts \in Seq(TaskOf("server")) /\ q \in Seq(Said("server"))
    BY <1>4, <2>1
  <2> HIDE DEF ts, q, t2, T2
  <2>4. Chain(I2, t2, q, w, T2)
    BY <2>2, <2>3, ChainAppend
  <2> QED
    BY <2>4 DEF t2, q, T2
<1> QED
  BY <1>1, <1>2, <1>6, <1>7 DEF w

\* The program as it is given to the client's strand.
LEMMA ChainLoop ==
  ASSUME program \in Program
  PROVE  Chain(Items("client"), Loop, <<>>, 0, Len(program))
<1> DEFINE n == Len(program)
           num == [i \in 0..(n + 1) |-> IF i = 0 THEN 0 ELSE i - 1]
<1>1. n \in Nat /\ Len(Loop) = n + 1 /\ Loop[1] = Task("read", Nothing)
        /\ \A i \in 1..n : Loop[i + 1] = Task("send", Sent(i))
  BY ProgramType, LoopShape
<1>2. \A i \in 1..n : Has(Items("client"), i, Sent(i))
  BY ClientItem
<1> HIDE DEF n
<1>3. num \in [0..(n + 1) -> 0..n] /\ num[0] = 0 /\ num[n + 1] = n
  BY <1>1
<1>4. ASSUME NEW i \in 1..(n + 1)
      PROVE  /\ num[i] = num[i - 1] + (IF Loop[i].op = "send" THEN 1 ELSE 0)
             /\ Loop[i].op = "send" => Has(Items("client"), num[i], Loop[i].msg)
             /\ Loop[i].op # "next"
  <2>1. CASE i = 1
    <3>1. num[i] = 0 /\ num[i - 1] = 0 /\ Loop[i].op = "read"
      BY <1>1, <2>1 DEF Task
    <3> QED
      BY <3>1
  <2>2. CASE i # 1
    <3>1. i - 1 \in 1..n /\ (i - 1) + 1 = i
      BY <1>1, <2>2
    <3>2. Loop[i].op = "send" /\ Loop[i].msg = Sent(i - 1)
      <4>1. Loop[(i - 1) + 1] = Task("send", Sent(i - 1))
        BY <1>1, <3>1
      <4> QED
        BY <3>1, <4>1 DEF Task
    <3>3. num[i] = i - 1
      BY <1>1, <2>2
    <3>4. num[i - 1] = (i - 1) - 1
      BY <1>1, <2>2
    <3> QED
      BY <1>2, <3>1, <3>2, <3>3, <3>4
  <2> QED
    BY <2>1, <2>2
<1>5. ~HasOp(Loop, "next")
  BY LoopOps
<1>6. Len(<<>>) = 0
  BY EmptySeq
<1> HIDE DEF num
<1>7. Numbering(Items("client"), Loop, <<>>, 0, n, 0, num)
  BY <1>1, <1>3, <1>4, <1>5, <1>6 DEF Numbering
<1> QED
  BY <1>7 DEF Chain, n

\* An end does not begin to read again.
LEMMA CanReadNext ==
  ASSUME Types, Ends, [Next]_vars, ~Connect, CanRead("client")'
  PROVE  CanRead("client")
<1> DEFINE s == "client"
<1>1. s \in Side
  BY Sides
<1>2. HasOp(tasks'[s], "read") \/ reading'[s]
  BY DEF CanRead
<1>3. ASSUME tasks'[s] = tasks[s], reading'[s] => reading[s]
      PROVE  CanRead(s)
  BY <1>2, <1>3 DEF CanRead
<1>4. ASSUME NEW a \in Side, Moved(a), a # s
      PROVE  CanRead(s)
  BY <1>1, <1>3, <1>4 DEF Moved, Apart, Kept
<1>5. ASSUME NEW op \in {"next", "close"}, Post(s, op, Nothing), reading'[s] => reading[s]
      PROVE  CanRead(s)
  <2>1. Task(op, Nothing) \in TaskOf(s)
    BY <1>1, TaskTypes
  <2>2. HasOp(tasks'[s], "read") => HasOp(tasks[s], "read")
    BY <1>1, <1>5, <2>1, PostOps
  <2> QED
    BY <1>2, <1>5, <2>2 DEF CanRead
<1>6. ASSUME NEW a \in Side, Strand(a)
      PROVE  CanRead(s)
  <2>1. Moved(a)
    BY <1>6, ReadMoves, SendMoves, NextMoves, CloseMoves DEF Strand
  <2>2. ASSUME a = s, NEW op, Run(s, op), op # "read", reading'[s] => reading[s]
        PROVE  CanRead(s)
    BY <1>1, <1>2, <2>2, RunOps DEF CanRead
  <2>3. CASE a = s /\ RunRead(s)
    BY <1>1, <2>3, RunOps DEF RunRead, CanRead
  <2>4. CASE a = s /\ RunClose(s)
    <3>1. reading'[s] = FALSE /\ Run(s, "close")
      BY <1>1, <2>4, ShutDone DEF RunClose
    <3> QED
      BY <2>2, <2>4, <3>1
  <2> QED
    BY <1>4, <1>6, <2>1, <2>2, <2>3, <2>4 DEF Strand, RunSend, RunNext
<1>7. ASSUME NEW a \in Side, Network(a) \/ Expire(a)
      PROVE  CanRead(s)
  <2>1. CASE a # s
    BY <1>4, <1>7, <2>1, WriteMoves, WriteFailsMoves, ReadEndsMoves, ReadFailsMoves, ExpireMoves
       DEF Network, ReadFails
  <2>2. CASE a = s
    <3>1. Write(s) \/ WriteFails(s) \/ Expire(s) => reading' = reading
      BY DEF Write, WriteFails, Expire
    <3>2. ReadEnds(s) => tasks' = tasks /\ ~reading'[s]
      BY <1>1 DEF ReadEnds, Types, EndsType
    <3>3. ReadFails(s) => ~reading'[s]
      BY <1>1 DEF ReadFails, Types, EndsType
    <3>4. Write(s) => Post(s, "next", Nothing)
      BY DEF Write
    <3>5. WriteFails(s) \/ ReadFails(s) \/ Expire(s) => Post(s, "close", Nothing)
      BY DEF WriteFails, ReadFails, Expire
    <3> QED
      BY <1>3, <1>5, <1>7, <2>2, <3>1, <3>2, <3>3, <3>4, <3>5 DEF Network
  <2> QED
    BY <2>1, <2>2
<1>8. CASE RefuseResponse
  <2>1. Post(s, "close", Nothing) /\ (reading'[s] => reading[s])
    BY <1>8 DEF RefuseResponse, Receive, Arrived
  <2> QED
    BY <1>5, <2>1
<1>9. CASE Accept
  BY <1>4, <1>9, AcceptMoves, Sides
<1>10. CASE Destroy
  BY <1>4, <1>10, DestroyMoves, Sides
<1>11. CASE ServeGet
  BY <1>4, <1>11, ServeGetMoves, Sides
<1>12. CASE ServeSet \/ TakeResponse \/ ConnectFails \/ Break \/ OtherSet \/ UNCHANGED vars
  BY <1>3, <1>12 DEF ServeSet, TakeResponse, ConnectFails, Break, OtherSet, vars, endVars
<1> QED
  BY <1>6, <1>7, <1>8, <1>9, <1>10, <1>11, <1>12 DEF Next, Step, Dispatch

\* A client that is connecting is in the initial state; one that is open was so or
\* connects now.
LEMMA ClientSocket ==
  ASSUME Types, Ends, [Next]_vars, ~Connect
  PROVE  /\ socket'["client"] = "new" => socket["client"] = "new"
         /\ socket'["client"] = "open" => socket["client"] = "open"
<1>1. ASSUME NEW a \in Side, Moved(a), socket' = socket \/ socket'[a] = "closed" \/ a = "server"
      PROVE  /\ socket'["client"] = "new" => socket["client"] = "new"
             /\ socket'["client"] = "open" => socket["client"] = "open"
  BY <1>1, Sides DEF Moved, Apart, Kept
<1>2. ASSUME NEW a \in Side, Strand(a)
      PROVE  Moved(a) /\ (socket' = socket \/ socket'[a] = "closed")
  BY <1>2, ReadMoves, SendMoves, NextMoves, CloseMoves DEF Strand, RunRead, RunSend, RunNext
<1>3. ASSUME NEW a \in Side, Network(a) \/ Expire(a)
      PROVE  socket' = socket
  BY <1>3 DEF Network, Write, WriteFails, ReadEnds, ReadFails, Expire
<1>4. Dispatch => socket' = socket
  BY DEF Dispatch, ServeGet, ServeSet, TakeResponse, RefuseResponse, Receive
<1>5. Accept \/ Destroy => Moved("server") /\ "server" \in Side
  BY AcceptMoves, DestroyMoves, Sides
<1>6. ConnectFails => socket'["client"] = "closed"
  BY Sides DEF ConnectFails
<1>7. Break \/ OtherSet \/ UNCHANGED vars => socket' = socket
  BY DEF Break, OtherSet, vars, endVars
<1> QED
  BY <1>1, <1>2, <1>3, <1>4, <1>5, <1>6, <1>7 DEF Next, Step

\* Nothing is read.
LEMMA FlowStays ==
  ASSUME Types, Ends, Lens, [Next]_vars, ~Dispatch, ~Connect,
         NEW h, NEW d, NEW T, Flow(h, d, T)
  PROVE  Flow(h, d, T)' /\ received' = received
<1>1. program' = program /\ present \subseteq present'
  BY Flags, StoreNext
<1>2. received' = received
  BY Kinds DEF Calm, Write, OtherSet, Dispatch
<1>3. h \in Nat /\ d \in Nat /\ T \in Nat /\ Served(h) \in Nat
  <2>1. h \in Nat /\ d \in Nat /\ T \in 0..Len(program) /\ Len(program) \in Nat
    BY ProgramType DEF Flow, Types
  <2> QED
    BY <2>1, ServedType DEF Types
<1>4. Line("client", h, T)'
  <2>1. LineStays("client") /\ Line("client", h, T)
    BY LinesStay, Sides DEF Flow
  <2> QED
    BY <1>3, <2>1 DEF LineStays
<1>5. Line("server", d, Served(h))'
  <2> DEFINE N == Served(h)
  <2>1. LineStays("server") /\ Line("server", d, N)
    BY LinesStay, Sides DEF Flow
  <2>2. N' = N
    BY <1>1 DEF Served, Before
  <2>3. N \in Nat
    BY <1>3
  <2>4. Line("server", d, N)' <=>
          /\ Piped(Items("server")', pipe'["server"], d, N)
          /\ socket'["server"] # "closed" =>
               Chain(Items("server")', tasks'["server"], queue'["server"],
                     d + Len(pipe'["server"]), N)
    BY <2>2 DEF Line
  <2>5. \A n \in Nat : Line("server", d, n) =>
          /\ Piped(Items("server")', pipe'["server"], d, n)
          /\ socket'["server"] # "closed" =>
               Chain(Items("server")', tasks'["server"], queue'["server"],
                     d + Len(pipe'["server"]), n)
    BY <1>3, <2>1 DEF LineStays, Line
  <2> HIDE DEF N
  <2> QED
    BY <2>1, <2>3, <2>4, <2>5 DEF N
<1>6. SetBefore(program, h + 1)' \subseteq present'
  BY <1>1 DEF Flow
<1>7. socket'["client"] = "new" \/ CanRead("client")' => d = Len(received)
  BY CanReadNext, ClientSocket DEF Flow
<1> QED
  BY <1>1, <1>2, <1>4, <1>5, <1>6, <1>7, ClientSocket DEF Flow

LEMMA FlowConnect ==
  ASSUME Types, Ends, Lens, [Next]_vars, Connect, NEW h, NEW d, NEW T, Flow(h, d, T)
  PROVE  Flow(h, d, Len(program))' /\ received' = received
<1>1. /\ program' = program /\ present' = present /\ received' = received /\ pipe' = pipe
      /\ tooLong' = tooLong /\ socket["client"] = "new" /\ queue' = queue
      /\ socket'["client"] = "open" /\ tasks'["client"] = Loop
  BY Sides DEF Connect, storeVars, Types, EndsType
<1>2. h \in Nat /\ d \in Nat /\ T = 0 /\ Served(h) \in Nat /\ Len(program) \in Nat
  BY <1>1, ServedType, ProgramType DEF Flow, Types
<1>3. /\ Items("client")' = Items("client") /\ Items("server")' = Items("server")
      /\ Moved("client") /\ queue["client"] = <<>>
  BY <1>1, ItemsSame, ConnectMoves, Sides
<1>4. Line("client", h, Len(program))'
  <2>1. h + Len(pipe["client"]) = 0 /\ Piped(Items("client"), pipe["client"], h, 0)
    BY <1>2, LineNow, Sides DEF Flow, Line, Piped
  <2>2. Piped(Items("client"), pipe["client"], h, Len(program))
    BY <1>2, <2>1 DEF Piped
  <2>3. Chain(Items("client"), Loop, <<>>, 0, Len(program))
    BY ChainLoop DEF Types
  <2> QED
    BY <1>1, <1>3, <2>1, <2>2, <2>3 DEF Line
<1>5. Line("server", d, Served(h))'
  <2>1. Kept("server")
    BY <1>3, Sides DEF Moved, Apart
  <2>2. Served(h)' = Served(h)
    BY <1>1 DEF Served, Before
  <2> QED
    BY <1>1, <1>3, <2>1, <2>2 DEF Flow, Line, Kept
<1>6. SetBefore(program, h + 1)' \subseteq present'
  BY <1>1 DEF Flow
<1> QED
  BY <1>1, <1>2, <1>4, <1>5, <1>6 DEF Flow

\* One request more: its key is among those set before, if it is a set.
LEMMA SetBeforeNext ==
  ASSUME program \in Program, NEW i \in 1..Len(program)
  PROVE  /\ program[i].op = "set" =>
              SetBefore(program, i + 1) \subseteq SetBefore(program, i) \cup {program[i].key}
         /\ program[i].op # "set" => SetBefore(program, i + 1) \subseteq SetBefore(program, i)
<1>1. Len(program) \in Nat
  BY ProgramType
<1>2. ASSUME NEW k \in SetBefore(program, i + 1)
      PROVE  k \in SetBefore(program, i) \/ (program[i].op = "set" /\ k = program[i].key)
  <2>1. PICK j \in 1..((i + 1) - 1) : program[j].op = "set" /\ k = program[j].key
    BY DEF SetBefore
  <2>2. j \in 1..(i - 1) \/ j = i
    BY <1>1, <2>1
  <2> QED
    BY <2>1, <2>2 DEF SetBefore
<1> QED
  BY <1>2

\* What the server reads is the next request of the program.
LEMMA ServerReads ==
  ASSUME Types, Ends, Lens, [Next]_vars, Receive("server"), Kept("client"),
         NEW h, NEW d, NEW T, Flow(h, d, T)
  PROVE  /\ Line("client", h + 1, T)' /\ h + 1 \in 1..Len(program)
         /\ Arriving("server") = Sent(h + 1)
<1>1. /\ h \in Nat /\ T \in Nat /\ Line("client", h, T)
      /\ "client" \in Side /\ "server" \in Side /\ "client" = Other("server")
  <2>1. T \in 0..Len(program) /\ Len(program) \in Nat
    BY ProgramType DEF Flow, Types
  <2> QED
    BY <2>1, Sides DEF Flow
<1>2. Line("client", h + 1, T)' /\ Has(Items("client"), h + 1, Arriving("server"))
  BY <1>1, LineTaken
<1> QED
  BY <1>2, ClientItem

LEMMA NotConnect ==
  ASSUME Types, socket' = socket
  PROVE  ~Connect
BY Sides DEF Connect, Types, EndsType

LEMMA FlowServeGet ==
  ASSUME Types, Ends, Lens, [Next]_vars, ServeGet, NEW h, NEW d, NEW T, Flow(h, d, T)
  PROVE  Flow(h + 1, d, T)' /\ received' = received
<1> DEFINE m == Arriving("server")
           k == h + 1
<1>1. /\ received' = received /\ present' = present /\ length' = length /\ tooLong' = tooLong
      /\ program' = program /\ socket' = socket /\ Receive("server") /\ m.op = "get"
  BY DEF ServeGet, storeVars, Receive
<1>2. Kept("client")
  BY ServeGetMoves, Sides DEF Moved, Apart
<1>3. Line("client", k, T)' /\ k \in 1..Len(program) /\ m = Sent(k)
  BY <1>1, <1>2, ServerReads
<1>4. h \in Nat /\ d \in Nat /\ k \in Nat /\ k = h + 1 /\ Len(program) \in Nat
  <2>1. h \in Nat /\ d \in Nat
    BY DEF Flow
  <2>2. Len(program) \in Nat
    BY ProgramType DEF Types
  <2> QED
    BY <2>1, <2>2
<1> HIDE DEF m, k
<1>5. k \in Gets(program)
  BY <1>1, <1>3, ProgramType DEF Gets, Sent, Types
<1>6. Served(h) = Cardinality(Before(k)) /\ Served(h) \in Nat
  BY <1>4, ServedType DEF Served, Types
<1>7. Served(k) = Served(h) + 1
  BY <1>4, <1>5, <1>6, BeforeNext DEF Served, Types
<1>8. Has(Items("server")', Served(h) + 1, Answer(m))
  <2>1. m.key = program[k].key /\ m.nr = Number(program, k)
    BY <1>3, <1>5, GetPlace DEF Sent, Types
  <2>2. Answer(m) \in Response
    <3>1. m \in Said("client")
      BY <1>1, ReceiveDone, Sides DEF m
    <3> QED
      BY <1>1, <3>1, AnswerType DEF Said
  <2>3. m.key \in SetBefore(program, k) => Found(m.key)
    BY <1>4 DEF Flow, Found
  <2>4. m.key \in Key
    BY <2>1, <1>3, ProgramType DEF Types
  <2>5. ResponseSize(length[m.key]) > MaxMessage => tooLong
    BY <2>4 DEF Lens
  <2>6. /\ Answer(m).key = m.key /\ Answer(m).nr = m.nr /\ Answer(m).found = Found(m.key)
        /\ Answer(m).size = length[m.key]
    BY DEF Answer
  <2>7. IsAnswer(Served(h) + 1, Answer(m))
    BY <1>5, <1>6, <2>1, <2>3, <2>5, <2>6 DEF IsAnswer
  <2>8. Has(Items("server"), Served(h) + 1, Answer(m))
    BY <1>6, <2>2, <2>7, ServerItem
  <2> QED
    BY <1>1, <2>8, ItemsSame, Sides
<1>9. Line("server", d, Served(k))'
  <2>1. Served(k)' = Served(h) + 1
    BY <1>1, <1>7 DEF Served, Before
  <2>2. Line("server", d, Served(h)) /\ Items("server") \subseteq Items("server")'
    BY <1>1, ItemsSame, Sides DEF Flow
  <2> DEFINE N == Served(h)
  <2>3. N \in Nat /\ Line("server", d, N) /\ Has(Items("server")', N + 1, Answer(m))
    BY <1>6, <1>8, <2>2
  <2>4. Piped(Items("server")', pipe'["server"], d, N + 1)
        /\ (socket'["server"] # "closed" =>
              Chain(Items("server")', tasks'["server"], queue'["server"],
                    d + Len(pipe'["server"]), N + 1))
    <3>1. \A n \in Nat : Line("server", d, n) /\ Has(Items("server")', n + 1, Answer(m)) =>
            /\ Piped(Items("server")', pipe'["server"], d, n + 1)
            /\ socket'["server"] # "closed" =>
                 Chain(Items("server")', tasks'["server"], queue'["server"],
                       d + Len(pipe'["server"]), n + 1)
      BY <1>4, <2>2, LineAnswers DEF m, Line
    <3> HIDE DEF N
    <3> QED
      BY <2>3, <3>1
  <2> QED
    BY <2>1, <2>4 DEF Line
<1>10. SetBefore(program, k + 1) \subseteq present
  BY <1>3, <1>4, <1>5, SetBeforeNext, GetPlace DEF Flow, Types
<1>11. CanRead("client")' => CanRead("client")
  BY <1>1, NotConnect, CanReadNext
<1> QED
  BY <1>1, <1>3, <1>4, <1>9, <1>10, <1>11 DEF Flow, k

LEMMA FlowServeSet ==
  ASSUME Types, Ends, Lens, [Next]_vars, ServeSet, NEW h, NEW d, NEW T, Flow(h, d, T)
  PROVE  Flow(h + 1, d, T)' /\ received' = received
<1> DEFINE m == Arriving("server")
           k == h + 1
<1>1. /\ received' = received /\ program' = program /\ present' = present \cup {m.key}
      /\ UNCHANGED endVars /\ Receive("server") /\ m.op = "set"
  BY DEF ServeSet, Receive, Bind, endVars
<1>2. Kept("client") /\ Kept("server")
  BY <1>1 DEF Kept, endVars
<1>3. Line("client", k, T)' /\ k \in 1..Len(program) /\ m = Sent(k)
  BY <1>1, <1>2, ServerReads
<1>4. h \in Nat /\ d \in Nat /\ k \in Nat /\ k = h + 1 /\ Len(program) \in Nat
  <2>1. h \in Nat /\ d \in Nat
    BY DEF Flow
  <2>2. Len(program) \in Nat
    BY ProgramType DEF Types
  <2> QED
    BY <2>1, <2>2
<1> HIDE DEF m, k
<1>5. program[k].op = "set" /\ program[k].key = m.key /\ k \notin Gets(program)
  BY <1>1, <1>3 DEF Gets, Sent
<1>6. Served(k) = Served(h) /\ Served(h) \in Nat
  BY <1>4, <1>5, BeforeNext, ServedType DEF Served, Types
<1>7. Line("server", d, Served(k))'
  <2> DEFINE N == Served(h)
  <2>1. Served(k)' = N
    BY <1>1, <1>6 DEF Served, Before
  <2>2. LineStays("server")
    BY <1>1, <1>2, ReceiveDone, LineApart, Sides
  <2>3. N \in Nat /\ Line("server", d, N)
    BY <1>6 DEF Flow
  <2> HIDE DEF N
  <2>4. Piped(Items("server")', pipe'["server"], d, N)
        /\ (socket'["server"] # "closed" =>
              Chain(Items("server")', tasks'["server"], queue'["server"],
                    d + Len(pipe'["server"]), N))
    BY <1>4, <2>2, <2>3 DEF LineStays, Line
  <2> QED
    BY <2>1, <2>4 DEF Line
<1>8. SetBefore(program, k + 1) \subseteq present'
  BY <1>1, <1>3, <1>4, <1>5, SetBeforeNext DEF Flow, Types
<1>9. socket' = socket /\ (CanRead("client")' => CanRead("client"))
  BY <1>1 DEF endVars, CanRead
<1> QED
  BY <1>1, <1>3, <1>4, <1>7, <1>8, <1>9 DEF Flow, k

\* What the client reads is the answer to the next get.
LEMMA ClientReads ==
  ASSUME Types, Ends, Lens, [Next]_vars, Receive("client"), Kept("server"),
         NEW h, NEW d, NEW T, Flow(h, d, T)
  PROVE  /\ Line("server", d + 1, Served(h))' /\ d = Len(received) /\ d + 1 <= Served(h)
         /\ IsAnswer(d + 1, Arriving("client")) /\ Arriving("client") \in Response
<1>1. /\ h \in Nat /\ d \in Nat /\ Served(h) \in Nat /\ Line("server", d, Served(h))
      /\ "client" \in Side /\ "server" \in Side /\ "server" = Other("client")
  BY ServedType, Sides DEF Flow, Types
<1> DEFINE N == Served(h)
<1>2. Has(Items("server"), d + 1, Arriving("client")) /\ d + 1 <= N
  <2> HIDE DEF N
  <2> QED
    BY <1>1, LineTaken DEF N
<1>3. Line("server", d + 1, Served(h))'
  <2>1. Served(h)' = N
    BY Flags DEF Served, Before
  <2>2. N \in Nat /\ Line("server", d, N)
    BY <1>1
  <2>3. \A n \in Nat : Line("server", d, n) =>
          /\ Piped(Items("server")', pipe'["server"], d + 1, n)
          /\ socket'["server"] # "closed" =>
               Chain(Items("server")', tasks'["server"], queue'["server"],
                     (d + 1) + Len(pipe'["server"]), n)
    BY <1>1, LineTaken DEF Line
  <2> HIDE DEF N
  <2> QED
    BY <2>1, <2>2, <2>3 DEF Line
<1>4. d = Len(received)
  BY DEF Flow, Receive, Arrived, CanRead
<1> QED
  BY <1>2, <1>3, <1>4, ServerItem

LEMMA FlowTake ==
  ASSUME Types, Ends, Lens, [Next]_vars, Answered, TakeResponse,
         NEW h, NEW d, NEW T, Flow(h, d, T)
  PROVE  Flow(h, d + 1, T)' /\ Answered'
<1> DEFINE m == Arriving("client")
<1>1. /\ received' = Append(received, m) /\ program' = program /\ present' = present
      /\ tooLong' = tooLong /\ UNCHANGED endVars /\ Receive("client")
  BY DEF TakeResponse, Receive, storeVars, endVars
<1>2. Kept("client") /\ Kept("server")
  BY <1>1 DEF Kept, endVars
<1>3. /\ Line("server", d + 1, Served(h))' /\ d = Len(received)
      /\ IsAnswer(d + 1, m) /\ m \in Response
  BY <1>1, <1>2, ClientReads
<1> HIDE DEF m
<1>4. h \in Nat /\ d \in Nat /\ T \in Nat /\ received \in Seq(Response)
  <2>1. T \in 0..Len(program) /\ Len(program) \in Nat
    BY ProgramType DEF Flow, Types
  <2> QED
    BY <2>1 DEF Flow, Types
<1>5. /\ Len(received') = d + 1 /\ DOMAIN received' = 1..(d + 1) /\ received'[d + 1] = m
      /\ DOMAIN received = 1..d /\ \A n \in 1..d : received'[n] = received[n]
  BY <1>1, <1>3, <1>4, Appended
<1>6. Answered'
  <2>1. ASSUME NEW n \in 1..(d + 1)
        PROVE  IsAnswer(n, received'[n])
    <3>1. CASE n = d + 1
      BY <1>3, <1>5, <3>1
    <3>2. CASE n # d + 1
      <4>1. n \in 1..d
        BY <1>4, <3>2
      <4> QED
        BY <1>5, <4>1 DEF Answered
    <3> QED
      BY <3>1, <3>2
  <2>2. ASSUME NEW n \in 1..(d + 1)
        PROVE  IsAnswer(n, received[n])'
    BY <1>1, <2>1 DEF IsAnswer, Before
  <2> QED
    BY <1>5, <2>2 DEF Answered
<1>7. Line("client", h, T)'
  <2>1. LineStays("client") /\ Line("client", h, T)
    BY <1>1, <1>2, ReceiveDone, LineApart, Sides DEF Flow
  <2> QED
    BY <1>4, <2>1 DEF LineStays
<1>8. socket' = socket
  BY <1>1 DEF endVars
<1>9. socket["client"] # "new"
  BY <1>1, EndNow, Sides DEF Receive, Arrived
<1> QED
  BY <1>1, <1>3, <1>4, <1>5, <1>6, <1>7, <1>8, <1>9 DEF Flow

LEMMA FlowRefuse ==
  ASSUME Types, Ends, Lens, [Next]_vars, RefuseResponse,
         NEW h, NEW d, NEW T, Flow(h, d, T)
  PROVE  Flow(h, d + 1, T)' /\ received' = received /\ tooLong
<1> DEFINE m == Arriving("client")
<1>1. /\ received' = received /\ program' = program /\ present' = present
      /\ tooLong' = tooLong /\ socket' = socket /\ queue' = queue /\ Receive("client")
      /\ reading' = [reading EXCEPT !["client"] = FALSE] /\ writing' = writing
      /\ Post("client", "close", Nothing) /\ ResponseSize(m.size) > MaxMessage
  BY DEF RefuseResponse, Receive, storeVars
<1>2. /\ "client" \in Side /\ reading["client"] /\ socket["client"] = "open"
      /\ Task("close", Nothing) \in TaskOf("client") /\ ~HasOp(tasks["client"], "read")
      /\ pipe'["client"] = pipe["client"]
  <2>1. "client" \in Side /\ reading["client"]
    BY <1>1, Sides DEF Receive, Arrived
  <2> QED
    BY <1>1, <2>1, EndNow, TaskTypes, ReceiveDone DEF EndOK
<1>3. Moved("client")
  BY <1>1, <1>2, ReadFailsMoves
<1>4. /\ Line("server", d + 1, Served(h))' /\ d = Len(received) /\ IsAnswer(d + 1, m)
  BY <1>1, <1>3, ClientReads, Sides DEF Moved, Apart
<1> HIDE DEF m
<1>5. tooLong
  BY <1>1, <1>4 DEF IsAnswer
<1>6. h \in Nat /\ d \in Nat /\ T \in Nat
  <2>1. T \in 0..Len(program) /\ Len(program) \in Nat
    BY ProgramType DEF Flow, Types
  <2> QED
    BY <2>1 DEF Flow
<1>7. Line("client", h, T)'
  <2>1. Items("client") \subseteq Items("client")'
    BY <1>1, <1>2, ItemsGrow
  <2>2. LineStays("client") /\ Line("client", h, T)
    BY <1>1, <1>2, <2>1, LinePost DEF Flow
  <2> QED
    BY <1>6, <2>2 DEF LineStays
<1>8. ~CanRead("client")'
  <2>1. ~reading'["client"]
    BY <1>1, <1>2 DEF Types, EndsType
  <2>2. ~HasOp(tasks'["client"], "read")
    BY <1>1, <1>2, PostOps
  <2> QED
    BY <2>1, <2>2 DEF CanRead
<1> QED
  BY <1>1, <1>2, <1>4, <1>5, <1>6, <1>7, <1>8 DEF Flow

LEMMA FlowNext ==
  ASSUME Types, Ends, Lens, Answered, [Next]_vars, NEW h, NEW d, NEW T, Flow(h, d, T)
  PROVE  (\E h2, d2, T2 : Flow(h2, d2, T2)') /\ Answered'
<1>1. ASSUME received' = received
      PROVE  Answered'
  BY <1>1, Flags, StoreNext, AnswerKept DEF Answered
<1>2. CASE ServeGet
  BY <1>1, <1>2, FlowServeGet
<1>3. CASE ServeSet
  BY <1>1, <1>3, FlowServeSet
<1>4. CASE TakeResponse
  BY <1>4, FlowTake
<1>5. CASE RefuseResponse
  BY <1>1, <1>5, FlowRefuse
<1>6. CASE Connect
  BY <1>1, <1>6, FlowConnect
<1>7. CASE ~Dispatch /\ ~Connect
  BY <1>1, <1>7, FlowStays
<1> QED
  BY <1>2, <1>3, <1>4, <1>5, <1>6, <1>7 DEF Dispatch

LEMMA FlowCount ==
  ASSUME Types, NEW h, NEW d, NEW T, Flow(h, d, T)
  PROVE  /\ Len(received) \in Nat /\ Cardinality(Gets(program)) \in Nat
         /\ Len(received) <= Cardinality(Gets(program))
<1>1. /\ Len(received) \in Nat /\ Cardinality(Gets(program)) \in Nat
  BY GetsFinite, LenProperties DEF Types
<1>2. d + Len(pipe["server"]) <= Served(h)
  BY DEF Flow, Line, Piped
<1>3. Len(pipe["server"]) \in Nat /\ d \in Nat
  BY LineNow, Sides DEF Flow
<1>4. Served(h) \in Nat /\ Served(h) <= Cardinality(Gets(program))
  BY ServedType DEF Types, Flow
<1>5. Len(received) <= d
  BY DEF Flow
<1> QED
  BY <1>1, <1>2, <1>3, <1>4, <1>5

-----------------------------------------------------------------------------
(* No end is closed before the client has all its responses.               *)

\* The excuses for a client that is closed.
Done == broken \/ tooLong \/ Len(received) = Cardinality(Gets(program))

EndAlive(s) ==
  /\ socket[s] # "closed" /\ ~HasOp(tasks[s], "close")
  /\ socket[s] = "open" => CanRead(s)

Alive == Done \/ \A s \in Side : EndAlive(s)

LEMMA DoneNext ==
  ASSUME Types, Ends, Lens, Answered, [Next]_vars, NEW h, NEW d, NEW T, Flow(h, d, T), Done
  PROVE  Done'
<1>1. (broken => broken') /\ (tooLong => tooLong') /\ program' = program
  BY Flags, StoreNext
<1>2. CASE Len(received) = Cardinality(Gets(program))
  <2>1. CASE TakeResponse
    <3>1. Receive("client") /\ Kept("server")
      BY <2>1 DEF TakeResponse, Receive, Kept
    <3>2. d = Len(received) /\ d + 1 <= Served(h)
      BY <3>1, ClientReads
    <3>3. Served(h) \in Nat /\ Served(h) <= Cardinality(Gets(program))
      BY ServedType DEF Types, Flow
    <3> QED
      BY <1>2, <3>2, <3>3, FlowCount
  <2>2. CASE ~TakeResponse
    <3>1. received' = received
      BY <2>2, Kinds DEF Calm, Write, ServeGet, ServeSet, RefuseResponse, OtherSet
    <3> QED
      BY <1>1, <1>2, <3>1 DEF Done
  <2> QED
    BY <2>1, <2>2
<1> QED
  BY <1>1, <1>2 DEF Done

\* The idle timer expires when all has been answered.
LEMMA QuietDone ==
  ASSUME Types, Ends, NEW h, NEW d, NEW T, Flow(h, d, T), Quiet, \A s \in Side : EndAlive(s)
  PROVE  Done
<1>1. SUFFICES ASSUME ~broken
               PROVE  Len(received) = Cardinality(Gets(program))
  BY DEF Done
<1>2. \A s \in Side : socket[s] = "open" /\ Other(s) \in Side
  BY Sides DEF Quiet, EndAlive, Types, EndsType
<1>3. \A s \in Side : tasks[s] = <<>> /\ reading[s]
  BY <1>2 DEF Quiet, EndAlive, CanRead, HasOp
<1>4. \A s \in Side : pipe[s] = <<>>
  BY <1>2, <1>3, Sides DEF Quiet, Arrived
<1>5. Len(<<>>) = 0
  BY EmptySeq
<1>6. \A s \in Side : ~writing[s]
  <2> TAKE s \in Side
  <2>1. ~Gone(s)
    BY <1>1, <1>2 DEF Gone
  <2>2. Len(pipe[s]) < Capacity
    BY <1>4, <1>5, SessionAssumption
  <2> QED
    BY <2>1, <2>2 DEF Quiet, CanWrite
<1>7. \A s \in Side : queue[s] = <<>>
  <2> TAKE s \in Side
  <2>1. EndOK(socket[s], tasks[s], queue[s], writing[s], reading[s])
    BY EndNow
  <2>2. ~HasOp(tasks[s], "next") /\ ~HasOp(tasks[s], "close")
    BY <1>3 DEF HasOp
  <2> QED
    BY <1>2, <1>6, <2>1, <2>2 DEF EndOK
<1>8. "client" \in Side /\ "server" \in Side
  BY Sides
<1>9. T = Len(program) /\ h \in Nat /\ d \in Nat /\ Len(program) \in Nat /\ d = Len(received)
  BY <1>2, <1>3, <1>8, ProgramType DEF Flow, CanRead, Types
<1>10. h = Len(program)
  <2>1. Chain(Items("client"), <<>>, <<>>, h + 0, Len(program))
    BY <1>2, <1>3, <1>4, <1>5, <1>7, <1>8, <1>9 DEF Flow, Line
  <2>2. h + 0 = h
    BY <1>9
  <2> QED
    BY <1>9, <2>1, <2>2, ChainEmpty
<1>11. d = Served(h)
  <2>1. Chain(Items("server"), <<>>, <<>>, d + 0, Served(h)) /\ d + 0 = d
    BY <1>2, <1>3, <1>4, <1>5, <1>7, <1>8, <1>9 DEF Flow, Line
  <2>2. Served(h) \in Nat
    BY <1>9, ServedType DEF Types
  <2> QED
    BY <1>9, <2>1, <2>2, ChainEmpty
<1>12. Before(h + 1) = Gets(program)
  <2>1. \A j \in Gets(program) : j < h + 1
    BY <1>9, <1>10, GetPlace DEF Types
  <2> QED
    BY <2>1 DEF Before
<1> QED
  BY <1>9, <1>11, <1>12 DEF Served

\* The end that moves stays alive, and nothing changes at the other end.
LEMMA AliveMoved ==
  ASSUME \A s \in Side : EndAlive(s), NEW a \in Side, Moved(a), EndAlive(a)'
  PROVE  Alive'
<1>1. ASSUME NEW s \in Side, s # a
      PROVE  EndAlive(s)'
  BY <1>1 DEF Moved, Apart, Kept, EndAlive, CanRead
<1> QED
  BY <1>1 DEF Alive

LEMMA AliveNext ==
  ASSUME Types, Ends, Lens, Answered, [Next]_vars, Alive, NEW h, NEW d, NEW T, Flow(h, d, T)
  PROVE  Alive'
<1>1. CASE Done
  BY <1>1, DoneNext DEF Alive
<1>2. CASE ~Done
  <2> USE DEF EndAlive, CanRead
  <2>1. (\A s \in Side : EndAlive(s)) /\ ~broken
    BY <1>2 DEF Alive, Done
  <2>2. ASSUME NEW s \in Side
        PROVE  /\ socket[s] \in {"new", "open"} /\ socket[Other(s)] # "closed" /\ ~Gone(s)
               /\ ~HasOp(tasks[s], "close") /\ (socket[s] = "open" => CanRead(s))
               /\ reading[s] \in BOOLEAN
    BY <2>1, Sides DEF Types, EndsType, Gone
  <2>3. ASSUME UNCHANGED endVars
        PROVE  Alive'
    BY <2>1, <2>3 DEF endVars, Alive
  \* A task is posted that is not a close.
  <2>4. ASSUME NEW a \in Side, Moved(a), NEW op \in {"send", "next"}, NEW m,
               Task(op, m) \in TaskOf(a), Post(a, op, m), socket' = socket, reading' = reading
        PROVE  Alive'
    <3>1. /\ HasOp(tasks'[a], "close") <=> HasOp(tasks[a], "close")
          /\ HasOp(tasks'[a], "read") <=> HasOp(tasks[a], "read")
      BY <2>4, PostOps
    <3>2. EndAlive(a)'
      BY <2>2, <2>4, <3>1
    <3> QED
      BY <2>1, <2>4, <3>2, AliveMoved
  \* A task is run that is neither a read nor a close.
  <2>5. ASSUME NEW a \in Side, Moved(a), NEW op \in {"send", "next"}, Run(a, op),
               socket' = socket, reading' = reading
        PROVE  Alive'
    <3>1. /\ HasOp(tasks'[a], "close") <=> HasOp(tasks[a], "close")
          /\ HasOp(tasks'[a], "read") <=> HasOp(tasks[a], "read")
      BY <2>5, RunOps
    <3>2. EndAlive(a)'
      BY <2>2, <2>5, <3>1
    <3> QED
      BY <2>1, <2>5, <3>2, AliveMoved
  <2>6. ASSUME NEW a \in Side, RunRead(a)
        PROVE  Alive'
    <3>1. Run(a, "read") /\ socket' = socket /\ Moved(a)
      BY <2>6, ReadMoves DEF RunRead
    <3>2. HasOp(tasks'[a], "close") <=> HasOp(tasks[a], "close")
      BY <3>1, RunOps
    <3>3. socket[a] = "open" => reading'[a]
      BY <2>6 DEF RunRead, Types, EndsType
    <3>4. EndAlive(a)'
      BY <2>2, <3>1, <3>2, <3>3
    <3> QED
      BY <2>1, <3>1, <3>4, AliveMoved
  <2>7. ASSUME NEW a \in Side, RunClose(a)
        PROVE  FALSE
    <3>1. HasOp(tasks[a], "close")
      BY <2>7, RunOps DEF RunClose
    <3> QED
      BY <2>2, <3>1
  <2>8. ASSUME NEW a \in Side, Strand(a)
        PROVE  Alive'
    <3>1. RunSend(a) => Run(a, "send") /\ socket' = socket /\ reading' = reading
      BY DEF RunSend
    <3>2. RunNext(a) => Run(a, "next") /\ socket' = socket /\ reading' = reading
      BY DEF RunNext
    <3> QED
      BY <2>5, <2>6, <2>7, <2>8, <3>1, <3>2, SendMoves, NextMoves DEF Strand
  <2>9. ASSUME NEW a \in Side, Network(a)
        PROVE  Alive'
    <3>1. ~WriteFails(a) /\ ~ReadEnds(a) /\ ~ReadFails(a)
      BY <2>2 DEF WriteFails, ReadEnds, ReadFails
    <3>2. Write(a)
      BY <2>9, <3>1 DEF Network
    <3>3. /\ Moved(a) /\ Post(a, "next", Nothing) /\ Task("next", Nothing) \in TaskOf(a)
          /\ socket' = socket /\ reading' = reading
      BY <3>2, WriteMoves, TaskTypes DEF Write
    <3> QED
      BY <2>4, <3>3
  <2>10. ASSUME NEW a \in Side, Expire(a)
         PROVE  FALSE
    BY <1>2, <2>1, <2>10, QuietDone DEF Expire
  <2>11. CASE ServeGet
    <3> DEFINE m == Answer(Arriving("server"))
    <3>1. /\ Moved("server") /\ Post("server", "send", m) /\ "server" \in Side
          /\ Task("send", m) \in TaskOf("server") /\ socket' = socket /\ reading' = reading
      BY <2>11, ServeGetMoves, Sides DEF ServeGet, Receive
    <3> HIDE DEF m
    <3> QED
      BY <2>4, <3>1
  <2>12. CASE ServeSet \/ TakeResponse \/ OtherSet \/ UNCHANGED vars
    BY <2>3, <2>12 DEF ServeSet, TakeResponse, Receive, OtherSet, vars, endVars
  <2>13. CASE RefuseResponse
    BY <1>2, <2>13, FlowRefuse DEF Done
  <2>14. CASE Connect
    <3>1. /\ socket'["client"] = "open" /\ tasks'["client"] = Loop /\ "client" \in Side
          /\ Moved("client")
      BY <2>14, ConnectMoves, Sides DEF Connect, Types, EndsType
    <3>2. EndAlive("client")'
      BY <3>1, LoopOps DEF Types
    <3> QED
      BY <2>1, <3>1, <3>2, AliveMoved
  <2>15. CASE ConnectFails
    BY <2>15 DEF ConnectFails, Alive, Done
  <2>16. CASE Accept
    <3>1. /\ socket'["server"] = "open" /\ Post("server", "read", Nothing) /\ "server" \in Side
          /\ Moved("server") /\ Task("read", Nothing) \in TaskOf("server")
      BY <2>16, AcceptMoves, TaskTypes, Sides DEF Accept, Types, EndsType
    <3>2. HasOp(tasks'["server"], "read")
          /\ (HasOp(tasks'["server"], "close") <=> HasOp(tasks["server"], "close"))
      BY <3>1, PostOps
    <3>3. EndAlive("server")'
      BY <2>2, <3>1, <3>2
    <3> QED
      BY <2>1, <3>1, <3>3, AliveMoved
  <2>17. ~Destroy
    <3>1. ASSUME Destroy
          PROVE  FALSE
      <4>1. /\ "server" \in Side /\ socket["server"] = "open" /\ ~reading["server"]
            /\ \A i \in DOMAIN tasks["server"] : tasks["server"][i].op = "send"
        BY <3>1, Sides DEF Destroy, Forsaken
      <4>2. ~HasOp(tasks["server"], "read")
        BY <4>1 DEF HasOp
      <4> QED
        BY <2>2, <4>1, <4>2
    <3> QED
      BY <3>1
  <2>18. CASE Break
    BY <2>18 DEF Break, Alive, Done
  <2> QED
    BY <2>8, <2>9, <2>10, <2>11, <2>12, <2>13, <2>14, <2>15, <2>16, <2>17, <2>18
       DEF Next, Step, Dispatch
<1> QED
  BY <1>1, <1>2

-----------------------------------------------------------------------------
(* The inductive invariant.                                                *)

Inv ==
  /\ Types /\ Ends /\ Lens
  /\ Answered /\ \E h, d, T : Flow(h, d, T)
  /\ Alive

LEMMA InitInv == Init => Inv
<1> SUFFICES ASSUME Init
             PROVE  Inv
  OBVIOUS
<1>1. /\ program \in Program /\ socket = [s \in Side |-> "new"]
      /\ tasks = [s \in Side |-> <<>>] /\ queue = [s \in Side |-> <<>>]
      /\ writing = [s \in Side |-> FALSE] /\ reading = [s \in Side |-> FALSE]
      /\ pipe = [s \in Side |-> <<>>] /\ received = <<>>
      /\ present = {} /\ length = [k \in Key |-> NotFound] /\ tooLong = FALSE
      /\ broken = FALSE /\ ub = FALSE /\ others = 0
  BY DEF Init
<1>2. \A S : <<>> \in Seq(S) /\ Len(<<>>) = 0 /\ DOMAIN <<>> = {}
  BY EmptySeq
<1>3. Types
  <2>1. EndsType
    BY <1>1, <1>2 DEF EndsType
  <2>2. PipesType
    BY <1>1, <1>2, SessionAssumption DEF PipesType
  <2>3. StoreType
    <3>1. NotFound \in Nat
      BY DEF NotFound
    <3>2. [k \in Key |-> NotFound] \in [Key -> Nat]
      BY <3>1
    <3>3. MaxOthers \in Nat /\ 0 \in 0..MaxOthers
      BY SessionAssumption
    <3> QED
      BY <1>1, <3>2, <3>3 DEF StoreType
  <2> QED
    BY <1>1, <1>2, <2>1, <2>2, <2>3 DEF Types
<1>4. \A o : ~HasOp(<<>>, o) /\ Once(<<>>, o)
  BY <1>2 DEF HasOp, Once
<1>5. Ends
  BY <1>1, <1>4, Sides DEF Ends, EndOK
<1>6. Lens
  <2>1. ResponseSize(NotFound) <= MaxMessage
    BY SessionAssumption
  <2>2. ResponseSize(NotFound) \in Int /\ MaxMessage \in Int
    BY SessionAssumption DEF ResponseSize, NotFound
  <2> QED
    BY <1>1, <2>1, <2>2 DEF Lens
<1>7. Answered
  BY <1>1, <1>2 DEF Answered
<1>8. Flow(0, 0, 0)
  <2>1. Len(program) \in Nat
    BY <1>1, ProgramType
  <2>2. Before(0 + 1) = {}
    <3>1. \A j \in Gets(program) : ~(j < 0 + 1)
      BY <1>1, GetPlace
    <3> QED
      BY <3>1 DEF Before
  <2>3. Served(0) = 0
    BY <2>2, FS_EmptySet DEF Served
  <2>4. SetBefore(program, 0 + 1) = {}
    BY DEF SetBefore
  <2>5. \A I : Chain(I, <<>>, <<>>, 0 + 0, 0) /\ Piped(I, <<>>, 0, 0)
    <3> TAKE I
    <3> DEFINE num == [i \in 0..0 |-> 0]
    <3>1. num \in [0..0 -> 0..0] /\ num[0] = 0
      OBVIOUS
    <3> HIDE DEF num
    <3>2. Numbering(I, <<>>, <<>>, 0 + 0, 0, 0, num)
      BY <1>2, <1>4, <3>1 DEF Numbering
    <3> QED
      BY <1>2, <3>2 DEF Chain, Piped
  <2>6. Line("client", 0, 0) /\ Line("server", 0, 0)
    BY <1>1, <1>2, <2>5, Sides DEF Line
  <2> QED
    BY <1>1, <1>2, <2>1, <2>3, <2>4, <2>6, Sides DEF Flow
<1>9. Alive
  BY <1>1, <1>4 DEF Alive, EndAlive
<1> QED
  BY <1>3, <1>5, <1>6, <1>7, <1>8, <1>9 DEF Inv

LEMMA StepInv == Inv /\ [Next]_vars => Inv'
<1> SUFFICES ASSUME Inv, [Next]_vars
             PROVE  Inv'
  OBVIOUS
<1>1. PICK h, d, T : Flow(h, d, T)
  BY DEF Inv
<1>2. Types' /\ Ends' /\ Lens'
  BY TypesNext, EndsNext, StoreNext DEF Inv
<1>3. (\E h2, d2, T2 : Flow(h2, d2, T2)') /\ Answered'
  BY <1>1, FlowNext DEF Inv
<1>4. Alive'
  BY <1>1, AliveNext DEF Inv
<1> QED
  BY <1>2, <1>3, <1>4 DEF Inv

\* Every state that a session reaches satisfies the invariant from which the properties
\* below follow: what is on its way in either direction is numbered without a gap, what
\* was answered was answered to the right get, and neither end gives up before the last.
THEOREM Invariance == Spec => []Inv
BY InitInv, StepInv, PTL DEF Spec

-----------------------------------------------------------------------------
(* The properties.                                                         *)

LEMMA SeqOfMore ==
  ASSUME NEW S, NEW R, S \subseteq R, NEW q \in Seq(S)
  PROVE  q \in Seq(R)
<1>1. Len(q) \in Nat /\ q \in [1..Len(q) -> R]
  BY LenProperties
<1> QED
  BY <1>1, SeqDef

\* Queues, pipes and tasks hold only requests of the one and responses of the other
\* end, pipes never more than they can, and a write is under way only if there is
\* something to write.
THEOREM Typed == Spec => []TypeOK
<1>1. Inv => TypeOK
  <2> SUFFICES ASSUME Inv
               PROVE  TypeOK
    OBVIOUS
  <2>1. Types /\ Ends
    BY DEF Inv
  <2>2. ASSUME NEW s \in Side
        PROVE  /\ queue[s] \in Seq(Sends(s)) /\ pipe[s] \in Seq(Sends(s))
               /\ Len(pipe[s]) <= Capacity /\ (writing[s] => queue[s] # <<>>)
               /\ \A i \in DOMAIN tasks[s] :
                    \/ tasks[s][i].op \in {"read", "next", "close"}
                    \/ tasks[s][i].op = "send" /\ tasks[s][i].msg \in Sends(s)
    <3>1. Said(s) \subseteq Sends(s)
      BY DEF Said, Sends
    <3>2. queue[s] \in Seq(Said(s)) /\ pipe[s] \in Seq(Said(s)) /\ Len(pipe[s]) <= Capacity
            /\ tasks[s] \in Seq(TaskOf(s))
      BY <2>1 DEF Types, EndsType, PipesType
    <3>3. writing[s] => queue[s] # <<>>
      BY <2>1, EndNow DEF EndOK
    <3>4. \A i \in DOMAIN tasks[s] : tasks[s][i] \in TaskOf(s)
      BY <3>2, LenProperties
    <3>5. \A i \in DOMAIN tasks[s] :
            \/ tasks[s][i].op \in {"read", "next", "close"}
            \/ tasks[s][i].op = "send" /\ tasks[s][i].msg \in Said(s)
      BY <3>4 DEF TaskOf
    <3>6. queue[s] \in Seq(Sends(s)) /\ pipe[s] \in Seq(Sends(s))
      BY <3>1, <3>2, SeqOfMore
    <3> QED
      BY <3>1, <3>2, <3>3, <3>5, <3>6
  <2> QED
    BY <2>1, <2>2 DEF TypeOK, Types, EndsType, StoreType
<1> QED
  BY <1>1, Invariance, PTL

LEMMA AskedIs ==
  ASSUME program \in Program, NEW i \in Gets(program), NEW n, n = Cardinality(Before(i)) + 1
  PROVE  Asked(n) = i
<1>1. i \in Nat /\ Cardinality(Before(i)) \in Nat
  BY GetPlace, GetsFinite
<1>2. Cardinality(Before(i)) = n - 1
  BY <1>1
<1>3. ASSUME NEW j \in Gets(program), Cardinality(Before(j)) = n - 1
      PROVE  j = i
  BY <1>2, <1>3, PlaceUnique
<1>4. Asked(n) = CHOOSE j \in Gets(program) : Cardinality(Before(j)) = n - 1
  BY DEF Asked, Before
<1> QED
  BY <1>2, <1>3, <1>4

LEMMA AnswerAsked ==
  ASSUME Inv, NEW n \in DOMAIN received
  PROVE  /\ received[n].key = program[Asked(n)].key
         /\ received[n].nr = Number(program, Asked(n))
         /\ received[n].key \in SetBefore(program, Asked(n)) => received[n].found
<1>1. PICK i \in Gets(program) :
        /\ Cardinality(Before(i)) + 1 = n
        /\ received[n].key = program[i].key /\ received[n].nr = Number(program, i)
        /\ received[n].key \in SetBefore(program, i) => received[n].found
  BY DEF Inv, Answered, IsAnswer
<1>2. Asked(n) = i
  BY <1>1, AskedIs DEF Inv, Types
<1> QED
  BY <1>1, <1>2

\* Over two pipes of any capacity and however the two ends interleave, the n-th
\* response that the client is given has the key and the number of its n-th get,
\* also when numbers are used again, and there are never more than gets.
THEOREM ResponsesMatch == Spec => []Matched
<1>1. Inv => Matched
  <2> SUFFICES ASSUME Inv
               PROVE  Matched
    OBVIOUS
  <2>1. Len(received) <= Cardinality(Gets(program))
    BY FlowCount DEF Inv
  <2> QED
    BY <2>1, AnswerAsked DEF Matched
<1> QED
  BY <1>1, Invariance, PTL

\* Requests are handled in the order in which the client made them, and nothing is
\* ever removed from the store: a get finds what the same session has set before.
THEOREM SessionSeesItsSets == Spec => []OwnSetsSeen
<1>1. Inv => OwnSetsSeen
  BY AnswerAsked DEF OwnSetsSeen
<1> QED
  BY <1>1, Invariance, PTL

\* The client reads all the time and the server never stops to: whatever the pipes
\* hold, the client is not closed before its last response, unless the network broke
\* or a value was stored whose response is refused.
THEOREM ClosedWhenAnswered == Spec => []AnsweredBeforeClose
<1>1. Inv => AnsweredBeforeClose
  BY Sides DEF Inv, Alive, Done, EndAlive, AnsweredBeforeClose
<1> QED
  BY <1>1, Invariance, PTL
=============================================================================
