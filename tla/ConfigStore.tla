------------------------------ MODULE ConfigStore ------------------------------
(***************************************************************************)
(* The configuration store of the server: class config_store with its      *)
(* immer::atom root, and the part of server_dispatcher that calls it.      *)
(* Pool threads run get and set concurrently, the save timer's handler     *)
(* runs flush_if_dirty, main loads the file at start-up.                   *)
(*                                                                         *)
(* One action is one step that another thread can observe: an atomic       *)
(* operation, a critical section of the atom's spinlock, or one access to  *)
(* the plain std::string inside an entry.  The map in the atom is          *)
(* persistent and never changes; the entries it points to are shared by    *)
(* all its versions and do change.                                         *)
(***************************************************************************)
EXTENDS Naturals, FiniteSets

CONSTANTS
  Key,        \* keys that clients use
  Junk,       \* a key read from uninitialised memory by load_into
  Value,      \* values that clients send, none of them the empty string
  Empty,      \* the empty string: a new entry, or a moved-from argument
  Torn,       \* a string that was read or written during another write
  Entry,      \* addresses that make_shared<entry> may return
  Worker,     \* connections whose read handlers run in the thread pool
  Nil,
  MaxCalls,   \* bound: get and set calls in a behaviour
  MaxCrash    \* bound: ends of the process, by a kill or by std::terminate

AllKey  == Key \cup {Junk}
Content == Value \cup {Empty, Torn}

ASSUME ConstAssumption ==
  /\ Junk \notin Key
  /\ Empty \notin Value /\ Torn \notin Value /\ Empty # Torn
  /\ Nil \notin Content \cup Entry \cup AllKey
  /\ MaxCalls \in Nat /\ MaxCrash \in Nat

VARIABLES
  up,         \* the server process runs
  root,       \* the map in the atom: key -> entry, Nil if the key is absent
  ver,        \* identity of the box holder that the atom points to
  heap,       \* the entries: value, reads, writes
  raced,      \* entries on which two move-assignments have overlapped
  dirty,      \* dirty_
  get_total, set_total,
  pc, loc,    \* where each handler is, and its local variables
  resp,       \* the last response each connection was sent
  saver,      \* the handler of save_timer_: flush_if_dirty
  file,       \* config.dat
  bootClean,  \* history: load_into met no truncated file
  calls, crashes

memVars   == <<root, ver, heap, raced>>
statVars  == <<dirty, get_total, set_total>>
workVars  == <<pc, loc, resp>>
procVars  == <<up, bootClean, crashes>>
vars == <<memVars, statVars, workVars, saver, file, procVars, calls>>
-----------------------------------------------------------------------------
NoMap    == [k \in AllKey |-> Nil]
NewEntry == [value |-> Empty, reads |-> 0, writes |-> 0]
NoLocal  == [key |-> Nil, arg |-> Nil, oldv |-> 0, snap |-> NoMap,
             ent |-> Nil, reads |-> 0, writes |-> 0]
NoResp   == [key |-> Nil, value |-> Nil, reads |-> 0, writes |-> 0]
IdleSaver == [pc |-> "wait", snap |-> NoMap, todo |-> {}, cur |-> Nil, size |-> Nil]
NoFile   == [state |-> "absent", rec |-> NoMap]

Applying == {"s_move", "s_count", "s_cas"}
Setting  == {"s_load", "s_apply", "s_stat", "s_dirty"} \cup Applying
Getting  == {"g_load", "g_count", "g_stat", "g_reads", "g_writes", "g_value"}

Bound     == {k \in AllKey : root[k] # Nil}
Allocated == {root[k] : k \in Bound}
               \cup {loc[w].ent : w \in {v \in Worker : pc[v] \in Applying}}

\* The threads inside entry_->value = std::move(value) on entry e.
Writers(e) == {w \in Worker : pc[w] = "s_move" /\ loc[w].ent = e}

\* What a read of the plain string finds: a write in progress is a data race.
Visible(e) == IF Writers(e) = {} THEN heap[e].value ELSE Torn

Init ==
  /\ up = FALSE
  /\ root = NoMap /\ ver = 0 /\ raced = {}
  /\ heap = [e \in Entry |-> NewEntry]
  /\ dirty = FALSE /\ get_total = 0 /\ set_total = 0
  /\ pc = [w \in Worker |-> "idle"]
  /\ loc = [w \in Worker |-> NoLocal]
  /\ resp = [w \in Worker |-> NoResp]
  /\ saver = IdleSaver
  /\ file \in {NoFile} \cup
       {[state |-> "whole", rec |-> r] :
          r \in {f \in [AllKey -> Value \cup {Nil}] : f[Junk] = Nil}}
  /\ bootClean = TRUE
  /\ calls = 0 /\ crashes = 0
-----------------------------------------------------------------------------
(* config_store(file): load_into, on one thread, before the pool starts.   *)

\* A truncated file leaves size, key_size or value_size uninitialised: the
\* record that was cut may come up as its key with an unread value, and
\* further iterations add keys of zero bytes.
JunkLoads ==
  IF file.state # "cut" THEN {{}}
  ELSE {s \in SUBSET {k \in AllKey : file.rec[k] = Nil} :
          Cardinality(s \ {Junk}) <= 1}

Start ==
  /\ ~up
  /\ \E junk \in JunkLoads, r \in [AllKey -> Entry \cup {Nil}] :
       /\ \A k \in AllKey : r[k] # Nil <=> k \in junk \/ file.rec[k] # Nil
       /\ \A j, k \in AllKey : r[j] = r[k] /\ r[k] # Nil => j = k
       /\ root' = r
       /\ heap' = [e \in Entry |->
            IF \A k \in AllKey : r[k] # e THEN NewEntry
            ELSE LET k == CHOOSE k \in AllKey : r[k] = e
                 IN [NewEntry EXCEPT !.value =
                       IF k \in junk THEN Torn ELSE file.rec[k]]]
  /\ up' = TRUE
  /\ ver' = 1
  /\ bootClean' = (file.state # "cut")
  /\ UNCHANGED <<raced, statVars, workVars, saver, file, crashes, calls>>

\* An uninitialised size makes std::string throw: main prints Fatal and ends.
StartFails ==
  /\ ~up /\ file.state = "cut"
  /\ UNCHANGED vars
-----------------------------------------------------------------------------
(* set: atom::update retries its function until no one else has replaced   *)
(* the box since it was loaded.                                            *)

Goto(w, l) == pc' = [pc EXCEPT ![w] = l]

Return(w) == Goto(w, "idle") /\ loc' = [loc EXCEPT ![w] = NoLocal]

Call(w, l, k, v) ==
  /\ up /\ pc[w] = "idle" /\ calls < MaxCalls
  /\ calls' = calls + 1
  /\ Goto(w, l)
  /\ loc' = [loc EXCEPT ![w] = [NoLocal EXCEPT !.key = k, !.arg = v]]
  /\ UNCHANGED <<memVars, statVars, resp, saver, file, procVars>>

SetCall(w) == \E k \in Key, v \in Value : Call(w, "s_load", k, v)

SetLoad(w) ==
  /\ pc[w] = "s_load"
  /\ Goto(w, "s_apply")
  /\ loc' = [loc EXCEPT ![w].oldv = ver, ![w].snap = root]
  /\ UNCHANGED <<memVars, statVars, resp, saver, file, procVars, calls>>

\* Mutant: a copy-on-write that gives every version of a key its own entry.
SetApplyFresh(w) ==
  /\ pc[w] = "s_apply"
  /\ \E e \in Entry \ Allocated :
       /\ loc' = [loc EXCEPT ![w].ent = e]
       /\ heap' = [heap EXCEPT ![e] = NewEntry]
  /\ Goto(w, "s_move")
  /\ UNCHANGED <<root, ver, raced, statVars, resp, saver, file, procVars, calls>>

\* find the key in the loaded version or make an entry; begin the assignment.
SetApply(w) ==
  /\ pc[w] = "s_apply"
  /\ LET found == loc[w].snap[loc[w].key]
     IN \E e \in IF found # Nil THEN {found} ELSE Entry \ Allocated :
          /\ loc' = [loc EXCEPT ![w].ent = e]
          /\ heap' = [heap EXCEPT ![e] = IF found # Nil THEN @ ELSE NewEntry]
          /\ raced' = IF Writers(e) = {} THEN raced ELSE raced \cup {e}
  /\ Goto(w, "s_move")
  /\ UNCHANGED <<root, ver, statVars, resp, saver, file, procVars, calls>>

\* The assignment ends; its source, the argument of set, is left empty.  When
\* assignments have overlapped the string holds either value or a mixture.
SetMove(w) ==
  /\ pc[w] = "s_move"
  /\ LET e == loc[w].ent
     IN /\ \E v \in IF e \in raced THEN {loc[w].arg, heap[e].value, Torn}
                                   ELSE {loc[w].arg} :
             heap' = [heap EXCEPT ![e].value = v]
        /\ raced' = IF Writers(e) = {w} THEN raced \ {e} ELSE raced
  /\ Goto(w, "s_count")
  /\ loc' = [loc EXCEPT ![w].arg = Empty]
  /\ UNCHANGED <<root, ver, statVars, resp, saver, file, procVars, calls>>

SetCount(w) ==
  /\ pc[w] = "s_count"
  /\ heap' = [heap EXCEPT ![loc[w].ent].writes = @ + 1]
  /\ Goto(w, "s_cas")
  /\ UNCHANGED <<root, ver, raced, statVars, loc, resp, saver, file, procVars, calls>>

\* Install the new version made from the loaded one.
Install(w) ==
  /\ root' = [loc[w].snap EXCEPT ![loc[w].key] = loc[w].ent]
  /\ ver' = ver + 1
  /\ Goto(w, "s_stat")
  /\ UNCHANGED <<heap, raced, statVars, loc, resp, saver, file, procVars, calls>>

\* Mutant: the box is replaced without comparing it to the loaded one.
SetCommitBlind(w) == pc[w] = "s_cas" /\ Install(w)

SetCommit(w) == pc[w] = "s_cas" /\ loc[w].oldv = ver /\ Install(w)

\* Someone else committed: drop the new version and its private entry.
SetRetry(w) ==
  /\ pc[w] = "s_cas" /\ loc[w].oldv # ver
  /\ Goto(w, "s_load")
  /\ loc' = [loc EXCEPT ![w].oldv = 0, ![w].snap = NoMap, ![w].ent = Nil]
  /\ UNCHANGED <<memVars, statVars, resp, saver, file, procVars, calls>>

SetStat(w) ==
  /\ pc[w] = "s_stat"
  /\ set_total' = set_total + 1
  /\ Goto(w, "s_dirty")
  /\ UNCHANGED <<memVars, dirty, get_total, loc, resp, saver, file, procVars, calls>>

\* Mutant: set returns without marking the store dirty.
SetDirtyForgotten(w) ==
  /\ pc[w] = "s_dirty"
  /\ Return(w)
  /\ UNCHANGED <<memVars, statVars, resp, saver, file, procVars, calls>>

SetDirty(w) ==
  /\ pc[w] = "s_dirty"
  /\ dirty' = TRUE
  /\ Return(w)
  /\ UNCHANGED <<memVars, get_total, set_total, resp, saver, file, procVars, calls>>
-----------------------------------------------------------------------------
(* get, and the dispatcher reading the entry it returns.                   *)

GetCall(w) == \E k \in Key : Call(w, "g_load", k, Nil)

GetMiss(w) ==
  /\ pc[w] = "g_load" /\ root[loc[w].key] = Nil
  /\ resp' = [resp EXCEPT ![w] = [NoResp EXCEPT !.key = loc[w].key]]
  /\ Return(w)
  /\ UNCHANGED <<memVars, statVars, saver, file, procVars, calls>>

Find(w) ==
  /\ Goto(w, "g_count")
  /\ loc' = [loc EXCEPT ![w].ent = root[loc[w].key]]
  /\ UNCHANGED <<memVars, statVars, resp, saver, file, procVars, calls>>

\* Mutant: the pointer from find is used without the test for null.
GetHitUnchecked(w) == pc[w] = "g_load" /\ Find(w)

GetHit(w) == pc[w] = "g_load" /\ root[loc[w].key] # Nil /\ Find(w)

CountRead(w, next) ==
  /\ pc[w] = "g_count"
  /\ heap' = [heap EXCEPT ![loc[w].ent].reads = @ + 1]
  /\ Goto(w, next)
  /\ UNCHANGED <<root, ver, raced, statVars, loc, resp, saver, file, procVars, calls>>

\* Mutant: add_get is not called.
GetCountOnly(w) == CountRead(w, "g_reads")

GetCount(w) == CountRead(w, "g_stat")

\* Mutant: the store is marked dirty because a counter of an entry has changed.
GetStatDirty(w) ==
  /\ pc[w] = "g_stat"
  /\ get_total' = get_total + 1 /\ dirty' = TRUE
  /\ Goto(w, "g_reads")
  /\ UNCHANGED <<memVars, set_total, loc, resp, saver, file, procVars, calls>>

GetStat(w) ==
  /\ pc[w] = "g_stat"
  /\ get_total' = get_total + 1
  /\ Goto(w, "g_reads")
  /\ UNCHANGED <<memVars, dirty, set_total, loc, resp, saver, file, procVars, calls>>

GetReads(w) ==
  /\ pc[w] = "g_reads"
  /\ loc' = [loc EXCEPT ![w].reads = heap[loc[w].ent].reads]
  /\ Goto(w, "g_writes")
  /\ UNCHANGED <<memVars, statVars, resp, saver, file, procVars, calls>>

GetWrites(w) ==
  /\ pc[w] = "g_writes"
  /\ loc' = [loc EXCEPT ![w].writes = heap[loc[w].ent].writes]
  /\ Goto(w, "g_value")
  /\ UNCHANGED <<memVars, statVars, resp, saver, file, procVars, calls>>

\* Copy the string, build the response and hand it to socket->send.
GetValue(w) ==
  /\ pc[w] = "g_value"
  /\ resp' = [resp EXCEPT ![w] =
       [key |-> loc[w].key, value |-> Visible(loc[w].ent),
        reads |-> loc[w].reads, writes |-> loc[w].writes]]
  /\ Return(w)
  /\ UNCHANGED <<memVars, statVars, saver, file, procVars, calls>>
-----------------------------------------------------------------------------
(* flush_if_dirty, run by the save timer, which is restarted only when the *)
(* previous run has returned.                                              *)

saverFrame == <<memVars, get_total, set_total, workVars, procVars, calls>>

SaveSkip == up /\ saver.pc = "wait" /\ ~dirty /\ UNCHANGED vars

SaveCheck ==
  /\ up /\ saver.pc = "wait" /\ dirty
  /\ dirty' = FALSE
  /\ saver' = [saver EXCEPT !.pc = "open"]
  /\ UNCHANGED <<saverFrame, file>>

\* std::ofstream truncates the file.
SaveOpen ==
  /\ saver.pc = "open"
  /\ file' = [state |-> "cut", rec |-> NoMap]
  /\ saver' = [saver EXCEPT !.pc = "snap"]
  /\ UNCHANGED <<saverFrame, dirty>>

\* Mutant: only the entries that a set has written since the start are saved.
SaveSnapChanged ==
  /\ saver.pc = "snap"
  /\ saver' = [saver EXCEPT !.pc = "loop", !.snap = root,
                            !.todo = {k \in Bound : heap[root[k]].writes > 0}]
  /\ UNCHANGED <<saverFrame, dirty, file>>

SaveSnap ==
  /\ saver.pc = "snap"
  /\ saver' = [saver EXCEPT !.pc = "loop", !.snap = root, !.todo = Bound]
  /\ UNCHANGED <<saverFrame, dirty, file>>

\* The next pair in the map's order, which is that of the hashes.
SaveSize ==
  /\ saver.pc = "loop"
  /\ \E k \in saver.todo :
       saver' = [saver EXCEPT !.pc = "data", !.cur = k,
                              !.size = Visible(saver.snap[k])]
  /\ UNCHANGED <<saverFrame, dirty, file>>

\* value_size bytes are written from the string as it is now; if it was
\* replaced in between, by one of another length, they are no one's value.
SaveData ==
  /\ saver.pc = "data"
  /\ LET now == Visible(saver.snap[saver.cur])
     IN \E v \in IF now = saver.size THEN {now} ELSE {now, Torn} :
          file' = [file EXCEPT !.rec[saver.cur] = v]
  /\ saver' = [saver EXCEPT !.pc = "loop", !.todo = @ \ {saver.cur},
                            !.cur = Nil, !.size = Nil]
  /\ UNCHANGED <<saverFrame, dirty>>

FinishSave(d) ==
  /\ saver.pc = "loop" /\ saver.todo = {}
  /\ file' = [file EXCEPT !.state = "whole"]
  /\ saver' = IdleSaver
  /\ dirty' = d
  /\ UNCHANGED saverFrame

\* Mutant: the flag is cleared when the file is written, not before.
SaveEndClears == FinishSave(FALSE)

SaveEnd == FinishSave(dirty)
-----------------------------------------------------------------------------
(* The process ends: killed (nothing else stops the server), or by an      *)
(* exception of flush_if_dirty that leaves io.run() of a pool thread.      *)

Die(f) ==
  /\ up /\ crashes < MaxCrash
  /\ up' = FALSE /\ crashes' = crashes + 1
  /\ root' = NoMap /\ ver' = 0 /\ raced' = {}
  /\ heap' = [e \in Entry |-> NewEntry]
  /\ dirty' = FALSE /\ get_total' = 0 /\ set_total' = 0
  /\ pc' = [w \in Worker |-> "idle"]
  /\ loc' = [w \in Worker |-> NoLocal]
  /\ resp' = [w \in Worker |-> NoResp]
  /\ saver' = IdleSaver
  /\ file' = f
  /\ UNCHANGED <<bootClean, calls>>

\* What reached the disk of the records written so far.
OnDisk(s) == [state |-> IF saver.todo = {} /\ \A k \in AllKey : s[k] = file.rec[k]
                        THEN "whole" ELSE "cut",
              rec |-> s]
Remains == {s \in [AllKey -> Content \cup {Nil}] :
              \A k \in AllKey : s[k] \in {file.rec[k], Nil}}

Kill ==
  \/ saver.pc \in {"wait", "open"} /\ Die(file)
  \/ saver.pc = "snap" /\ Die([state |-> "cut", rec |-> NoMap])
  \/ saver.pc \in {"loop", "data"} /\ \E s \in Remains : Die(OnDisk(s))

SaveOpenFails == saver.pc = "open" /\ Die(file)

SaveWriteFails ==
  /\ saver.pc = "loop" /\ saver.todo = {}
  /\ \E s \in Remains : Die([state |-> "cut", rec |-> s])
-----------------------------------------------------------------------------
\* Steps a handler takes by itself once it was called.
WorkerRun(w) ==
  \/ SetLoad(w) \/ SetApply(w) \/ SetMove(w) \/ SetCount(w)
  \/ SetCommit(w) \/ SetRetry(w) \/ SetStat(w) \/ SetDirty(w)
  \/ GetMiss(w) \/ GetHit(w) \/ GetCount(w) \/ GetStat(w)
  \/ GetReads(w) \/ GetWrites(w) \/ GetValue(w)

SaverRun == SaveCheck \/ SaveOpen \/ SaveSnap \/ SaveSize \/ SaveData \/ SaveEnd

Next ==
  \/ Start \/ StartFails
  \/ \E w \in Worker : SetCall(w) \/ GetCall(w) \/ WorkerRun(w)
  \/ SaverRun \/ SaveSkip
  \/ Kill \/ SaveOpenFails \/ SaveWriteFails

Spec == Init /\ [][Next]_vars

\* Handlers that were dispatched run to their end and the timer keeps firing;
\* clients need not call.
FairSpec ==
  /\ Spec
  /\ WF_vars(Start) /\ WF_vars(SaverRun)
  /\ \A w \in Worker : WF_vars(WorkerRun(w))
-----------------------------------------------------------------------------
(* Properties.                                                             *)

MapType == [AllKey -> Entry \cup {Nil}]

LocalType == [key : Key \cup {Nil}, arg : Value \cup {Empty, Nil}, oldv : Nat,
              snap : MapType, ent : Entry \cup {Nil}, reads : Nat, writes : Nat]

\* A handler at p has the local variables l; the entry it is about to use was
\* found or made.
HandlerOK(p, l) ==
  /\ p \in {"idle"} \cup Setting \cup Getting
  /\ l \in LocalType
  /\ p \in Setting \cup Getting => l.key \in Key
  /\ p \in Setting => l.arg \in Value \cup {Empty}
  /\ p \in Applying \cup (Getting \ {"g_load"}) => l.ent \in Entry

MemoryOK ==
  /\ root \in MapType /\ ver \in Nat /\ raced \subseteq Entry
  /\ heap \in [Entry -> [value : Content, reads : Nat, writes : Nat]]

WorkersOK ==
  /\ pc \in [Worker -> {"idle"} \cup Setting \cup Getting]
  /\ loc \in [Worker -> LocalType]
  /\ \A w \in Worker : HandlerOK(pc[w], loc[w])

ResponsesOK ==
  resp \in [Worker -> [key : Key \cup {Nil}, value : Content \cup {Nil},
                      reads : Nat, writes : Nat]]

SaverOK ==
  /\ saver \in [pc : {"wait", "open", "snap", "loop", "data"}, snap : MapType,
                todo : SUBSET AllKey, cur : AllKey \cup {Nil},
                size : Content \cup {Nil}]
  /\ \A k \in saver.todo : saver.snap[k] \in Entry
  /\ saver.pc = "data" => saver.cur \in saver.todo

FileOK ==
  file \in [state : {"absent", "cut", "whole"}, rec : [AllKey -> Content \cup {Nil}]]

CountsOK ==
  /\ up \in BOOLEAN /\ dirty \in BOOLEAN /\ bootClean \in BOOLEAN
  /\ get_total \in Nat /\ set_total \in Nat /\ calls \in Nat /\ crashes \in Nat

\* Types of the variables.  HandlerOK says more: get and set never dereference
\* a null pointer.
TypeOK ==
  MemoryOK /\ WorkersOK /\ ResponsesOK /\ SaverOK /\ FileOK /\ CountsOK

\* A key that has entered the map stays there, bound to the same entry, for as
\* long as the process runs: no interleaving of updates drops another
\* thread's key or replaces an entry other threads hold.
BindingStable ==
  [][up /\ up' => \A k \in Bound : root'[k] = root[k]]_vars

\* What a client may know of a call, and of the last answer.
CallOf(w) ==
  [op   |-> CASE pc[w] = "idle" -> "none" [] pc[w] \in Setting -> "set" [] OTHER -> "get",
   key  |-> loc[w].key,
   done |-> pc[w] \in {"s_stat", "s_dirty"} \cup (Getting \ {"g_load"})]

Keys == INSTANCE KeySet WITH
          Key <- AllKey, NoKey <- Nil, keys <- Bound, call <- [w \in Worker |-> CallOf(w)],
          answer <- [w \in Worker |-> [key |-> resp[w].key, found |-> resp[w].value # Nil]]

\* The keys in the store are an atomic set: whatever retries and interleavings there
\* are, every set adds its key in one instant of its call and every get sees the keys
\* of one instant of its call.
Linearizable == Keys!Spec

\* Responses on one connection never go back: a key once found is found again,
\* and its read and write counters grow, whatever other connections do.
SessionMonotonic ==
  [][\A w \in Worker :
       resp[w].value # Nil /\ resp'[w] # resp[w] /\ resp'[w].key = resp[w].key =>
         /\ resp'[w].value # Nil
         /\ resp'[w].reads > resp[w].reads
         /\ resp'[w].writes >= resp[w].writes]_vars

\* The counters of the entries in the map.
Reads  == [k \in Bound |-> heap[root[k]].reads]
Writes == [k \in Bound |-> heap[root[k]].writes]

\* As many elements as the values of f add up to.
Units(f) == UNION {{k} \X (1..f[k]) : k \in DOMAIN f}

InPc(l) == {w \in Worker : pc[w] = l}

\* Every counted get is counted once in its entry: the reads of the entries
\* add up to get_total and the gets between the two increments.
ReadsAccounted ==
  Cardinality(Units(Reads)) = get_total + Cardinality(InPc("g_stat"))

\* The write counters of the entries in the map add up to the completed sets at least
\* (a set that was retried is counted more than once).
WritesAccounted ==
  Cardinality(Units(Writes)) >= set_total + Cardinality(InPc("s_stat"))

\* What a get would return now is what config.dat holds.
OnFile(k) ==
  file.rec[k] = IF root[k] = Nil THEN Nil ELSE Visible(root[k])

\* No update is forgotten by the save timer: when no set and no flush is under
\* way and dirty_ is clear, config.dat is complete and equal to the map.  A server
\* that was started from a cut file leaves it as it is, with what load_into made of it
\* in the map, until the first set; from then on this holds for it as for any other.
NoLostUpdate ==
  up /\ (bootClean \/ set_total > 0) /\ ~dirty /\ saver.pc = "wait"
       /\ (\A w \in Worker : pc[w] \notin Setting) =>
    /\ file.state # "cut"
    /\ \A k \in AllKey : OnFile(k)

\* What is left of the data is put at risk only for something new: whatever ends and
\* restarts there are, config.dat is truncated, written or cut only by a process that
\* has completed a set since its own start.
UntouchedUntilSet ==
  [][file' # file => up /\ set_total > 0]_vars

\* Once clients stop calling and the process is left alone, config.dat becomes
\* equal to the map and stays so.
Converges ==
  <>[](up => file.state # "cut" /\ \A k \in AllKey : OnFile(k))

\* README.rst:33 says that set is safe and atomic.  When no set is under way no
\* value in the map would then be the empty string, which no client sent.
NoBlankedValue ==
  (\A w \in Worker : pc[w] \notin Setting) =>
    \A k \in Bound : heap[root[k]].value # Empty

\* README.rst:28 promises safe multi-threaded access through copy-on-write and
\* immutable structures.  No response would then carry a string that is
\* being overwritten by a set.
NoTornRead ==
  \A w \in Worker : resp[w].value # Torn
=============================================================================
