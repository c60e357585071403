--------------------------- MODULE ConfigStoreProofs ---------------------------
(***************************************************************************)
(* Proofs about ConfigStore for any number of connections, keys, values,   *)
(* entries, calls and process ends.                                        *)
(***************************************************************************)
EXTENDS ConfigStore, TLAPS

USE ConstAssumption DEF AllKey, Content

-----------------------------------------------------------------------------
(* Type correctness.                                                       *)

LEMMA NilApart ==
  /\ NoMap \in MapType
  /\ NewEntry \in [value : Content, reads : Nat, writes : Nat]
  /\ HandlerOK("idle", NoLocal)
  /\ Nil \notin Entry /\ Nil \notin Content /\ Key \subseteq AllKey
BY DEF NoMap, MapType, NewEntry, HandlerOK, NoLocal, LocalType, Setting, Getting,
       Applying

\* A step of one connection that leaves it well typed leaves them all.
LEMMA OneWorker ==
  ASSUME WorkersOK, NEW w \in Worker, NEW p, NEW l, HandlerOK(p, l),
         pc' = [pc EXCEPT ![w] = p], loc' = [loc EXCEPT ![w] = l]
  PROVE  WorkersOK'
<1>1. p \in {"idle"} \cup Setting \cup Getting /\ l \in LocalType
  BY DEF HandlerOK
<1>2. ASSUME NEW v \in Worker PROVE HandlerOK(pc'[v], loc'[v])
  <2>1. CASE v = w
    <3>1. pc'[v] = p /\ loc'[v] = l
      BY <2>1 DEF WorkersOK
    <3> QED
      BY <3>1
  <2>2. CASE v # w
    <3>1. pc'[v] = pc[v] /\ loc'[v] = loc[v]
      BY <2>2 DEF WorkersOK
    <3> QED
      BY <3>1 DEF WorkersOK
  <2> QED
    BY <2>1, <2>2
<1> QED
  BY <1>1, <1>2 DEF WorkersOK

\* The same for a step that changes only where the handler is.
LEMMA OneWorkerMoves ==
  ASSUME WorkersOK, NEW w \in Worker, NEW p, HandlerOK(p, loc[w]),
         pc' = [pc EXCEPT ![w] = p], loc' = loc
  PROVE  WorkersOK'
<1>1. loc' = [loc EXCEPT ![w] = loc[w]]
  BY DEF WorkersOK
<1> QED
  BY <1>1, OneWorker

LEMMA ReturnOK ==
  ASSUME WorkersOK, NEW w \in Worker, Return(w) PROVE WorkersOK'
BY NilApart, OneWorker DEF Return, Goto

-----------------------------------------------------------------------------
LEMMA SetTypes ==
  ASSUME TypeOK, NEW w \in Worker
  PROVE  /\ SetCall(w) => TypeOK'
         /\ SetLoad(w) => TypeOK'
         /\ SetApply(w) => TypeOK'
         /\ SetMove(w) => TypeOK'
         /\ SetCount(w) => TypeOK'
         /\ SetCommit(w) => TypeOK'
         /\ SetRetry(w) => TypeOK'
         /\ SetStat(w) => TypeOK'
         /\ SetDirty(w) => TypeOK'
<1> USE DEF TypeOK
<1>h. HandlerOK(pc[w], loc[w]) /\ loc[w] \in LocalType
  BY DEF WorkersOK
<1>1. ASSUME SetCall(w) PROVE TypeOK'
  <2>1. PICK k \in Key, v \in Value : Call(w, "s_load", k, v)
    BY <1>1 DEF SetCall
  <2>2. HandlerOK("s_load", [NoLocal EXCEPT !.key = k, !.arg = v])
    BY NilApart DEF HandlerOK, NoLocal, LocalType, Setting, Getting, Applying
  <2>3. WorkersOK'
    BY <2>1, <2>2, OneWorker DEF Call, Goto
  <2> QED
    BY <2>1, <2>3 DEF Call, memVars, statVars, procVars, MemoryOK, ResponsesOK,
                      SaverOK, FileOK, CountsOK
<1>2. ASSUME SetLoad(w) PROVE TypeOK'
  <2> DEFINE l == [loc[w] EXCEPT !.oldv = ver, !.snap = root]
  <2>1. HandlerOK("s_apply", l)
    BY <1>2, <1>h DEF SetLoad, MemoryOK, HandlerOK, LocalType, Setting, Getting, Applying
  <2>2. loc' = [loc EXCEPT ![w] = l]
    BY <1>2 DEF SetLoad, WorkersOK
  <2>3. WorkersOK'
    BY <1>2, <2>1, <2>2, OneWorker DEF SetLoad, Goto
  <2> QED
    BY <1>2, <2>3 DEF SetLoad, memVars, statVars, procVars, MemoryOK, ResponsesOK,
                      SaverOK, FileOK, CountsOK
<1>3. ASSUME SetApply(w) PROVE TypeOK'
  <2> DEFINE found == loc[w].snap[loc[w].key]
  <2>1. PICK e \in IF found # Nil THEN {found} ELSE Entry \ Allocated :
          /\ loc' = [loc EXCEPT ![w].ent = e]
          /\ heap' = [heap EXCEPT ![e] = IF found # Nil THEN heap[e] ELSE NewEntry]
          /\ raced' = IF Writers(e) = {} THEN raced ELSE raced \cup {e}
    BY <1>3 DEF SetApply
  <2>2. e \in Entry
    <3>1. found \in Entry \cup {Nil}
      BY <1>3, <1>h, NilApart DEF SetApply, HandlerOK, LocalType, MapType, Setting, Applying
    <3> QED
      BY <2>1, <3>1
  <2>3. HandlerOK("s_move", [loc[w] EXCEPT !.ent = e])
    BY <1>3, <1>h, <2>2 DEF SetApply, HandlerOK, LocalType, Setting, Getting, Applying
  <2>4. WorkersOK'
    BY <1>3, <2>1, <2>3, OneWorker DEF SetApply, Goto
  <2>5. MemoryOK'
    BY <1>3, <2>1, <2>2, NilApart DEF SetApply, MemoryOK
  <2> QED
    BY <1>3, <2>4, <2>5 DEF SetApply, statVars, procVars, ResponsesOK, SaverOK,
                            FileOK, CountsOK
<1>4. ASSUME SetMove(w) PROVE TypeOK'
  <2>1. loc[w].ent \in Entry /\ loc[w].arg \in Content
    BY <1>4, <1>h DEF SetMove, HandlerOK, Setting, Applying
  <2>2. HandlerOK("s_count", [loc[w] EXCEPT !.arg = Empty])
    BY <1>4, <1>h DEF SetMove, HandlerOK, LocalType, Setting, Getting, Applying
  <2>3. WorkersOK'
    BY <1>4, <2>2, OneWorker DEF SetMove, Goto
  <2>4. MemoryOK'
    <3>1. PICK v \in IF loc[w].ent \in raced
                     THEN {loc[w].arg, heap[loc[w].ent].value, Torn} ELSE {loc[w].arg} :
            heap' = [heap EXCEPT ![loc[w].ent].value = v]
      BY <1>4 DEF SetMove
    <3>2. v \in Content
      BY <2>1, <3>1 DEF MemoryOK
    <3> QED
      BY <1>4, <2>1, <3>1, <3>2 DEF SetMove, MemoryOK
  <2> QED
    BY <1>4, <2>3, <2>4 DEF SetMove, statVars, procVars, ResponsesOK, SaverOK,
                            FileOK, CountsOK
<1>5. ASSUME SetCount(w) PROVE TypeOK'
  <2>1. HandlerOK("s_cas", loc[w]) /\ loc[w].ent \in Entry
    BY <1>5, <1>h DEF SetCount, HandlerOK, Setting, Getting, Applying
  <2>2. WorkersOK'
    BY <1>5, <2>1, OneWorkerMoves DEF SetCount, Goto
  <2>3. MemoryOK'
    BY <1>5, <2>1 DEF SetCount, MemoryOK
  <2> QED
    BY <1>5, <2>2, <2>3 DEF SetCount, statVars, procVars, ResponsesOK, SaverOK,
                            FileOK, CountsOK
<1>6. ASSUME SetCommit(w) PROVE TypeOK'
  <2>1. HandlerOK("s_stat", loc[w]) /\ loc[w].ent \in Entry
    BY <1>6, <1>h DEF SetCommit, HandlerOK, Setting, Getting, Applying
  <2>2. WorkersOK'
    BY <1>6, <2>1, OneWorkerMoves DEF SetCommit, Install, Goto
  <2>3. loc[w].snap \in MapType
    BY <1>h DEF LocalType
  <2>4. MemoryOK'
    <3>1. [loc[w].snap EXCEPT ![loc[w].key] = loc[w].ent] \in MapType
      BY <2>1, <2>3 DEF MapType
    <3> QED
      BY <1>6, <3>1 DEF SetCommit, Install, MemoryOK
  <2> QED
    BY <1>6, <2>2, <2>4 DEF SetCommit, Install, statVars, procVars, ResponsesOK,
                            SaverOK, FileOK, CountsOK
<1>7. ASSUME SetRetry(w) PROVE TypeOK'
  <2> DEFINE l == [loc[w] EXCEPT !.oldv = 0, !.snap = NoMap, !.ent = Nil]
  <2>1. HandlerOK("s_load", l)
    BY <1>7, <1>h, NilApart DEF SetRetry, HandlerOK, LocalType, Setting, Getting, Applying
  <2>2. loc' = [loc EXCEPT ![w] = l]
    BY <1>7 DEF SetRetry, WorkersOK
  <2>3. WorkersOK'
    BY <1>7, <2>1, <2>2, OneWorker DEF SetRetry, Goto
  <2> QED
    BY <1>7, <2>3 DEF SetRetry, memVars, statVars, procVars, MemoryOK, ResponsesOK,
                      SaverOK, FileOK, CountsOK
<1>8. ASSUME SetStat(w) PROVE TypeOK'
  <2>1. HandlerOK("s_dirty", loc[w])
    BY <1>8, <1>h DEF SetStat, HandlerOK, Setting, Getting, Applying
  <2>2. WorkersOK'
    BY <1>8, <2>1, OneWorkerMoves DEF SetStat, Goto
  <2> QED
    BY <1>8, <2>2 DEF SetStat, memVars, procVars, MemoryOK, ResponsesOK, SaverOK,
                      FileOK, CountsOK
<1>9. ASSUME SetDirty(w) PROVE TypeOK'
  <2>1. WorkersOK'
    BY <1>9, ReturnOK DEF SetDirty
  <2> QED
    BY <1>9, <2>1 DEF SetDirty, memVars, procVars, MemoryOK, ResponsesOK, SaverOK,
                      FileOK, CountsOK
<1> QED
  BY <1>1, <1>2, <1>3, <1>4, <1>5, <1>6, <1>7, <1>8, <1>9

LEMMA GetTypes ==
  ASSUME TypeOK, NEW w \in Worker
  PROVE  /\ GetCall(w) => TypeOK'
         /\ GetMiss(w) => TypeOK'
         /\ GetHit(w) => TypeOK'
         /\ GetCount(w) => TypeOK'
         /\ GetStat(w) => TypeOK'
         /\ GetReads(w) => TypeOK'
         /\ GetWrites(w) => TypeOK'
         /\ GetValue(w) => TypeOK'
<1> USE DEF TypeOK
<1>h. HandlerOK(pc[w], loc[w]) /\ loc[w] \in LocalType
  BY DEF WorkersOK
<1>1. ASSUME GetCall(w) PROVE TypeOK'
  <2>1. PICK k \in Key : Call(w, "g_load", k, Nil)
    BY <1>1 DEF GetCall
  <2>2. HandlerOK("g_load", [NoLocal EXCEPT !.key = k, !.arg = Nil])
    BY NilApart DEF HandlerOK, NoLocal, LocalType, Setting, Getting, Applying
  <2>3. WorkersOK'
    BY <2>1, <2>2, OneWorker DEF Call, Goto
  <2> QED
    BY <2>1, <2>3 DEF Call, memVars, statVars, procVars, MemoryOK, ResponsesOK,
                      SaverOK, FileOK, CountsOK
<1>2. ASSUME GetMiss(w) PROVE TypeOK'
  <2>1. WorkersOK'
    BY <1>2, ReturnOK DEF GetMiss
  <2>2. loc[w].key \in Key
    BY <1>2, <1>h DEF GetMiss, HandlerOK, Getting
  <2>3. ResponsesOK'
    BY <1>2, <2>2 DEF GetMiss, ResponsesOK, NoResp
  <2> QED
    BY <1>2, <2>1, <2>3 DEF GetMiss, memVars, statVars, procVars, MemoryOK,
                            SaverOK, FileOK, CountsOK
<1>3. ASSUME GetHit(w) PROVE TypeOK'
  <2>1. root[loc[w].key] \in Entry
    BY <1>3, <1>h, NilApart DEF GetHit, HandlerOK, Getting, MemoryOK, MapType
  <2>2. HandlerOK("g_count", [loc[w] EXCEPT !.ent = root[loc[w].key]])
    BY <1>3, <1>h, <2>1 DEF GetHit, HandlerOK, LocalType, Setting, Getting, Applying
  <2>3. WorkersOK'
    BY <1>3, <2>2, OneWorker DEF GetHit, Find, Goto
  <2> QED
    BY <1>3, <2>3 DEF GetHit, Find, memVars, statVars, procVars, MemoryOK,
                      ResponsesOK, SaverOK, FileOK, CountsOK
<1>4. ASSUME GetCount(w) PROVE TypeOK'
  <2>1. HandlerOK("g_stat", loc[w]) /\ loc[w].ent \in Entry
    BY <1>4, <1>h DEF GetCount, CountRead, HandlerOK, Setting, Getting, Applying
  <2>2. WorkersOK'
    BY <1>4, <2>1, OneWorkerMoves DEF GetCount, CountRead, Goto
  <2>3. MemoryOK'
    BY <1>4, <2>1 DEF GetCount, CountRead, MemoryOK
  <2> QED
    BY <1>4, <2>2, <2>3 DEF GetCount, CountRead, statVars, procVars, ResponsesOK,
                            SaverOK, FileOK, CountsOK
<1>5. ASSUME GetStat(w) PROVE TypeOK'
  <2>1. HandlerOK("g_reads", loc[w])
    BY <1>5, <1>h DEF GetStat, HandlerOK, Setting, Getting, Applying
  <2>2. WorkersOK'
    BY <1>5, <2>1, OneWorkerMoves DEF GetStat, Goto
  <2> QED
    BY <1>5, <2>2 DEF GetStat, memVars, procVars, MemoryOK, ResponsesOK, SaverOK,
                      FileOK, CountsOK
<1>6. ASSUME GetReads(w) PROVE TypeOK'
  <2>1. loc[w].ent \in Entry
    BY <1>6, <1>h DEF GetReads, HandlerOK, Getting
  <2>2. HandlerOK("g_writes", [loc[w] EXCEPT !.reads = heap[loc[w].ent].reads])
    BY <1>6, <1>h, <2>1 DEF GetReads, HandlerOK, LocalType, Setting, Getting,
                            Applying, MemoryOK
  <2>3. WorkersOK'
    BY <1>6, <2>2, OneWorker DEF GetReads, Goto
  <2> QED
    BY <1>6, <2>3 DEF GetReads, memVars, statVars, procVars, MemoryOK, ResponsesOK,
                      SaverOK, FileOK, CountsOK
<1>7. ASSUME GetWrites(w) PROVE TypeOK'
  <2>1. loc[w].ent \in Entry
    BY <1>7, <1>h DEF GetWrites, HandlerOK, Getting
  <2>2. HandlerOK("g_value", [loc[w] EXCEPT !.writes = heap[loc[w].ent].writes])
    BY <1>7, <1>h, <2>1 DEF GetWrites, HandlerOK, LocalType, Setting, Getting,
                            Applying, MemoryOK
  <2>3. WorkersOK'
    BY <1>7, <2>2, OneWorker DEF GetWrites, Goto
  <2> QED
    BY <1>7, <2>3 DEF GetWrites, memVars, statVars, procVars, MemoryOK, ResponsesOK,
                      SaverOK, FileOK, CountsOK
<1>8. ASSUME GetValue(w) PROVE TypeOK'
  <2>1. WorkersOK'
    BY <1>8, ReturnOK DEF GetValue
  <2>2. loc[w].key \in Key /\ loc[w].ent \in Entry
    BY <1>8, <1>h DEF GetValue, HandlerOK, Getting
  <2>3. Visible(loc[w].ent) \in Content
    BY <2>2 DEF Visible, MemoryOK
  <2>4. ResponsesOK'
    BY <1>8, <1>h, <2>2, <2>3 DEF GetValue, ResponsesOK, LocalType
  <2> QED
    BY <1>8, <2>1, <2>4 DEF GetValue, memVars, statVars, procVars, MemoryOK,
                            SaverOK, FileOK, CountsOK
<1> QED
  BY <1>1, <1>2, <1>3, <1>4, <1>5, <1>6, <1>7, <1>8

LEMMA SaverTypes == ASSUME TypeOK, SaverRun PROVE TypeOK'
<1> USE DEF TypeOK
<1>1. /\ saver.todo \subseteq AllKey /\ saver.snap \in MapType
      /\ saver.pc \in {"wait", "open", "snap", "loop", "data"}
  BY DEF SaverOK
<1>2. CASE SaveCheck
  BY <1>2 DEF SaveCheck, saverFrame, memVars, workVars, procVars, MemoryOK,
              WorkersOK, ResponsesOK, SaverOK, FileOK, CountsOK
<1>3. CASE SaveOpen
  <2>1. FileOK'
    BY <1>3 DEF SaveOpen, FileOK, NoMap
  <2> QED
    BY <1>3, <2>1 DEF SaveOpen, saverFrame, memVars, workVars, procVars, MemoryOK,
              WorkersOK, ResponsesOK, SaverOK, CountsOK
<1>4. CASE SaveSnap
  <2>1. Bound \subseteq AllKey /\ \A k \in Bound : root[k] \in Entry
    BY DEF Bound, MemoryOK, MapType
  <2>2. SaverOK'
    BY <1>4, <2>1 DEF SaveSnap, SaverOK, MemoryOK
  <2> QED
    BY <1>4, <2>2 DEF SaveSnap, saverFrame, memVars, workVars, procVars, MemoryOK,
              WorkersOK, ResponsesOK, FileOK, CountsOK
<1>5. CASE SaveSize
  <2>1. PICK k \in saver.todo :
          saver' = [saver EXCEPT !.pc = "data", !.cur = k, !.size = Visible(saver.snap[k])]
    BY <1>5 DEF SaveSize
  <2>2. Visible(saver.snap[k]) \in Content
    BY DEF SaverOK, Visible, MemoryOK
  <2>3. SaverOK'
    BY <1>1, <2>1, <2>2 DEF SaverOK
  <2> QED
    BY <1>5, <2>3 DEF SaveSize, saverFrame, memVars, workVars, procVars, MemoryOK,
              WorkersOK, ResponsesOK, FileOK, CountsOK
<1>6. CASE SaveData
  <2>1. saver.cur \in AllKey /\ saver.snap[saver.cur] \in Entry
    BY <1>6 DEF SaveData, SaverOK
  <2>2. Visible(saver.snap[saver.cur]) \in Content
    BY <2>1 DEF Visible, MemoryOK
  <2>3. FileOK'
    <3>1. PICK v \in IF Visible(saver.snap[saver.cur]) = saver.size
                     THEN {Visible(saver.snap[saver.cur])}
                     ELSE {Visible(saver.snap[saver.cur]), Torn} :
            file' = [file EXCEPT !.rec[saver.cur] = v]
      BY <1>6 DEF SaveData
    <3>2. v \in Content
      BY <2>2, <3>1
    <3> QED
      BY <2>1, <3>1, <3>2 DEF FileOK
  <2>4. SaverOK'
    BY <1>1, <1>6 DEF SaveData, SaverOK
  <2> QED
    BY <1>6, <2>3, <2>4 DEF SaveData, saverFrame, memVars, workVars, procVars,
              MemoryOK, WorkersOK, ResponsesOK, CountsOK
<1>7. CASE SaveEnd
  <2>1. IdleSaver.pc = "wait" /\ IdleSaver.todo = {} /\ SaverOK'
    BY <1>7, NilApart DEF SaveEnd, FinishSave, SaverOK, IdleSaver
  <2>2. FileOK'
    BY <1>7 DEF SaveEnd, FinishSave, FileOK
  <2> QED
    BY <1>7, <2>1, <2>2 DEF SaveEnd, FinishSave, saverFrame, memVars, workVars,
              procVars, MemoryOK, WorkersOK, ResponsesOK, CountsOK
<1> QED
  BY <1>2, <1>3, <1>4, <1>5, <1>6, <1>7 DEF SaverRun

LEMMA StartTypes == ASSUME TypeOK, Start PROVE TypeOK'
<1> USE DEF TypeOK
<1>1. PICK junk \in JunkLoads, r \in [AllKey -> Entry \cup {Nil}] :
        /\ \A k \in AllKey : r[k] # Nil <=> k \in junk \/ file.rec[k] # Nil
        /\ root' = r
        /\ heap' = [e \in Entry |->
             IF \A k \in AllKey : r[k] # e THEN NewEntry
             ELSE LET k == CHOOSE k \in AllKey : r[k] = e
                  IN [NewEntry EXCEPT !.value =
                        IF k \in junk THEN Torn ELSE file.rec[k]]]
  BY DEF Start
<1>2. ASSUME NEW e \in Entry
      PROVE  heap'[e] \in [value : Content, reads : Nat, writes : Nat]
  <2>1. CASE \A k \in AllKey : r[k] # e
    BY <1>1, <2>1, NilApart
  <2>2. CASE ~ \A k \in AllKey : r[k] # e
    <3> DEFINE k == CHOOSE k \in AllKey : r[k] = e
               v == IF k \in junk THEN Torn ELSE file.rec[k]
    <3>1. k \in AllKey /\ r[k] = e
      BY <2>2
    <3>2. v \in Content
      BY <1>1, <3>1, NilApart DEF FileOK
    <3>3. heap'[e] = [NewEntry EXCEPT !.value = v]
      BY <1>1, <2>2
    <3> HIDE DEF k, v
    <3> QED
      BY <3>2, <3>3, NilApart
  <2> QED
    BY <2>1, <2>2
<1>3. MemoryOK'
  <2>1. heap' \in [Entry -> [value : Content, reads : Nat, writes : Nat]]
    <3>1. heap' = [e \in Entry |-> heap'[e]]
      BY <1>1
    <3> QED
      BY <1>2, <3>1
  <2> QED
    BY <1>1, <2>1 DEF Start, MemoryOK, MapType
<1> QED
  BY <1>3 DEF Start, statVars, workVars, WorkersOK, ResponsesOK, SaverOK, FileOK,
              CountsOK

LEMMA FreshTypes ==
  /\ [w \in Worker |-> "idle"] \in [Worker -> {"idle"} \cup Setting \cup Getting]
  /\ [w \in Worker |-> NoLocal] \in [Worker -> LocalType]
  /\ [w \in Worker |-> NoResp] \in [Worker -> [key : Key \cup {Nil},
                     value : Content \cup {Nil}, reads : Nat, writes : Nat]]
  /\ [e \in Entry |-> NewEntry] \in [Entry -> [value : Content, reads : Nat, writes : Nat]]
BY NilApart DEF HandlerOK, NoResp

LEMMA DieTypes ==
  ASSUME TypeOK, NEW f, Die(f),
         f \in [state : {"absent", "cut", "whole"}, rec : [AllKey -> Content \cup {Nil}]]
  PROVE  TypeOK'
<1>1. MemoryOK'
  BY NilApart, FreshTypes DEF Die, MemoryOK
<1>2. WorkersOK' /\ ResponsesOK'
  BY NilApart, FreshTypes DEF Die, WorkersOK, ResponsesOK
<1>3. SaverOK' /\ FileOK'
  BY NilApart DEF Die, SaverOK, FileOK, IdleSaver
<1>4. CountsOK'
  <2>1. CountsOK /\ up' = FALSE /\ dirty' = FALSE /\ get_total' = 0 /\ set_total' = 0
          /\ crashes' = crashes + 1 /\ bootClean' = bootClean /\ calls' = calls
    BY DEF Die, TypeOK
  <2>2. (up \in BOOLEAN)' /\ (dirty \in BOOLEAN)' /\ (bootClean \in BOOLEAN)'
    BY <2>1, Zenon DEF CountsOK
  <2>3. crashes' \in Nat /\ get_total' \in Nat /\ set_total' \in Nat /\ calls' \in Nat
    BY <2>1 DEF CountsOK
  <2> QED
    BY <2>2, <2>3 DEF CountsOK
<1> QED
  BY <1>1, <1>2, <1>3, <1>4 DEF TypeOK

LEMMA EndTypes ==
  ASSUME TypeOK, Kill \/ SaveOpenFails \/ SaveWriteFails PROVE TypeOK'
<1> DEFINE F == [state : {"absent", "cut", "whole"}, rec : [AllKey -> Content \cup {Nil}]]
<1>1. file \in F
  BY DEF TypeOK, FileOK
<1>2. \A s \in Remains : OnDisk(s) \in F /\ [state |-> "cut", rec |-> s] \in F
  <2>1. ASSUME NEW s \in Remains PROVE s \in [AllKey -> Content \cup {Nil}]
    BY DEF Remains
  <2> QED
    BY <2>1 DEF OnDisk
<1>3. [state |-> "cut", rec |-> NoMap] \in F
  BY DEF NoMap
<1>4. \E f \in F : Die(f)
  <2> HIDE DEF F
  <2> QED
    BY <1>1, <1>2, <1>3 DEF Kill, SaveOpenFails, SaveWriteFails
<1> QED
  BY <1>4, DieTypes

LEMMA StepType == TypeOK /\ [Next]_vars => TypeOK'
<1> SUFFICES ASSUME TypeOK, [Next]_vars PROVE TypeOK'
  OBVIOUS
<1>1. CASE UNCHANGED vars
  BY <1>1 DEF vars, memVars, statVars, workVars, procVars, TypeOK, MemoryOK,
              WorkersOK, ResponsesOK, SaverOK, FileOK, CountsOK
<1>2. ASSUME NEW w \in Worker, SetCall(w) \/ GetCall(w) \/ WorkerRun(w) PROVE TypeOK'
  BY <1>2, SetTypes, GetTypes DEF WorkerRun
<1> QED
  BY <1>1, <1>2, StartTypes, SaverTypes, EndTypes DEF Next, StartFails, SaveSkip

LEMMA InitType == Init => TypeOK
<1> SUFFICES ASSUME Init PROVE TypeOK
  OBVIOUS
<1>1. MemoryOK /\ WorkersOK /\ ResponsesOK
  BY NilApart, FreshTypes DEF Init, MemoryOK, WorkersOK, ResponsesOK
<1>2. SaverOK
  BY NilApart DEF Init, SaverOK, IdleSaver
<1>3. FileOK
  BY DEF Init, FileOK, NoFile, NoMap
<1> QED
  BY <1>1, <1>2, <1>3 DEF Init, TypeOK, CountsOK

\* Every reachable state is well typed: in particular no handler dereferences
\* the null pointer that find returns for an absent key.
THEOREM TypeCorrect == Spec => []TypeOK
BY InitType, StepType, PTL DEF Spec

-----------------------------------------------------------------------------
(* The structure that concurrent updates preserve, and what it implies for *)
(* the bindings of the map.                                                *)

\* Nothing is left of a process that has ended.
Stopped ==
  ~up => /\ \A w \in Worker : pc[w] = "idle"
         /\ saver = IdleSaver /\ dirty = FALSE

\* No two keys share an entry.
Injective ==
  \A j, k \in AllKey : root[j] = root[k] /\ root[k] # Nil => j = k

Updating == {"s_apply"} \cup Applying

\* A loaded version differs from the current one only by keys added since; it
\* is the current one exactly if nothing was committed since.
LoadedOK(w) ==
  pc[w] \in Updating =>
    /\ loc[w].oldv <= ver
    /\ loc[w].oldv = ver => loc[w].snap = root
    /\ \A k \in AllKey : loc[w].snap[k] # Nil => loc[w].snap[k] = root[k]

\* An update under way works on the entry of its own key, if that key was bound
\* in the version it loaded; otherwise on an entry that is no other key's.
AppliedOK(w) ==
  pc[w] \in Applying =>
    /\ loc[w].snap[loc[w].key] # Nil => loc[w].ent = loc[w].snap[loc[w].key]
    /\ \A k \in AllKey : root[k] = loc[w].ent => k = loc[w].key
    /\ \A v \in Worker :
         pc[v] \in Applying /\ loc[v].ent = loc[w].ent => loc[v].key = loc[w].key

Sharing ==
  Injective /\ \A w \in Worker : LoadedOK(w) /\ AppliedOK(w)

\* What of the map the save timer has yet to write is still in the map.
SnapshotOK ==
  \A k \in saver.todo : saver.snap[k] = root[k]

\* Of this process NoLostUpdate claims something: it was not started from a cut file, or
\* a set has been completed since.
Claimed == up /\ (bootClean \/ set_total > 0)

\* A set that is counted is about to mark the store as dirty.
Marking == \E w \in Worker : pc[w] = "s_dirty"

\* Only a process with a completed set has something to save.
SetFirst ==
  /\ ~up => set_total = 0
  /\ dirty \/ Marking \/ saver.pc # "wait" => set_total > 0

FileKnown ==
  /\ saver.pc = "snap" => file.rec = NoMap
  /\ Claimed /\ saver.pc = "wait" => file.state # "cut" \/ dirty \/ Marking

BeingSet(k) == \E w \in Worker : pc[w] \in Setting /\ loc[w].key = k

\* The running flush will write k, and k has not changed since its size was read.
ToBeWritten(k) ==
  \/ saver.pc \in {"open", "snap"}
  \/ /\ saver.pc \in {"loop", "data"} /\ k \in saver.todo
     /\ saver.pc = "data" /\ saver.cur = k => saver.size = Visible(root[k])

Written(k) == saver.pc \in {"wait", "loop", "data"} /\ k \notin saver.todo /\ OnFile(k)

\* Someone remembers that k is not on file, unless it is.
Remembered(k) == dirty \/ BeingSet(k) \/ ToBeWritten(k) \/ Written(k)

Saving ==
  /\ SnapshotOK /\ SetFirst /\ FileKnown
  /\ Claimed => \A k \in AllKey : Remembered(k) \/ Marking

-----------------------------------------------------------------------------
WorkerStep(w) == SetCall(w) \/ GetCall(w) \/ WorkerRun(w)

End == Kill \/ SaveOpenFails \/ SaveWriteFails

\* A handler runs only in a process, and changes neither the process nor the
\* save timer; dirty_ it can only set.
LEMMA WorkerFrame ==
  ASSUME TypeOK, Stopped, NEW w \in Worker, WorkerStep(w)
  PROVE  /\ up = TRUE /\ UNCHANGED <<saver, file, procVars>>
         /\ dirty' = dirty \/ dirty' = TRUE
<1>1. pc[w] # "idle" => up = TRUE
  BY DEF Stopped, TypeOK, CountsOK
<1>2. CASE SetCall(w) \/ GetCall(w)
  BY <1>2 DEF SetCall, GetCall, Call, statVars, TypeOK, CountsOK
<1>3. CASE SetLoad(w) \/ SetApply(w) \/ SetMove(w) \/ SetCount(w) \/ SetCommit(w)
  BY <1>1, <1>3 DEF SetLoad, SetApply, SetMove, SetCount, SetCommit, Install, statVars
<1>4. CASE SetRetry(w) \/ SetStat(w) \/ SetDirty(w)
  BY <1>1, <1>4 DEF SetRetry, SetStat, SetDirty, statVars
<1>5. CASE GetMiss(w) \/ GetHit(w) \/ GetCount(w) \/ GetStat(w)
  BY <1>1, <1>5 DEF GetMiss, GetHit, Find, GetCount, CountRead, GetStat, statVars
<1>6. CASE GetReads(w) \/ GetWrites(w) \/ GetValue(w)
  BY <1>1, <1>6 DEF GetReads, GetWrites, GetValue, statVars
<1> QED
  BY <1>2, <1>3, <1>4, <1>5, <1>6 DEF WorkerStep, WorkerRun

LEMMA SaverFrame ==
  ASSUME TypeOK, Stopped, SaverRun
  PROVE  up = TRUE /\ UNCHANGED saverFrame
<1>1. saver.pc # "wait" => up = TRUE
  BY DEF Stopped, IdleSaver, TypeOK, CountsOK
<1>2. CASE SaveCheck \/ SaveOpen \/ SaveSnap
  BY <1>1, <1>2 DEF SaveCheck, SaveOpen, SaveSnap, TypeOK, CountsOK
<1>3. CASE SaveSize \/ SaveData \/ SaveEnd
  BY <1>1, <1>3 DEF SaveSize, SaveData, SaveEnd, FinishSave
<1> QED
  BY <1>2, <1>3 DEF SaverRun

LEMMA EndFrame ==
  ASSUME End
  PROVE  /\ up' = FALSE /\ dirty' = FALSE /\ root' = NoMap /\ saver' = IdleSaver
         /\ set_total' = 0
         /\ pc' = [w \in Worker |-> "idle"] /\ loc' = [w \in Worker |-> NoLocal]
         /\ bootClean' = bootClean
<1>1. PICK f : Die(f)
  <2>1. CASE Kill
    BY <2>1 DEF Kill
  <2>2. CASE SaveOpenFails \/ SaveWriteFails
    BY <2>2 DEF SaveOpenFails, SaveWriteFails
  <2> QED
    BY <2>1, <2>2 DEF End
<1> QED
  BY <1>1 DEF Die

LEMMA StepStopped == TypeOK /\ Stopped /\ [Next]_vars => Stopped'
<1> SUFFICES ASSUME TypeOK, Stopped, [Next]_vars PROVE Stopped'
  OBVIOUS
<1>1. CASE UNCHANGED vars
  BY <1>1 DEF vars, statVars, workVars, procVars, Stopped
<1>2. CASE Start
  BY <1>2 DEF Start, Stopped
<1>3. ASSUME NEW w \in Worker, WorkerStep(w) PROVE Stopped'
  <2>1. up' = TRUE
    BY <1>3, WorkerFrame DEF procVars
  <2> QED
    BY <2>1 DEF Stopped
<1>4. CASE SaverRun
  <2>1. up' = TRUE
    BY <1>4, SaverFrame DEF saverFrame, procVars
  <2> QED
    BY <2>1 DEF Stopped
<1>5. CASE End
  BY <1>5, EndFrame DEF Stopped
<1> QED
  BY <1>1, <1>2, <1>3, <1>4, <1>5 DEF Next, StartFails, SaveSkip, WorkerStep, End
-----------------------------------------------------------------------------
\* A handler that neither loads, nor applies, nor commits keeps the structure.
LEMMA KeepsSharing ==
  ASSUME TypeOK, Sharing, NEW w \in Worker, NEW p, NEW l,
         root' = root, ver' = ver,
         pc' = [pc EXCEPT ![w] = p], loc' = [loc EXCEPT ![w] = l],
         p # "s_apply",
         p \in Applying =>
           /\ pc[w] \in Applying
           /\ l.key = loc[w].key /\ l.snap = loc[w].snap
           /\ l.oldv = loc[w].oldv /\ l.ent = loc[w].ent
  PROVE  Sharing'
<1>1. pc \in [Worker -> {"idle"} \cup Setting \cup Getting] /\ DOMAIN loc = Worker
  BY DEF TypeOK, WorkersOK
<1>2. ASSUME NEW v \in Worker, pc'[v] \in Updating
      PROVE  /\ pc[v] \in Updating
             /\ pc'[v] \in Applying => pc[v] \in Applying
             /\ loc'[v].key = loc[v].key /\ loc'[v].snap = loc[v].snap
             /\ loc'[v].oldv = loc[v].oldv /\ loc'[v].ent = loc[v].ent
  <2>1. CASE v = w
    BY <1>1, <1>2, <2>1 DEF Updating
  <2>2. CASE v # w
    BY <1>1, <1>2, <2>2
  <2> QED
    BY <2>1, <2>2
<1>3. Injective'
  BY DEF Sharing, Injective
<1>4. ASSUME NEW v \in Worker PROVE LoadedOK(v)'
  <2> SUFFICES ASSUME pc'[v] \in Updating
               PROVE  /\ loc'[v].oldv <= ver'
                      /\ loc'[v].oldv = ver' => loc'[v].snap = root'
                      /\ \A k \in AllKey : loc'[v].snap[k] # Nil =>
                                            loc'[v].snap[k] = root'[k]
    BY DEF LoadedOK
  <2>1. /\ loc[v].oldv <= ver
        /\ loc[v].oldv = ver => loc[v].snap = root
        /\ \A k \in AllKey : loc[v].snap[k] # Nil => loc[v].snap[k] = root[k]
    BY <1>2 DEF Sharing, LoadedOK
  <2> QED
    BY <1>2, <2>1
<1>5. ASSUME NEW v \in Worker PROVE AppliedOK(v)'
  BY <1>2 DEF Sharing, AppliedOK, Updating
<1> QED
  BY <1>3, <1>4, <1>5 DEF Sharing

LEMMA LoadSharing ==
  ASSUME TypeOK, Sharing, NEW w \in Worker, SetLoad(w) PROVE Sharing'
<1>1. pc \in [Worker -> {"idle"} \cup Setting \cup Getting] /\ loc \in [Worker -> LocalType]
  BY DEF TypeOK, WorkersOK
<1>2. /\ pc' = [pc EXCEPT ![w] = "s_apply"] /\ root' = root /\ ver' = ver
      /\ loc' = [loc EXCEPT ![w] = [loc[w] EXCEPT !.oldv = ver, !.snap = root]]
  BY <1>1 DEF SetLoad, Goto, memVars
<1>3. loc'[w].oldv = ver /\ loc'[w].snap = root /\ pc'[w] = "s_apply"
  BY <1>1, <1>2 DEF LocalType
<1>4. \A v \in Worker \ {w} : pc'[v] = pc[v] /\ loc'[v] = loc[v]
  BY <1>1, <1>2
<1>5. Injective'
  BY <1>2 DEF Sharing, Injective
<1>6. ASSUME NEW v \in Worker PROVE LoadedOK(v)'
  <2>1. CASE v = w
    BY <1>2, <1>3, <2>1 DEF LoadedOK, TypeOK, MemoryOK
  <2>2. CASE v # w
    BY <1>2, <1>4, <2>2 DEF Sharing, LoadedOK
  <2> QED
    BY <2>1, <2>2
<1>7. ASSUME NEW v \in Worker PROVE AppliedOK(v)'
  <2>1. CASE v = w
    BY <1>3, <2>1 DEF AppliedOK, Applying
  <2>2. CASE v # w
    BY <1>2, <1>3, <1>4, <2>2 DEF Sharing, AppliedOK, Applying
  <2> QED
    BY <2>1, <2>2
<1> QED
  BY <1>5, <1>6, <1>7 DEF Sharing

\* The entry that set works on is that of its key in the map as it is now, or
\* one that no key and no other update uses.
LEMMA AppliedEntry ==
  ASSUME TypeOK, Sharing, NEW w \in Worker, SetApply(w)
  PROVE  \E e \in Entry :
           /\ loc' = [loc EXCEPT ![w] = [loc[w] EXCEPT !.ent = e]]
           /\ loc[w].snap[loc[w].key] # Nil => e = loc[w].snap[loc[w].key]
           /\ \/ e = root[loc[w].key]
              \/ /\ \A k \in AllKey : root[k] # e
                 /\ \A v \in Worker : pc[v] \in Applying => loc[v].ent # e
           /\ heap' = [heap EXCEPT ![e] = IF \E k \in AllKey : root[k] = e
                                          THEN heap[e] ELSE NewEntry]
<1> DEFINE found == loc[w].snap[loc[w].key]
<1>1. pc \in [Worker -> {"idle"} \cup Setting \cup Getting] /\ loc \in [Worker -> LocalType]
        /\ loc[w].key \in AllKey /\ loc[w].snap \in MapType /\ DOMAIN heap = Entry
  <2>1. HandlerOK(pc[w], loc[w]) /\ pc[w] = "s_apply"
    BY DEF TypeOK, WorkersOK, SetApply
  <2> QED
    BY <2>1, NilApart DEF TypeOK, WorkersOK, MemoryOK, HandlerOK, LocalType, Setting
<1>2. PICK e \in IF found # Nil THEN {found} ELSE Entry \ Allocated :
        /\ loc' = [loc EXCEPT ![w].ent = e]
        /\ heap' = [heap EXCEPT ![e] = IF found # Nil THEN heap[e] ELSE NewEntry]
  BY DEF SetApply
<1>3. e \in Entry
  BY <1>1, <1>2 DEF MapType
<1>4. loc' = [loc EXCEPT ![w] = [loc[w] EXCEPT !.ent = e]]
  BY <1>1, <1>2
<1>5. found # Nil => e = found /\ e = root[loc[w].key]
  <2>1. found # Nil => found = root[loc[w].key]
    BY <1>1 DEF SetApply, Sharing, LoadedOK, Updating
  <2> QED
    BY <1>2, <2>1
<1>6. found = Nil => /\ \A k \in AllKey : root[k] # e
                     /\ \A v \in Worker : pc[v] \in Applying => loc[v].ent # e
  <2>1. found = Nil => e \notin Allocated
    BY <1>2
  <2> QED
    BY <2>1, <1>3, NilApart DEF Allocated, Bound
<1> QED
  BY <1>1, <1>2, <1>3, <1>4, <1>5, <1>6

LEMMA ApplySharing ==
  ASSUME TypeOK, Sharing, NEW w \in Worker, SetApply(w) PROVE Sharing'
<1>1. PICK e \in Entry :
        /\ loc' = [loc EXCEPT ![w] = [loc[w] EXCEPT !.ent = e]]
        /\ loc[w].snap[loc[w].key] # Nil => e = loc[w].snap[loc[w].key]
        /\ \/ e = root[loc[w].key]
           \/ /\ \A k \in AllKey : root[k] # e
              /\ \A v \in Worker : pc[v] \in Applying => loc[v].ent # e
  BY AppliedEntry
<1>2. pc \in [Worker -> {"idle"} \cup Setting \cup Getting] /\ loc \in [Worker -> LocalType]
        /\ loc[w].key \in AllKey /\ root \in MapType
  <2>1. HandlerOK(pc[w], loc[w]) /\ pc[w] = "s_apply"
    BY DEF TypeOK, WorkersOK, SetApply
  <2> QED
    BY <2>1, NilApart DEF TypeOK, WorkersOK, MemoryOK, HandlerOK, Setting
<1>3. pc' = [pc EXCEPT ![w] = "s_move"] /\ root' = root /\ ver' = ver
  BY DEF SetApply, Goto
<1>4. /\ loc'[w].oldv = loc[w].oldv /\ loc'[w].snap = loc[w].snap
      /\ loc'[w].key = loc[w].key /\ loc'[w].ent = e /\ pc'[w] = "s_move"
  BY <1>1, <1>2, <1>3 DEF LocalType
<1>5. \A v \in Worker \ {w} : pc'[v] = pc[v] /\ loc'[v] = loc[v]
  BY <1>1, <1>2, <1>3
<1>6. Injective'
  BY <1>3 DEF Sharing, Injective
<1>7. ASSUME NEW v \in Worker PROVE LoadedOK(v)'
  <2>1. CASE v = w
    BY <1>3, <1>4, <2>1 DEF Sharing, LoadedOK, Updating, SetApply
  <2>2. CASE v # w
    BY <1>3, <1>5, <2>2 DEF Sharing, LoadedOK
  <2> QED
    BY <2>1, <2>2
<1>8. ASSUME NEW k \in AllKey, root[k] = e PROVE k = loc[w].key
  BY <1>1, <1>2, <1>8, NilApart DEF Sharing, Injective
<1>9. ASSUME NEW v \in Worker, v # w, pc[v] \in Applying, loc[v].ent = e
      PROVE  loc[v].key = loc[w].key
  BY <1>1, <1>2, <1>9 DEF Sharing, AppliedOK
<1>10. ASSUME NEW v \in Worker PROVE AppliedOK(v)'
  <2>1. CASE v = w
    BY <1>1, <1>3, <1>4, <1>5, <1>8, <1>9, <2>1 DEF AppliedOK
  <2>2. CASE v # w
    BY <1>3, <1>4, <1>5, <1>9, <2>2 DEF Sharing, AppliedOK
  <2> QED
    BY <2>1, <2>2
<1> QED
  BY <1>6, <1>7, <1>10 DEF Sharing

\* A commit adds its key to the current map, or finds it bound to the same entry.
LEMMA CommitAdds ==
  ASSUME TypeOK, Sharing, NEW w \in Worker, SetCommit(w)
  PROVE  /\ loc[w].key \in Key /\ loc[w].ent \in Entry
         /\ root' = [root EXCEPT ![loc[w].key] = loc[w].ent]
         /\ root[loc[w].key] # Nil => root[loc[w].key] = loc[w].ent
<1>1. HandlerOK(pc[w], loc[w]) /\ pc[w] = "s_cas" /\ loc[w].oldv = ver
  BY DEF TypeOK, WorkersOK, SetCommit
<1>2. loc[w].key \in Key /\ loc[w].ent \in Entry
  BY <1>1 DEF HandlerOK, Setting, Applying
<1>3. loc[w].snap = root
  BY <1>1 DEF Sharing, LoadedOK, Updating, Applying
<1>4. root[loc[w].key] # Nil => root[loc[w].key] = loc[w].ent
  BY <1>1, <1>3 DEF Sharing, AppliedOK, Applying
<1> QED
  BY <1>2, <1>3, <1>4 DEF SetCommit, Install

LEMMA CommitSharing ==
  ASSUME TypeOK, Sharing, NEW w \in Worker, SetCommit(w) PROVE Sharing'
<1> DEFINE key == loc[w].key
           e == loc[w].ent
<1>1. key \in AllKey /\ e \in Entry /\ root' = [root EXCEPT ![key] = e]
        /\ (root[key] # Nil => root[key] = e)
  BY CommitAdds, NilApart
<1>2. pc \in [Worker -> {"idle"} \cup Setting \cup Getting] /\ root \in MapType
        /\ loc \in [Worker -> LocalType] /\ ver \in Nat
  BY DEF TypeOK, WorkersOK, MemoryOK
<1>3. pc' = [pc EXCEPT ![w] = "s_stat"] /\ loc' = loc /\ ver' = ver + 1 /\ pc[w] = "s_cas"
  BY DEF SetCommit, Install, Goto
<1>4. \A k \in AllKey : root'[k] = IF k = key THEN e ELSE root[k]
  BY <1>1, <1>2 DEF MapType
<1>5. \A k \in AllKey : root[k] = e => k = key
  BY <1>3 DEF Sharing, AppliedOK, Applying
<1>6. Injective'
  BY <1>4, <1>5 DEF Sharing, Injective
<1>7. \A v \in Worker : v # w => pc'[v] = pc[v]
  BY <1>2, <1>3
<1>8. pc'[w] = "s_stat"
  BY <1>2, <1>3
<1>9. ASSUME NEW v \in Worker PROVE LoadedOK(v)'
  <2>1. CASE v = w
    BY <1>8, <2>1 DEF LoadedOK, Updating, Applying
  <2>2. CASE v # w
    <3> SUFFICES ASSUME pc[v] \in Updating
                 PROVE  /\ loc[v].oldv <= ver'
                        /\ loc[v].oldv # ver'
                        /\ \A k \in AllKey : loc[v].snap[k] # Nil =>
                                               loc[v].snap[k] = root'[k]
      BY <1>3, <1>7, <2>2 DEF LoadedOK
    <3>1. loc[v].oldv <= ver /\ loc[v].oldv \in Nat
      BY <1>2 DEF Sharing, LoadedOK, LocalType
    <3>2. \A k \in AllKey : loc[v].snap[k] # Nil => loc[v].snap[k] = root[k]
      BY DEF Sharing, LoadedOK
    <3> QED
      BY <1>1, <1>2, <1>3, <1>4, <3>1, <3>2
  <2> QED
    BY <2>1, <2>2
<1>10. ASSUME NEW v \in Worker PROVE AppliedOK(v)'
  <2>1. CASE v = w
    BY <1>8, <2>1 DEF AppliedOK, Applying
  <2>2. CASE v # w
    <3> SUFFICES ASSUME pc[v] \in Applying
                 PROVE  /\ loc[v].snap[loc[v].key] # Nil =>
                             loc[v].ent = loc[v].snap[loc[v].key]
                        /\ \A k \in AllKey : root'[k] = loc[v].ent => k = loc[v].key
                        /\ \A u \in Worker :
                             pc'[u] \in Applying /\ loc[u].ent = loc[v].ent =>
                               loc[u].key = loc[v].key
      BY <1>3, <1>7, <2>2 DEF AppliedOK
    <3>1. e = loc[v].ent => key = loc[v].key
      BY <1>3 DEF Sharing, AppliedOK, Applying
    <3>2. \A u \in Worker : pc'[u] \in Applying => pc[u] \in Applying
      BY <1>7, <1>8 DEF Applying
    <3> QED
      BY <1>4, <3>1, <3>2 DEF Sharing, AppliedOK
  <2> QED
    BY <2>1, <2>2
<1> QED
  BY <1>6, <1>9, <1>10 DEF Sharing

LEMMA WorkerSharing ==
  ASSUME TypeOK, Sharing, NEW w \in Worker, WorkerStep(w) PROVE Sharing'
<1>1. loc' = loc => loc' = [loc EXCEPT ![w] = loc[w]]
  BY DEF TypeOK, WorkersOK
<1>2. ASSUME Return(w), root' = root, ver' = ver PROVE Sharing'
  BY <1>2, KeepsSharing DEF Return, Goto, Applying
<1>3. CASE SetCall(w) \/ GetCall(w)
  <2>1. PICK p \in {"s_load", "g_load"}, k \in Key, v \in Value \cup {Nil} : Call(w, p, k, v)
    BY <1>3 DEF SetCall, GetCall
  <2> QED
    BY <2>1, KeepsSharing DEF Call, Goto, memVars, Applying
<1>4. CASE SetMove(w)
  <2> DEFINE l == [loc[w] EXCEPT !.arg = Empty]
  <2>1. l.key = loc[w].key /\ l.snap = loc[w].snap /\ l.oldv = loc[w].oldv
          /\ l.ent = loc[w].ent
    BY DEF TypeOK, WorkersOK, LocalType
  <2>2. loc' = [loc EXCEPT ![w] = l]
    BY <1>4 DEF SetMove, TypeOK, WorkersOK
  <2> HIDE DEF l
  <2> QED
    BY <1>4, <2>1, <2>2, KeepsSharing DEF SetMove, Goto, Applying
<1>5. CASE SetCount(w)
  BY <1>1, <1>5, KeepsSharing DEF SetCount, Goto, Applying
<1>6. CASE SetRetry(w)
  <2>1. loc' = [loc EXCEPT ![w] = [loc[w] EXCEPT !.oldv = 0, !.snap = NoMap, !.ent = Nil]]
    BY <1>6 DEF SetRetry, TypeOK, WorkersOK
  <2> QED
    BY <1>6, <2>1, KeepsSharing DEF SetRetry, Goto, memVars, Applying
<1>7. CASE SetStat(w) \/ GetCount(w) \/ GetStat(w)
  BY <1>1, <1>7, KeepsSharing DEF SetStat, GetCount, CountRead, GetStat, Goto, memVars,
                                  Applying
<1>8. CASE SetDirty(w) \/ GetMiss(w) \/ GetValue(w)
  BY <1>2, <1>8 DEF SetDirty, GetMiss, GetValue, memVars
<1>9. CASE GetHit(w) \/ GetReads(w) \/ GetWrites(w)
  <2>1. PICK l : loc' = [loc EXCEPT ![w] = l]
    BY <1>9 DEF GetHit, Find, GetReads, GetWrites, TypeOK, WorkersOK
  <2> QED
    BY <1>9, <2>1, KeepsSharing DEF GetHit, Find, GetReads, GetWrites, Goto, memVars,
                                    Applying
<1> QED
  BY <1>3, <1>4, <1>5, <1>6, <1>7, <1>8, <1>9, LoadSharing, ApplySharing, CommitSharing
  DEF WorkerStep, WorkerRun

LEMMA StepSharing == TypeOK /\ Stopped /\ Sharing /\ [Next]_vars => Sharing'
<1> SUFFICES ASSUME TypeOK, Stopped, Sharing, [Next]_vars PROVE Sharing'
  OBVIOUS
<1>1. ASSUME UNCHANGED <<root, ver, pc, loc>> PROVE Sharing'
  BY <1>1 DEF Sharing, Injective, LoadedOK, AppliedOK
<1>2. CASE UNCHANGED vars
  BY <1>1, <1>2 DEF vars, memVars, workVars
<1>3. CASE Start
  <2>1. Injective'
    BY <1>3 DEF Start, Injective
  <2>2. \A w \in Worker : pc'[w] = "idle"
    BY <1>3 DEF Start, Stopped, workVars
  <2> QED
    BY <2>1, <2>2 DEF Sharing, LoadedOK, AppliedOK, Updating, Applying
<1>4. ASSUME NEW w \in Worker, WorkerStep(w) PROVE Sharing'
  BY <1>4, WorkerSharing
<1>5. CASE SaverRun
  BY <1>1, <1>5, SaverFrame DEF saverFrame, memVars, workVars
<1>6. CASE End
  BY <1>6, EndFrame DEF Sharing, Injective, LoadedOK, AppliedOK, Updating, Applying, NoMap
<1> QED
  BY <1>2, <1>3, <1>4, <1>5, <1>6 DEF Next, StartFails, SaveSkip, WorkerStep, End
-----------------------------------------------------------------------------
Structure == TypeOK /\ Stopped /\ Sharing

LEMMA InitStructure == Init => Structure
<1> SUFFICES ASSUME Init PROVE Structure
  OBVIOUS
<1>1. Stopped
  BY DEF Init, Stopped
<1>2. Sharing
  BY DEF Init, Sharing, Injective, LoadedOK, AppliedOK, Updating, Applying, NoMap
<1> QED
  BY <1>1, <1>2, InitType DEF Structure

LEMMA StepStructure == Structure /\ [Next]_vars => Structure'
BY StepType, StepStopped, StepSharing DEF Structure

THEOREM StructureInvariant == Spec => []Structure
BY InitStructure, StepStructure, PTL DEF Spec

\* Only a commit changes the map of a running process.
LEMMA WorkerRoot ==
  ASSUME NEW w \in Worker, WorkerStep(w), ~SetCommit(w) PROVE root' = root
<1>1. CASE SetCall(w) \/ GetCall(w)
  BY <1>1 DEF SetCall, GetCall, Call, memVars
<1>2. CASE SetLoad(w) \/ SetApply(w) \/ SetMove(w) \/ SetCount(w) \/ SetRetry(w)
  BY <1>2 DEF SetLoad, SetApply, SetMove, SetCount, SetRetry, memVars
<1>3. CASE SetStat(w) \/ SetDirty(w) \/ GetMiss(w) \/ GetHit(w) \/ GetCount(w)
  BY <1>3 DEF SetStat, SetDirty, GetMiss, GetHit, Find, GetCount, CountRead, memVars
<1>4. CASE GetStat(w) \/ GetReads(w) \/ GetWrites(w) \/ GetValue(w)
  BY <1>4 DEF GetStat, GetReads, GetWrites, GetValue, memVars
<1> QED
  BY <1>1, <1>2, <1>3, <1>4 DEF WorkerStep, WorkerRun

LEMMA StepBindings ==
  ASSUME Structure, [Next]_vars
  PROVE  up /\ up' => \A k \in Bound : root'[k] = root[k]
<1>1. CASE UNCHANGED vars
  BY <1>1 DEF vars, memVars
<1>2. CASE Start
  BY <1>2 DEF Start
<1>3. ASSUME NEW w \in Worker, WorkerStep(w)
      PROVE  \A k \in Bound : root'[k] = root[k]
  <2>1. CASE SetCommit(w)
    BY <2>1, CommitAdds DEF Structure, TypeOK, MemoryOK, MapType, Bound
  <2>2. CASE ~SetCommit(w)
    BY <1>3, <2>2, WorkerRoot
  <2> QED
    BY <2>1, <2>2
<1>4. CASE SaverRun
  BY <1>4, SaverFrame DEF saverFrame, memVars, Structure
<1>5. CASE End
  BY <1>5, EndFrame
<1> QED
  BY <1>1, <1>2, <1>3, <1>4, <1>5 DEF Next, StartFails, SaveSkip, WorkerStep, End

\* As long as the process runs, a bound key keeps its entry: an update never
\* overwrites what another thread committed after it loaded the map.
THEOREM BindingsNeverLost == Spec => BindingStable
<1>1. Structure /\ [Next]_vars => [up /\ up' => \A k \in Bound : root'[k] = root[k]]_vars
  BY StepBindings
<1> QED
  BY <1>1, StructureInvariant, PTL DEF Spec, BindingStable

-----------------------------------------------------------------------------
(* No update is lost between the map and config.dat.                       *)

LEMMA WorkerAlone ==
  ASSUME TypeOK, NEW w \in Worker, WorkerStep(w), NEW v \in Worker, v # w
  PROVE  pc'[v] = pc[v] /\ loc'[v] = loc[v]
<1> USE DEF TypeOK, WorkersOK, Goto, Return
<1>1. CASE SetCall(w) \/ GetCall(w)
  BY <1>1 DEF SetCall, GetCall, Call
<1>2. CASE SetLoad(w) \/ SetMove(w) \/ SetCount(w) \/ SetRetry(w)
  BY <1>2 DEF SetLoad, SetMove, SetCount, SetRetry
<1>3. CASE SetApply(w)
  BY <1>3 DEF SetApply
<1>4. CASE SetCommit(w) \/ SetStat(w) \/ SetDirty(w) \/ GetMiss(w)
  BY <1>4 DEF SetCommit, Install, SetStat, SetDirty, GetMiss
<1>5. CASE GetHit(w) \/ GetCount(w) \/ GetStat(w)
  BY <1>5 DEF GetHit, Find, GetCount, CountRead, GetStat
<1>6. CASE GetReads(w) \/ GetWrites(w) \/ GetValue(w)
  BY <1>6 DEF GetReads, GetWrites, GetValue
<1> QED
  BY <1>1, <1>2, <1>3, <1>4, <1>5, <1>6 DEF WorkerStep, WorkerRun

\* A set under way stays under way, on its key, until it has set dirty_.
LEMMA SetGoesOn ==
  ASSUME TypeOK, NEW w \in Worker, WorkerStep(w), pc[w] \in Setting
  PROVE  (pc'[w] \in Setting /\ loc'[w].key = loc[w].key) \/ dirty' = TRUE
<1> USE DEF TypeOK, WorkersOK, Goto, LocalType
<1>1. SetLoad(w) \/ SetApply(w) \/ SetMove(w) \/ SetCount(w) \/ SetCommit(w)
        \/ SetRetry(w) \/ SetStat(w) \/ SetDirty(w)
  BY DEF WorkerStep, WorkerRun, SetCall, GetCall, Call, GetMiss, GetHit, GetCount,
         CountRead, GetStat, GetReads, GetWrites, GetValue, Setting, Applying
<1>2. CASE SetLoad(w)
  BY <1>2 DEF SetLoad, Setting
<1>3. CASE SetApply(w)
  BY <1>3 DEF SetApply, Setting, Applying
<1>4. CASE SetMove(w)
  BY <1>4 DEF SetMove, Setting, Applying
<1>5. CASE SetCount(w) \/ SetCommit(w) \/ SetStat(w)
  BY <1>5 DEF SetCount, SetCommit, Install, SetStat, Setting, Applying
<1>6. CASE SetRetry(w)
  BY <1>6 DEF SetRetry, Setting
<1>7. CASE SetDirty(w)
  BY <1>7 DEF SetDirty
<1> QED
  BY <1>1, <1>2, <1>3, <1>4, <1>5, <1>6, <1>7

\* The entry e looks the same after a step that leaves its string alone.
LEMMA SameVisible ==
  ASSUME TypeOK, NEW w \in Worker, WorkerStep(w), NEW e \in Entry,
         heap'[e].value = heap[e].value,
         pc[w] = "s_move" => loc[w].ent # e,
         pc'[w] = "s_move" => loc'[w].ent # e
  PROVE  Visible(e)' = Visible(e)
<1>1. ASSUME NEW v \in Worker
      PROVE  pc'[v] = "s_move" /\ loc'[v].ent = e <=> pc[v] = "s_move" /\ loc[v].ent = e
  BY WorkerAlone
<1>2. Writers(e)' = Writers(e)
  BY <1>1 DEF Writers
<1> QED
  BY <1>2 DEF Visible

\* What a get of k would return is changed only by a set of k.
LEMMA OnlySetsChange ==
  ASSUME Structure, NEW w \in Worker, WorkerStep(w), NEW k \in AllKey
  PROVE  \/ pc'[w] \in Setting /\ loc'[w].key = k
         \/ root'[k] = root[k] /\ (root[k] # Nil => Visible(root[k])' = Visible(root[k]))
<1> USE DEF Structure
<1>t. /\ HandlerOK(pc[w], loc[w]) /\ loc \in [Worker -> LocalType]
      /\ pc \in [Worker -> {"idle"} \cup Setting \cup Getting]
      /\ root \in MapType /\ heap \in [Entry -> [value : Content, reads : Nat, writes : Nat]]
  BY DEF TypeOK, WorkersOK, MemoryOK
<1>e. root[k] # Nil => root[k] \in Entry
  BY <1>t DEF MapType
<1>1. CASE SetApply(w)
  <2>1. pc'[w] = "s_move" /\ pc[w] = "s_apply" /\ root' = root
    BY <1>1, <1>t DEF SetApply, Goto
  <2>2. PICK e \in Entry :
          /\ loc' = [loc EXCEPT ![w] = [loc[w] EXCEPT !.ent = e]]
          /\ \/ e = root[loc[w].key]
             \/ \A j \in AllKey : root[j] # e
          /\ heap' = [heap EXCEPT ![e] = IF \E j \in AllKey : root[j] = e
                                         THEN heap[e] ELSE NewEntry]
    BY <1>1, AppliedEntry
  <2>3. loc'[w].key = loc[w].key /\ loc'[w].ent = e
    BY <1>t, <2>2 DEF LocalType
  <2>4. CASE loc[w].key = k
    BY <2>1, <2>3, <2>4 DEF Setting, Applying
  <2>5. CASE loc[w].key # k
    <3> SUFFICES ASSUME root[k] # Nil PROVE Visible(root[k])' = Visible(root[k])
      BY <2>1
    <3>1. loc[w].key \in AllKey
      BY <1>t, <2>1, NilApart DEF HandlerOK, Setting
    <3>2. root[k] # e
      BY <2>2, <2>5, <3>1 DEF Sharing, Injective
    <3>3. heap'[root[k]] = heap[root[k]]
      BY <1>e, <1>t, <2>2, <3>2
    <3>4. \A x \in Entry : x = root[k] => Visible(x)' = Visible(x)
      BY <2>1, <2>3, <3>2, <3>3, SameVisible
    <3> QED
      BY <1>e, <2>1, <3>4 DEF Visible, Writers
  <2> QED
    BY <2>4, <2>5
<1>2. CASE SetMove(w)
  <2>1. pc[w] = "s_move" /\ pc'[w] = "s_count" /\ root' = root /\ loc[w].ent \in Entry
    BY <1>2, <1>t DEF SetMove, Goto, HandlerOK, Applying
  <2>2. loc'[w].key = loc[w].key
    BY <1>2, <1>t DEF SetMove, LocalType
  <2>3. CASE loc[w].key = k
    BY <2>1, <2>2, <2>3 DEF Setting, Applying
  <2>4. CASE loc[w].key # k
    <3> SUFFICES ASSUME root[k] # Nil PROVE Visible(root[k])' = Visible(root[k])
      BY <2>1
    <3>1. root[k] # loc[w].ent
      BY <2>1, <2>4 DEF Sharing, AppliedOK, Applying
    <3>2. heap'[root[k]] = heap[root[k]]
      BY <1>2, <1>e, <1>t, <3>1 DEF SetMove
    <3>3. \A x \in Entry : x = root[k] => Visible(x)' = Visible(x)
      BY <2>1, <3>1, <3>2, SameVisible
    <3> QED
      BY <1>e, <2>1, <3>3 DEF Visible, Writers
  <2> QED
    BY <2>3, <2>4
<1>3. CASE SetCommit(w)
  <2>1. pc[w] = "s_cas" /\ pc'[w] = "s_stat" /\ loc' = loc /\ heap' = heap
    BY <1>3, <1>t DEF SetCommit, Install, Goto
  <2>2. CASE loc[w].key = k
    BY <2>1, <2>2 DEF Setting
  <2>3. CASE loc[w].key # k
    <3>1. root'[k] = root[k]
      BY <1>3, <1>t, <2>3, CommitAdds DEF MapType
    <3>2. \A x \in Entry : x = root[k] => Visible(x)' = Visible(x)
      BY <2>1, SameVisible
    <3> QED
      BY <1>e, <3>1, <3>2 DEF Visible, Writers
  <2> QED
    BY <2>2, <2>3
<1>4. CASE ~SetApply(w) /\ ~SetMove(w) /\ ~SetCommit(w)
  <2>1. root' = root
    BY <1>4, WorkerRoot
  <2>2. pc[w] # "s_move" /\ pc'[w] # "s_move"
    BY <1>4, <1>t DEF WorkerStep, WorkerRun, SetCall, GetCall, Call, SetLoad, SetCount,
       SetRetry, SetStat, SetDirty, GetMiss, GetHit, Find, GetCount, CountRead,
       GetStat, GetReads, GetWrites, GetValue, Return, Goto
  <2>3. ASSUME NEW e \in Entry PROVE heap'[e].value = heap[e].value
    <3>1. CASE SetCount(w)
      BY <1>t, <3>1 DEF SetCount
    <3>2. CASE GetCount(w)
      BY <1>t, <3>2 DEF GetCount, CountRead
    <3>3. CASE ~SetCount(w) /\ ~GetCount(w)
      BY <1>4, <3>3 DEF WorkerStep, WorkerRun, SetCall, GetCall, Call, SetLoad,
         SetRetry, SetStat, SetDirty, GetMiss, GetHit, Find, GetStat, GetReads,
         GetWrites, GetValue, memVars
    <3> QED
      BY <3>1, <3>2, <3>3
  <2>4. \A x \in Entry : Visible(x)' = Visible(x)
    BY <2>2, <2>3, SameVisible
  <2> QED
    BY <1>e, <2>1, <2>4 DEF Visible, Writers
<1> QED
  BY <1>1, <1>2, <1>3, <1>4

-----------------------------------------------------------------------------
LEMMA StepSnapshot ==
  ASSUME Structure, SnapshotOK, [Next]_vars PROVE SnapshotOK'
<1> USE DEF Structure
<1>1. CASE UNCHANGED vars
  BY <1>1 DEF vars, memVars, SnapshotOK
<1>2. CASE Start
  BY <1>2 DEF Start, Stopped, IdleSaver, SnapshotOK
<1>3. ASSUME NEW w \in Worker, WorkerStep(w) PROVE SnapshotOK'
  <2>1. saver' = saver /\ up = TRUE /\ up' = TRUE
    BY <1>3, WorkerFrame DEF procVars
  <2>2. \A k \in saver.todo : k \in Bound
    BY NilApart DEF TypeOK, SaverOK, SnapshotOK, Bound
  <2>3. \A k \in Bound : root'[k] = root[k]
    BY <1>3, <2>1, StepBindings DEF Next, WorkerStep
  <2> QED
    BY <2>1, <2>2, <2>3 DEF SnapshotOK
<1>4. CASE SaverRun
  <2>1. root' = root
    BY <1>4, SaverFrame DEF saverFrame, memVars
  <2>2. CASE SaveCheck \/ SaveOpen \/ SaveSize \/ SaveData
    <3>1. SaveData => saver'.snap = saver.snap /\ saver'.todo = saver.todo \ {saver.cur}
      BY DEF SaveData, TypeOK, SaverOK
    <3>2. SaveCheck \/ SaveOpen \/ SaveSize =>
            saver'.snap = saver.snap /\ saver'.todo = saver.todo
      BY DEF SaveCheck, SaveOpen, SaveSize, TypeOK, SaverOK
    <3>3. saver'.snap = saver.snap /\ saver'.todo \subseteq saver.todo
      BY <2>2, <3>1, <3>2
    <3> QED
      BY <2>1, <3>3 DEF SnapshotOK
  <2>3. CASE SaveSnap
    BY <2>1, <2>3 DEF SaveSnap, SnapshotOK, TypeOK, SaverOK
  <2>4. CASE SaveEnd
    BY <2>4 DEF SaveEnd, FinishSave, IdleSaver, SnapshotOK
  <2> QED
    BY <1>4, <2>2, <2>3, <2>4 DEF SaverRun
<1>5. CASE End
  BY <1>5, EndFrame DEF IdleSaver, SnapshotOK
<1> QED
  BY <1>1, <1>2, <1>3, <1>4, <1>5 DEF Next, StartFails, SaveSkip, WorkerStep, End

LEMMA WorkerMarks ==
  ASSUME TypeOK, NEW w \in Worker, WorkerStep(w)
  PROVE  /\ \/ set_total' = set_total /\ pc'[w] # "s_dirty"
            \/ set_total' = set_total + 1 /\ pc'[w] = "s_dirty"
         /\ pc[w] = "s_dirty" => dirty' = TRUE
         /\ dirty' = dirty \/ pc[w] = "s_dirty"
<1> USE DEF TypeOK, WorkersOK, Goto, Return
<1>1. CASE SetCall(w) \/ GetCall(w)
  BY <1>1 DEF SetCall, GetCall, Call, statVars
<1>2. CASE SetLoad(w) \/ SetApply(w) \/ SetMove(w) \/ SetCount(w)
  BY <1>2 DEF SetLoad, SetApply, SetMove, SetCount, statVars
<1>3. CASE SetCommit(w) \/ SetRetry(w) \/ SetStat(w) \/ SetDirty(w)
  BY <1>3 DEF SetCommit, Install, SetRetry, SetStat, SetDirty, statVars
<1>4. CASE GetMiss(w) \/ GetHit(w) \/ GetCount(w) \/ GetStat(w)
  BY <1>4 DEF GetMiss, GetHit, Find, GetCount, CountRead, GetStat, statVars
<1>5. CASE GetReads(w) \/ GetWrites(w) \/ GetValue(w)
  BY <1>5 DEF GetReads, GetWrites, GetValue, statVars
<1> QED
  BY <1>1, <1>2, <1>3, <1>4, <1>5 DEF WorkerStep, WorkerRun

\* A mark that is due is set in time.
LEMMA MarkGoesOn ==
  ASSUME TypeOK, NEW w \in Worker, WorkerStep(w)
  PROVE  /\ Marking => Marking' \/ dirty' = TRUE
         /\ Marking' => Marking \/ set_total' = set_total + 1
         /\ dirty' = dirty \/ Marking
<1>1. ASSUME NEW v \in Worker, v # w
      PROVE  pc'[v] = pc[v]
  BY <1>1, WorkerAlone
<1> QED
  BY <1>1, WorkerMarks DEF Marking

LEMMA StepSetFirst ==
  ASSUME Structure, SetFirst, [Next]_vars PROVE SetFirst'
<1> USE DEF Structure
<1>1. CASE UNCHANGED vars
  BY <1>1 DEF vars, statVars, workVars, procVars, SetFirst, Marking
<1>2. CASE Start
  BY <1>2 DEF Start, statVars, workVars, SetFirst, Marking
<1>3. ASSUME NEW w \in Worker, WorkerStep(w) PROVE SetFirst'
  <2>1. up' = TRUE /\ saver' = saver
    BY <1>3, WorkerFrame DEF procVars
  <2>2. set_total \in Nat /\ (set_total' = set_total \/ set_total' = set_total + 1)
    BY <1>3, WorkerMarks DEF TypeOK, CountsOK
  <2>3. dirty' \/ Marking' => dirty \/ Marking \/ set_total' = set_total + 1
    BY <1>3, MarkGoesOn
  <2> QED
    BY <2>1, <2>2, <2>3 DEF SetFirst
<1>4. CASE SaverRun
  <2>1. up' = TRUE /\ set_total' = set_total /\ pc' = pc
    BY <1>4, SaverFrame DEF saverFrame, procVars, workVars
  <2>2. dirty \/ saver.pc # "wait"
    BY <1>4 DEF SaverRun, SaveCheck, SaveOpen, SaveSnap, SaveSize, SaveData, SaveEnd, FinishSave
  <2> QED
    BY <2>1, <2>2 DEF SetFirst
<1>5. CASE End
  BY <1>5, EndFrame DEF IdleSaver, SetFirst, Marking
<1> QED
  BY <1>1, <1>2, <1>3, <1>4, <1>5 DEF Next, StartFails, SaveSkip, WorkerStep, End

LEMMA StepFileKnown ==
  ASSUME Structure, SetFirst, FileKnown, [Next]_vars PROVE FileKnown'
<1> USE DEF Structure
<1>1. CASE UNCHANGED vars
  BY <1>1 DEF vars, procVars, statVars, workVars, FileKnown, Claimed, Marking
<1>2. CASE Start
  <2>1. saver'.pc # "snap"
    BY <1>2 DEF Start, Stopped, IdleSaver
  <2>2. bootClean' => file'.state # "cut"
    BY <1>2 DEF Start
  <2>3. ~(set_total' > 0)
    BY <1>2 DEF Start, statVars, SetFirst
  <2> QED
    BY <2>1, <2>2, <2>3 DEF FileKnown, Claimed
<1>3. ASSUME NEW w \in Worker, WorkerStep(w) PROVE FileKnown'
  <2>1. up = TRUE /\ UNCHANGED <<saver, file, procVars>>
    BY <1>3, WorkerFrame
  <2>2. CASE set_total' = set_total
    <3>1. Claimed' => Claimed
      BY <2>1, <2>2 DEF Claimed, procVars
    <3>2. dirty \/ Marking => dirty' \/ Marking'
      BY <1>3, MarkGoesOn
    <3> QED
      BY <2>1, <3>1, <3>2 DEF FileKnown
  <2>3. CASE set_total' # set_total
    <3>1. Marking'
      BY <1>3, <2>3, WorkerMarks DEF Marking
    <3> QED
      BY <2>1, <3>1 DEF FileKnown
  <2> QED
    BY <2>2, <2>3
<1>4. CASE SaverRun
  <2>1. CASE SaveCheck \/ SaveSnap \/ SaveSize \/ SaveData
    <3>1. saver'.pc \in {"open", "loop", "data"}
      BY <2>1 DEF SaveCheck, SaveSnap, SaveSize, SaveData, TypeOK, SaverOK
    <3> QED
      BY <3>1 DEF FileKnown
  <2>2. CASE SaveOpen
    BY <2>2 DEF SaveOpen, TypeOK, SaverOK, FileKnown
  <2>3. CASE SaveEnd
    BY <2>3 DEF SaveEnd, FinishSave, IdleSaver, TypeOK, FileOK, FileKnown
  <2> QED
    BY <1>4, <2>1, <2>2, <2>3 DEF SaverRun
<1>5. CASE End
  BY <1>5, EndFrame DEF IdleSaver, FileKnown, Claimed
<1> QED
  BY <1>1, <1>2, <1>3, <1>4, <1>5 DEF Next, StartFails, SaveSkip, WorkerStep, End

\* After a start from a whole file the map is what the file holds.
LEMMA StartRemembered ==
  ASSUME Structure, Start, bootClean', NEW k \in AllKey PROVE Written(k)'
<1>1. saver' = IdleSaver /\ file' = file /\ \A w \in Worker : pc'[w] = "idle"
  BY DEF Start, Structure, Stopped, workVars
<1>2. JunkLoads = {{}}
  BY DEF Start, JunkLoads
<1>3. PICK junk \in JunkLoads, r \in [AllKey -> Entry \cup {Nil}] :
        /\ \A j \in AllKey : r[j] # Nil <=> j \in junk \/ file.rec[j] # Nil
        /\ \A i, j \in AllKey : r[i] = r[j] /\ r[j] # Nil => i = j
        /\ root' = r
        /\ heap' = [e \in Entry |->
             IF \A j \in AllKey : r[j] # e THEN NewEntry
             ELSE LET j == CHOOSE j \in AllKey : r[j] = e
                  IN [NewEntry EXCEPT !.value =
                        IF j \in junk THEN Torn ELSE file.rec[j]]]
  BY DEF Start
<1>4. CASE r[k] = Nil
  <2>1. file.rec[k] = Nil
    BY <1>3, <1>4
  <2>2. OnFile(k)'
    BY <1>1, <1>3, <1>4, <2>1 DEF OnFile
  <2> QED
    BY <1>1, <2>2 DEF Written, IdleSaver
<1>5. CASE r[k] # Nil
  <2>1. r[k] \in Entry
    BY <1>3, <1>5
  <2>2. (CHOOSE j \in AllKey : r[j] = r[k]) = k
    BY <1>3, <1>5
  <2>3. heap'[r[k]] = [NewEntry EXCEPT !.value = file.rec[k]]
    BY <1>2, <1>3, <2>1, <2>2
  <2>4. heap'[r[k]].value = file.rec[k]
    BY <2>3 DEF NewEntry
  <2>5. Visible(root[k])' = file.rec[k]
    BY <1>1, <1>3, <2>4 DEF Visible, Writers
  <2>6. OnFile(k)'
    BY <1>1, <1>3, <1>5, <2>5 DEF OnFile
  <2> QED
    BY <1>1, <2>6 DEF Written, IdleSaver
<1> QED
  BY <1>4, <1>5

LEMMA WorkerRemembered ==
  ASSUME Structure, SnapshotOK, NEW w \in Worker, WorkerStep(w),
         NEW k \in AllKey, Remembered(k)
  PROVE  Remembered(k)'
<1> USE DEF Structure
<1>1. saver' = saver /\ file' = file /\ (dirty => dirty')
  BY WorkerFrame
<1>2. CASE pc'[w] \in Setting /\ loc'[w].key = k
  BY <1>2 DEF Remembered, BeingSet
<1>3. CASE root'[k] = root[k] /\ (root[k] # Nil => Visible(root[k])' = Visible(root[k]))
  <2>1. CASE dirty
    BY <1>1, <2>1 DEF Remembered
  <2>2. CASE BeingSet(k)
    <3>1. PICK v \in Worker : pc[v] \in Setting /\ loc[v].key = k
      BY <2>2 DEF BeingSet
    <3>2. (pc'[v] \in Setting /\ loc'[v].key = k) \/ dirty' = TRUE
      BY <3>1, SetGoesOn, WorkerAlone
    <3> QED
      BY <3>2 DEF Remembered, BeingSet
  <2>3. CASE ToBeWritten(k)
    <3>1. k \in saver.todo => root[k] # Nil
      BY NilApart DEF TypeOK, SaverOK, SnapshotOK
    <3>2. ToBeWritten(k)'
      BY <1>1, <1>3, <2>3, <3>1 DEF ToBeWritten
    <3> QED
      BY <3>2 DEF Remembered
  <2>4. CASE Written(k)
    <3>1. Written(k)'
      BY <1>1, <1>3, <2>4 DEF Written, OnFile
    <3> QED
      BY <3>1 DEF Remembered
  <2> QED
    BY <2>1, <2>2, <2>3, <2>4 DEF Remembered
<1> QED
  BY <1>2, <1>3, OnlySetsChange

LEMMA SaverRemembered ==
  ASSUME Structure, SnapshotOK, FileKnown, SaverRun, NEW k \in AllKey, Remembered(k)
  PROVE  Remembered(k)'
<1> USE DEF Structure
<1>1. root' = root /\ pc' = pc /\ loc' = loc /\ heap' = heap
  BY SaverFrame DEF saverFrame, memVars, workVars
<1>2. \A e : Visible(e)' = Visible(e)
  BY <1>1 DEF Visible, Writers
<1>3. BeingSet(k)' <=> BeingSet(k)
  BY <1>1 DEF BeingSet
<1>4. \A j \in saver.todo : saver.snap[j] = root[j] /\ root[j] # Nil
  BY NilApart DEF SnapshotOK, TypeOK, SaverOK
<1>5. CASE SaveCheck \/ SaveOpen
  <2>1. saver'.pc \in {"open", "snap"}
    BY <1>5 DEF SaveCheck, SaveOpen, TypeOK, SaverOK
  <2> QED
    BY <2>1 DEF Remembered, ToBeWritten
<1>6. CASE SaveSnap
  <2>1. saver'.pc = "loop" /\ saver'.todo = Bound /\ file' = file /\ file.rec = NoMap
    BY <1>6 DEF SaveSnap, TypeOK, SaverOK, FileKnown
  <2>2. CASE k \in Bound
    BY <2>1, <2>2 DEF Remembered, ToBeWritten
  <2>3. CASE k \notin Bound
    <3>1. OnFile(k)'
      BY <1>1, <2>1, <2>3 DEF OnFile, Bound, NoMap
    <3> QED
      BY <2>1, <2>3, <3>1 DEF Remembered, Written
  <2> QED
    BY <2>2, <2>3
<1>7. CASE SaveSize
  <2>1. PICK j \in saver.todo :
          saver' = [saver EXCEPT !.pc = "data", !.cur = j, !.size = Visible(saver.snap[j])]
    BY <1>7 DEF SaveSize
  <2>2. /\ saver.pc = "loop" /\ dirty' = dirty /\ file' = file
        /\ saver'.pc = "data" /\ saver'.cur = j /\ saver'.todo = saver.todo
        /\ saver'.size = Visible(root[j])
    BY <1>4, <1>7, <2>1 DEF SaveSize, TypeOK, SaverOK
  <2>3. ToBeWritten(k) => ToBeWritten(k)'
    BY <1>1, <1>2, <2>2 DEF ToBeWritten
  <2>4. Written(k) => Written(k)'
    BY <1>1, <1>2, <2>2 DEF Written, OnFile
  <2> QED
    BY <1>3, <2>2, <2>3, <2>4 DEF Remembered
<1>8. CASE SaveData
  <2>1. /\ saver.pc = "data" /\ dirty' = dirty
        /\ saver'.pc = "loop" /\ saver'.todo = saver.todo \ {saver.cur}
    BY <1>8 DEF SaveData, TypeOK, SaverOK
  <2>2. saver.cur \in saver.todo /\ saver.cur \in AllKey
    BY <2>1 DEF TypeOK, SaverOK
  <2>3. PICK v \in IF Visible(root[saver.cur]) = saver.size
                   THEN {Visible(root[saver.cur])}
                   ELSE {Visible(root[saver.cur]), Torn} :
          file' = [file EXCEPT !.rec[saver.cur] = v]
    BY <1>4, <1>8, <2>2 DEF SaveData
  <2>4. file'.rec = [file.rec EXCEPT ![saver.cur] = v] /\ DOMAIN file.rec = AllKey
    BY <2>3 DEF TypeOK, FileOK
  <2>5. CASE k = saver.cur
    <3>1. ToBeWritten(k) => Written(k)'
      BY <1>1, <1>2, <1>4, <2>1, <2>2, <2>3, <2>4, <2>5 DEF ToBeWritten, Written, OnFile
    <3>2. ~Written(k)
      BY <2>2, <2>5 DEF Written
    <3> QED
      BY <1>3, <2>1, <3>1, <3>2 DEF Remembered
  <2>6. CASE k # saver.cur
    <3>1. ToBeWritten(k) => ToBeWritten(k)'
      BY <2>1, <2>6 DEF ToBeWritten
    <3>2. Written(k) => Written(k)'
      BY <1>1, <1>2, <2>1, <2>4, <2>6 DEF Written, OnFile
    <3> QED
      BY <1>3, <2>1, <3>1, <3>2 DEF Remembered
  <2> QED
    BY <2>5, <2>6
<1>9. CASE SaveEnd
  <2>1. /\ saver.pc = "loop" /\ saver.todo = {} /\ dirty' = dirty
        /\ saver'.pc = "wait" /\ saver'.todo = {} /\ file'.rec = file.rec
    BY <1>9 DEF SaveEnd, FinishSave, IdleSaver, TypeOK, FileOK
  <2>2. ~ToBeWritten(k)
    BY <2>1 DEF ToBeWritten
  <2>3. Written(k) => Written(k)'
    BY <1>1, <1>2, <2>1 DEF Written, OnFile
  <2> QED
    BY <1>3, <2>1, <2>2, <2>3 DEF Remembered
<1> QED
  BY <1>5, <1>6, <1>7, <1>8, <1>9 DEF SaverRun

LEMMA StepSaving == Structure /\ Saving /\ [Next]_vars => Saving'
<1> SUFFICES ASSUME Structure, Saving, [Next]_vars PROVE Saving'
  OBVIOUS
<1>1. SnapshotOK /\ SetFirst /\ FileKnown /\ SnapshotOK' /\ SetFirst' /\ FileKnown'
  BY StepSnapshot, StepSetFirst, StepFileKnown DEF Saving
<1> SUFFICES ASSUME Claimed', NEW k \in AllKey PROVE Remembered(k)' \/ Marking'
  BY <1>1 DEF Saving
<1>2. CASE UNCHANGED vars
  BY <1>2 DEF vars, memVars, statVars, workVars, procVars, Saving, Remembered, Claimed, Marking,
     BeingSet, ToBeWritten, Written, OnFile, Visible, Writers
<1>3. CASE Start
  <2>1. ~(set_total' > 0)
    BY <1>1, <1>3 DEF Start, statVars, SetFirst
  <2>2. bootClean'
    BY <2>1 DEF Claimed
  <2> QED
    BY <1>3, <2>2, StartRemembered DEF Remembered
<1>4. ASSUME NEW w \in Worker, WorkerStep(w) PROVE Remembered(k)' \/ Marking'
  <2>1. TypeOK /\ up = TRUE /\ bootClean' = bootClean
    BY <1>4, WorkerFrame DEF procVars, Structure
  <2>2. CASE set_total' # set_total
    BY <1>4, <2>1, <2>2, WorkerMarks DEF Marking
  <2>3. CASE set_total' = set_total
    <3>1. Claimed
      BY <2>1, <2>3 DEF Claimed
    <3>2. CASE Remembered(k)
      BY <1>1, <1>4, <3>2, WorkerRemembered
    <3>3. CASE Marking
      BY <1>4, <2>1, <3>3, MarkGoesOn DEF Remembered
    <3> QED
      BY <3>1, <3>2, <3>3 DEF Saving
  <2> QED
    BY <2>2, <2>3
<1>5. CASE SaverRun
  <2>1. Claimed /\ pc' = pc
    BY <1>5, SaverFrame DEF saverFrame, procVars, workVars, Structure, Claimed
  <2>2. CASE Remembered(k)
    BY <1>1, <1>5, <2>2, SaverRemembered
  <2>3. CASE Marking
    BY <2>1, <2>3 DEF Marking
  <2> QED
    BY <2>1, <2>2, <2>3 DEF Saving
<1>6. CASE End
  BY <1>6, EndFrame DEF Claimed
<1> QED
  BY <1>2, <1>3, <1>4, <1>5, <1>6 DEF Next, StartFails, SaveSkip, WorkerStep, End

LEMMA InitSaving == Init => Saving
BY DEF Init, Saving, SnapshotOK, SetFirst, FileKnown, IdleSaver, Claimed, Marking

\* Whenever no set and no flush is under way and dirty_ is clear, config.dat is
\* complete and holds what the map holds, in a process that was not started from a cut
\* file or that has completed a set since.
THEOREM NothingLost == Spec => []NoLostUpdate
<1>1. Saving => NoLostUpdate
  <2> SUFFICES ASSUME Saving, Claimed, ~dirty, saver.pc = "wait",
                      \A w \in Worker : pc[w] \notin Setting
               PROVE  file.state # "cut" /\ \A k \in AllKey : OnFile(k)
    BY DEF NoLostUpdate, Claimed
  <2>1. ~Marking /\ \A k : ~BeingSet(k)
    BY DEF Marking, BeingSet, Setting
  <2>2. \A k : ~ToBeWritten(k)
    BY DEF ToBeWritten
  <2> QED
    BY <2>1, <2>2 DEF Saving, FileKnown, Remembered, Written
<1> QED
  BY InitSaving, StepSaving, StructureInvariant, <1>1, PTL DEF Spec

\* Only a process that has completed a set since its start touches config.dat: processes
\* that are started and end without one, however often, leave what is on it.
THEOREM FileKept == Spec => UntouchedUntilSet
<1>1. Structure /\ Saving /\ [Next]_vars => [file' # file => up /\ set_total > 0]_vars
  <2> SUFFICES ASSUME Structure, Saving, Next, file' # file
               PROVE  up /\ set_total > 0
    BY DEF vars
  <2> USE DEF Structure
  <2>1. saver.pc # "wait"
    <3>1. ~Start /\ ~StartFails /\ ~SaveSkip
      BY DEF Start, StartFails, SaveSkip, vars
    <3>2. ASSUME NEW w \in Worker, WorkerStep(w) PROVE FALSE
      BY <3>2, WorkerFrame
    <3>3. CASE SaverRun
      BY <3>3 DEF SaverRun, SaveCheck, SaveOpen, SaveSnap, SaveSize, SaveData, SaveEnd,
                  FinishSave
    <3>4. CASE End
      BY <3>4 DEF End, Kill, SaveOpenFails, SaveWriteFails, Die
    <3> QED
      BY <3>1, <3>2, <3>3, <3>4 DEF Next, WorkerStep, End
  <2>2. up
    BY <2>1 DEF Stopped, IdleSaver
  <2> QED
    BY <2>1, <2>2 DEF Saving, SetFirst
<1> QED
  BY InitSaving, StepSaving, StructureInvariant, <1>1, PTL DEF Spec, UntouchedUntilSet
================================================================================
