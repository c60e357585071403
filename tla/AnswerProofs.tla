------------------------------ MODULE AnswerProofs ------------------------------
(***************************************************************************)
(* What a connection is told about a key never goes back, and the totals   *)
(* of the store agree with the counters of its entries, for any number of  *)
(* connections, keys, entries, calls and process ends.                     *)
(***************************************************************************)
EXTENDS ConfigStoreProofs, FiniteSetTheorems

\* A get that has found its key holds the entry that the key has now.
Holding(w) == pc[w] \in Getting \ {"g_load"} => loc[w].ent = root[loc[w].key]

\* The counters it has read so far are not ahead of the entry.
NotAhead(w) ==
  /\ pc[w] \in {"g_writes", "g_value"} => loc[w].reads <= heap[loc[w].ent].reads
  /\ pc[w] = "g_value" => loc[w].writes <= heap[loc[w].ent].writes

\* Neither is the last response ahead of the entry of its key.
Told(w) ==
  resp[w].value # Nil =>
    /\ resp[w].key \in Key /\ root[resp[w].key] # Nil
    /\ resp[w].reads <= heap[root[resp[w].key]].reads
    /\ resp[w].writes <= heap[root[resp[w].key]].writes

\* A get of the same key is ahead of that response once it has counted itself.
Passing(w) ==
  resp[w].value # Nil /\ resp[w].key = loc[w].key =>
    /\ pc[w] \in {"g_stat", "g_reads"} => heap[loc[w].ent].reads > resp[w].reads
    /\ pc[w] \in {"g_writes", "g_value"} => loc[w].reads > resp[w].reads
    /\ pc[w] = "g_value" => loc[w].writes >= resp[w].writes

Tracked(w) == Holding(w) /\ NotAhead(w) /\ Told(w) /\ Passing(w)

Answers ==
  /\ ~up => \A w \in Worker : resp[w] = NoResp
  /\ \A w \in Worker : Tracked(w)

-----------------------------------------------------------------------------
\* No step of a handler takes a key from the map or lets its counters go back.
Growing ==
  \A k \in Bound : /\ root'[k] = root[k]
                   /\ heap'[root[k]].reads >= heap[root[k]].reads
                   /\ heap'[root[k]].writes >= heap[root[k]].writes

LEMMA WorkerGrowing ==
  ASSUME Structure, NEW w \in Worker, WorkerStep(w) PROVE Growing
<1>1. /\ root \in MapType
      /\ heap \in [Entry -> [value : Content, reads : Nat, writes : Nat]]
      /\ HandlerOK(pc[w], loc[w])
  BY DEF Structure, TypeOK, MemoryOK, WorkersOK
<1>2. ASSUME NEW k \in Bound
      PROVE  root[k] \in Entry /\ root[k] \in Allocated /\ k \in AllKey
  BY <1>1 DEF Bound, Allocated, MapType
<1>3. \A k \in Bound : root'[k] = root[k]
  <2>1. up /\ up'
    <3>1. TypeOK /\ Stopped
      BY DEF Structure
    <3>2. up = TRUE /\ up' = up
      BY <3>1, WorkerFrame DEF procVars
    <3> QED
      BY <3>2
  <2>2. Next
    BY DEF Next, WorkerStep
  <2> QED
    BY <2>1, <2>2, StepBindings
<1>4. ASSUME NEW k \in Bound
      PROVE  /\ heap'[root[k]].reads >= heap[root[k]].reads
             /\ heap'[root[k]].writes >= heap[root[k]].writes
  <2>1. root[k] \in Entry /\ root[k] \in Allocated
    BY <1>2
  <2>2. heap[root[k]] \in [value : Content, reads : Nat, writes : Nat]
    BY <1>1, <2>1
  <2>3. CASE heap' = heap
    BY <2>2, <2>3
  <2>4. CASE SetApply(w)
    <3> DEFINE found == loc[w].snap[loc[w].key]
    <3>1. PICK e \in IF found # Nil THEN {found} ELSE Entry \ Allocated :
            heap' = [heap EXCEPT ![e] = IF found # Nil THEN @ ELSE NewEntry]
      BY <2>4 DEF SetApply
    <3>2. heap'[root[k]] = heap[root[k]]
      <4>1. CASE found # Nil
        BY <1>1, <2>1, <3>1, <4>1
      <4>2. CASE found = Nil
        <5>1. e # root[k]
          BY <2>1, <3>1, <4>2
        <5> QED
          BY <1>1, <2>1, <3>1, <5>1
      <4> QED
        BY <4>1, <4>2
    <3> QED
      BY <2>2, <3>2
  <2>5. CASE SetMove(w)
    BY <1>1, <2>1, <2>2, <2>5 DEF SetMove
  <2>6. CASE SetCount(w)
    BY <1>1, <2>1, <2>2, <2>6 DEF SetCount
  <2>7. CASE GetCount(w)
    BY <1>1, <2>1, <2>2, <2>7 DEF GetCount, CountRead
  <2>8. CASE SetCall(w) \/ GetCall(w) \/ SetLoad(w) \/ SetCommit(w) \/ SetRetry(w)
    BY <2>3, <2>8 DEF SetCall, GetCall, Call, SetLoad, SetCommit, Install, SetRetry, memVars
  <2>9. CASE SetStat(w) \/ SetDirty(w) \/ GetMiss(w) \/ GetHit(w)
    BY <2>3, <2>9 DEF SetStat, SetDirty, GetMiss, GetHit, Find, memVars
  <2>10. CASE GetStat(w) \/ GetReads(w) \/ GetWrites(w) \/ GetValue(w)
    BY <2>3, <2>10 DEF GetStat, GetReads, GetWrites, GetValue, memVars
  <2> QED
    BY <2>4, <2>5, <2>6, <2>7, <2>8, <2>9, <2>10 DEF WorkerStep, WorkerRun
<1> QED
  BY <1>3, <1>4 DEF Growing

\* The last response of a connection changes only when a get answers.
LEMMA ResponseFrame ==
  ASSUME Structure, NEW w \in Worker, WorkerStep(w)
  PROVE  /\ \A v \in Worker \ {w} : resp'[v] = resp[v]
         /\ ~GetMiss(w) /\ ~GetValue(w) => resp' = resp
<1>1. DOMAIN resp = Worker
  BY DEF Structure, TypeOK, ResponsesOK
<1>2. CASE GetMiss(w) \/ GetValue(w)
  BY <1>1, <1>2 DEF GetMiss, GetValue
<1>3. CASE SetCall(w) \/ GetCall(w) \/ SetLoad(w) \/ SetApply(w) \/ SetMove(w)
  BY <1>3 DEF SetCall, GetCall, Call, SetLoad, SetApply, SetMove
<1>4. CASE SetCount(w) \/ SetCommit(w) \/ SetRetry(w) \/ SetStat(w) \/ SetDirty(w)
  BY <1>4 DEF SetCount, SetCommit, Install, SetRetry, SetStat, SetDirty
<1>5. CASE GetHit(w) \/ GetCount(w) \/ GetStat(w) \/ GetReads(w) \/ GetWrites(w)
  BY <1>5 DEF GetHit, Find, GetCount, CountRead, GetStat, GetReads, GetWrites
<1> QED
  BY <1>2, <1>3, <1>4, <1>5 DEF WorkerStep, WorkerRun

\* What is known of a connection survives a step of anybody else ...
LEMMA StillTracked ==
  ASSUME Structure, Growing, NEW v \in Worker, Tracked(v), TypeOK',
         pc'[v] = pc[v], loc'[v] = loc[v], resp'[v] = resp[v]
  PROVE  Tracked(v)'
<1>1. /\ HandlerOK(pc[v], loc[v]) /\ root \in MapType /\ root' \in MapType
      /\ heap \in [Entry -> [value : Content, reads : Nat, writes : Nat]]
      /\ heap' \in [Entry -> [value : Content, reads : Nat, writes : Nat]]
      /\ resp[v] \in [key : Key \cup {Nil}, value : Content \cup {Nil},
                      reads : Nat, writes : Nat]
  BY DEF Structure, TypeOK, MemoryOK, WorkersOK, ResponsesOK
<1>2. ASSUME NEW k \in Key, root[k] # Nil
      PROVE  /\ root'[k] = root[k] /\ root[k] \in Entry
             /\ heap[root[k]].reads \in Nat /\ heap'[root[k]].reads \in Nat
             /\ heap[root[k]].writes \in Nat /\ heap'[root[k]].writes \in Nat
             /\ heap'[root[k]].reads >= heap[root[k]].reads
             /\ heap'[root[k]].writes >= heap[root[k]].writes
  <2>1. k \in Bound /\ k \in AllKey
    BY NilApart, <1>2 DEF Bound
  <2>2. root[k] \in Entry
    BY <1>1, <1>2, <2>1 DEF MapType
  <2> QED
    BY <1>1, <2>1, <2>2 DEF Growing
<1>3. pc[v] \in Getting \ {"g_load"} =>
        loc[v].key \in Key /\ root[loc[v].key] # Nil /\ loc[v].ent = root[loc[v].key]
  BY NilApart, <1>1 DEF Tracked, Holding, HandlerOK
<1>4. Holding(v)'
  BY <1>2, <1>3 DEF Holding
<1>5. loc[v].reads \in Nat /\ loc[v].writes \in Nat /\ resp[v].reads \in Nat
        /\ resp[v].writes \in Nat
  BY <1>1 DEF HandlerOK, LocalType
<1>6. NotAhead(v)'
  <2>1. pc[v] \in {"g_writes", "g_value"} => pc[v] \in Getting \ {"g_load"}
    BY DEF Getting
  <2> QED
    BY <1>2, <1>3, <1>5, <2>1 DEF Tracked, NotAhead
<1>7. Told(v)'
  BY <1>2, <1>5 DEF Tracked, Told
<1>8. Passing(v)'
  <2>1. pc[v] \in {"g_stat", "g_reads"} => pc[v] \in Getting \ {"g_load"}
    BY DEF Getting
  <2> QED
    BY <1>2, <1>3, <1>5, <2>1 DEF Tracked, Passing
<1> QED
  BY <1>4, <1>6, <1>7, <1>8 DEF Tracked

\* ... and one of its own that is none of a get.
LEMMA ToldIsEnough ==
  ASSUME Structure, Growing, NEW w \in Worker, Told(w), TypeOK',
         pc'[w] \notin Getting \ {"g_load"},
         resp'[w] = resp[w] \/ resp'[w].value = Nil
  PROVE  Tracked(w)'
<1>1. /\ root \in MapType
      /\ heap \in [Entry -> [value : Content, reads : Nat, writes : Nat]]
      /\ heap' \in [Entry -> [value : Content, reads : Nat, writes : Nat]]
      /\ resp[w] \in [key : Key \cup {Nil}, value : Content \cup {Nil},
                      reads : Nat, writes : Nat]
  BY DEF Structure, TypeOK, MemoryOK, ResponsesOK
<1>2. Told(w)'
  <2> SUFFICES ASSUME resp'[w] = resp[w], resp[w].value # Nil PROVE Told(w)'
    BY DEF Told
  <2> DEFINE k == resp[w].key
  <2>1. /\ k \in Key /\ root[k] # Nil
        /\ resp[w].reads <= heap[root[k]].reads
        /\ resp[w].writes <= heap[root[k]].writes
    BY DEF Told
  <2>2. k \in Bound /\ root[k] \in Entry
    BY NilApart, <1>1, <2>1 DEF Bound, MapType
  <2>3. /\ root'[k] = root[k]
        /\ heap'[root[k]].reads >= heap[root[k]].reads
        /\ heap'[root[k]].writes >= heap[root[k]].writes
    BY <2>2 DEF Growing
  <2>4. /\ heap[root[k]].reads \in Nat /\ heap'[root[k]].reads \in Nat
        /\ heap[root[k]].writes \in Nat /\ heap'[root[k]].writes \in Nat
        /\ resp[w].reads \in Nat /\ resp[w].writes \in Nat
    BY <1>1, <2>2
  <2> QED
    BY <2>1, <2>3, <2>4 DEF Told
<1>3. pc'[w] \notin {"g_count", "g_stat", "g_reads", "g_writes", "g_value"}
  BY DEF Getting
<1> QED
  BY <1>2, <1>3 DEF Tracked, Holding, NotAhead, Passing

\* The steps of a get that has found its key.
LEMMA GetTracked ==
  ASSUME Structure, NEW w \in Worker, Tracked(w), TypeOK',
         GetHit(w) \/ GetCount(w) \/ GetStat(w) \/ GetReads(w) \/ GetWrites(w) \/ GetValue(w)
  PROVE  Tracked(w)'
<1>1. /\ HandlerOK(pc[w], loc[w]) /\ root \in MapType
      /\ heap \in [Entry -> [value : Content, reads : Nat, writes : Nat]]
      /\ resp[w] \in [key : Key \cup {Nil}, value : Content \cup {Nil},
                      reads : Nat, writes : Nat]
      /\ pc \in [Worker -> {"idle"} \cup Setting \cup Getting] /\ loc \in [Worker -> LocalType]
      /\ DOMAIN resp = Worker
  BY DEF Structure, TypeOK, MemoryOK, WorkersOK, ResponsesOK
<1> DEFINE k == loc[w].key  e == root[k]
<1>2. /\ loc[w].reads \in Nat /\ loc[w].writes \in Nat /\ resp[w].reads \in Nat
      /\ resp[w].writes \in Nat
  BY <1>1 DEF HandlerOK, LocalType
<1>3. pc[w] \in Getting => k \in Key
  BY <1>1 DEF HandlerOK
<1>4. pc[w] \in Getting \ {"g_load"} =>
        loc[w].ent = e /\ e \in Entry /\ heap[e].reads \in Nat /\ heap[e].writes \in Nat
  BY <1>1 DEF Tracked, Holding, HandlerOK
<1>5. /\ resp[w].value # Nil /\ resp[w].key = k => /\ resp[w].reads <= heap[e].reads
                                                   /\ resp[w].writes <= heap[e].writes
  BY DEF Tracked, Told
<1>6. CASE GetHit(w)
  <2>1. /\ pc'[w] = "g_count" /\ loc'[w].ent = root[loc[w].key] /\ loc'[w].key = loc[w].key
        /\ root' = root /\ heap' = heap /\ resp' = resp
    BY <1>1, <1>6 DEF GetHit, Find, Goto, memVars, LocalType
  <2> QED
    BY <2>1 DEF Tracked, Holding, NotAhead, Told, Passing
<1>7. CASE GetCount(w)
  <2>1. /\ pc[w] = "g_count" /\ pc'[w] = "g_stat" /\ loc' = loc /\ root' = root /\ resp' = resp
        /\ heap' = [heap EXCEPT ![loc[w].ent].reads = @ + 1]
    BY <1>1, <1>7 DEF GetCount, CountRead, Goto
  <2>2. loc[w].ent = e /\ e \in Entry /\ heap[e].reads \in Nat /\ heap[e].writes \in Nat
    BY <1>4, <2>1 DEF Getting
  <2>3. heap'[e].reads = heap[e].reads + 1 /\ heap'[e].writes = heap[e].writes
    BY <1>1, <2>1, <2>2
  <2>4. Holding(w)' /\ NotAhead(w)'
    BY <2>1, <2>2 DEF Holding, NotAhead
  <2>5. Passing(w)'
    BY <1>2, <1>5, <2>1, <2>2, <2>3 DEF Passing
  <2>6. Told(w)'
    <3> SUFFICES ASSUME resp[w].value # Nil PROVE Told(w)'
      BY <2>1 DEF Told
    <3> DEFINE f == root[resp[w].key]
    <3>1. /\ resp[w].key \in Key /\ f # Nil
          /\ resp[w].reads <= heap[f].reads /\ resp[w].writes <= heap[f].writes
      BY DEF Tracked, Told
    <3>2. f \in Entry
      BY NilApart, <1>1, <3>1 DEF MapType
    <3>3. heap[f].reads \in Nat /\ heap'[f].writes = heap[f].writes
            /\ (heap'[f].reads = heap[f].reads \/ heap'[f].reads = heap[f].reads + 1)
      BY <1>1, <2>1, <2>2, <3>2
    <3>4. resp[w].reads <= heap'[f].reads /\ resp[w].writes <= heap'[f].writes
      BY <1>2, <3>1, <3>3
    <3> QED
      BY <2>1, <3>1, <3>4 DEF Told
  <2> QED
    BY <2>4, <2>5, <2>6 DEF Tracked
<1>8. CASE GetStat(w)
  <2>1. /\ pc[w] = "g_stat" /\ pc'[w] = "g_reads" /\ loc' = loc /\ root' = root /\ resp' = resp
        /\ heap' = heap
    BY <1>1, <1>8 DEF GetStat, Goto, memVars
  <2> QED
    BY <2>1 DEF Tracked, Holding, NotAhead, Told, Passing, Getting
<1>9. CASE GetReads(w)
  <2>1. /\ pc[w] = "g_reads" /\ pc'[w] = "g_writes" /\ root' = root /\ resp' = resp
        /\ heap' = heap /\ loc'[w].reads = heap[loc[w].ent].reads
        /\ loc'[w].key = loc[w].key /\ loc'[w].ent = loc[w].ent
    BY <1>1, <1>9 DEF GetReads, Goto, memVars, LocalType
  <2>2. loc[w].ent = e /\ heap[e].reads \in Nat
    BY <1>4, <2>1 DEF Getting
  <2>3. Holding(w)' /\ Told(w)'
    BY <2>1, <2>2 DEF Tracked, Holding, Told
  <2>4. NotAhead(w)'
    BY <2>1, <2>2 DEF NotAhead
  <2>5. Passing(w)'
    BY <2>1 DEF Tracked, Passing
  <2> QED
    BY <2>3, <2>4, <2>5 DEF Tracked
<1>10. CASE GetWrites(w)
  <2>1. /\ pc[w] = "g_writes" /\ pc'[w] = "g_value" /\ root' = root /\ resp' = resp
        /\ heap' = heap /\ loc'[w].writes = heap[loc[w].ent].writes
        /\ loc'[w].reads = loc[w].reads
        /\ loc'[w].key = loc[w].key /\ loc'[w].ent = loc[w].ent
    BY <1>1, <1>10 DEF GetWrites, Goto, memVars, LocalType
  <2>2. loc[w].ent = e /\ heap[e].writes \in Nat
    BY <1>4, <2>1 DEF Getting
  <2>3. Holding(w)' /\ Told(w)'
    BY <2>1, <2>2 DEF Tracked, Holding, Told
  <2>4. NotAhead(w)'
    BY <2>1, <2>2 DEF Tracked, NotAhead
  <2>5. Passing(w)'
    BY <1>2, <1>5, <2>1, <2>2 DEF Tracked, Passing
  <2> QED
    BY <2>3, <2>4, <2>5 DEF Tracked
<1>11. CASE GetValue(w)
  <2>1. /\ pc[w] = "g_value" /\ pc'[w] = "idle" /\ root' = root /\ heap' = heap
        /\ resp'[w].key = k /\ resp'[w].reads = loc[w].reads
        /\ resp'[w].writes = loc[w].writes
    BY <1>1, <1>11 DEF GetValue, Goto, Return, memVars
  <2>2. loc[w].ent = e /\ e \in Entry /\ k \in Key
    BY <1>3, <1>4, <2>1 DEF Getting
  <2>3. Told(w)'
    BY NilApart, <2>1, <2>2 DEF Tracked, NotAhead, Told
  <2>4. Holding(w)' /\ NotAhead(w)' /\ Passing(w)'
    BY <2>1 DEF Holding, NotAhead, Passing, Getting
  <2> QED
    BY <2>3, <2>4 DEF Tracked
<1> QED
  BY <1>6, <1>7, <1>8, <1>9, <1>10, <1>11

LEMMA WorkerTracked ==
  ASSUME Structure, TypeOK', NEW w \in Worker, WorkerStep(w), \A v \in Worker : Tracked(v)
  PROVE  \A v \in Worker : Tracked(v)'
<1>1. Growing
  BY WorkerGrowing
<1>2. ASSUME NEW v \in Worker, v # w PROVE Tracked(v)'
  <2>1. pc'[v] = pc[v] /\ loc'[v] = loc[v] /\ resp'[v] = resp[v]
    BY <1>2, WorkerAlone, ResponseFrame DEF Structure
  <2> QED
    BY <1>1, <2>1, StillTracked
<1>3. Tracked(w)'
  <2>1. CASE GetHit(w) \/ GetCount(w) \/ GetStat(w) \/ GetReads(w) \/ GetWrites(w)
              \/ GetValue(w)
    BY <2>1, GetTracked
  <2>2. CASE GetMiss(w)
    <3>1. pc'[w] = "idle" /\ resp'[w].value = Nil
      BY <2>2 DEF GetMiss, Return, Goto, NoResp, Structure, TypeOK, WorkersOK, ResponsesOK
    <3> QED
      BY <1>1, <3>1, ToldIsEnough DEF Tracked, Getting
  <2>3. CASE ~(GetHit(w) \/ GetCount(w) \/ GetStat(w) \/ GetReads(w) \/ GetWrites(w)
               \/ GetValue(w) \/ GetMiss(w))
    <3>1. resp' = resp
      BY <2>3, ResponseFrame
    <3>2. pc'[w] \notin Getting \ {"g_load"}
      <4>1. pc \in [Worker -> {"idle"} \cup Setting \cup Getting]
        BY DEF Structure, TypeOK, WorkersOK
      <4>2. CASE SetCall(w) \/ GetCall(w) \/ SetLoad(w) \/ SetApply(w) \/ SetMove(w)
        BY <4>1, <4>2 DEF SetCall, GetCall, Call, SetLoad, SetApply, SetMove, Goto, Getting
      <4>3. CASE SetCount(w) \/ SetCommit(w) \/ SetRetry(w) \/ SetStat(w) \/ SetDirty(w)
        BY <4>1, <4>3 DEF SetCount, SetCommit, Install, SetRetry, SetStat, SetDirty, Return,
                          Goto, Getting
      <4> QED
        BY <2>3, <4>2, <4>3 DEF WorkerStep, WorkerRun
    <3> QED
      BY <1>1, <3>1, <3>2, ToldIsEnough DEF Tracked
  <2> QED
    BY <2>1, <2>2, <2>3
<1> QED
  BY <1>2, <1>3

\* A connection that was told nothing and is not being served.
LEMMA FreshTracked ==
  ASSUME NEW v \in Worker, pc'[v] = "idle", resp'[v] = NoResp PROVE Tracked(v)'
BY DEF Tracked, Holding, NotAhead, Told, Passing, Getting, NoResp

LEMMA InitAnswers == Init => Answers
BY DEF Init, Answers, Tracked, Holding, NotAhead, Told, Passing, Getting, NoResp

LEMMA EndAnswers == ASSUME End PROVE up' = FALSE /\ resp' = [w \in Worker |-> NoResp]
<1>1. PICK f : Die(f)
  <2>1. CASE Kill
    BY <2>1 DEF Kill
  <2>2. CASE SaveOpenFails \/ SaveWriteFails
    BY <2>2 DEF SaveOpenFails, SaveWriteFails
  <2> QED
    BY <2>1, <2>2 DEF End
<1> QED
  BY <1>1 DEF Die

LEMMA StepAnswers == Structure /\ Answers /\ [Next]_vars => Answers'
<1> SUFFICES ASSUME Structure, Answers, [Next]_vars PROVE Answers'
  OBVIOUS
<1>1. TypeOK'
  BY StepType DEF Structure
<1>2. CASE UNCHANGED vars
  BY <1>2 DEF vars, memVars, statVars, workVars, procVars, Answers, Tracked, Holding,
              NotAhead, Told, Passing
<1>3. CASE Start
  <2>1. /\ up' = TRUE /\ pc' = pc /\ loc' = loc /\ resp' = resp /\ ~up
    BY <1>3 DEF Start, workVars
  <2>2. ASSUME NEW v \in Worker PROVE Tracked(v)'
    <3>1. pc'[v] = "idle" /\ resp'[v] = NoResp
      BY <2>1 DEF Structure, Stopped, Answers
    <3> QED
      BY <3>1, FreshTracked
  <2> QED
    BY <2>1, <2>2 DEF Answers
<1>4. ASSUME NEW w \in Worker, WorkerStep(w) PROVE Answers'
  <2>1. TypeOK /\ Stopped
    BY DEF Structure
  <2>2. up' = TRUE
    BY <1>4, <2>1, WorkerFrame DEF procVars
  <2>3. \A v \in Worker : Tracked(v)
    BY DEF Answers
  <2> QED
    BY <1>1, <1>4, <2>2, <2>3, WorkerTracked DEF Answers
<1>5. CASE SaverRun
  <2>1. TypeOK /\ Stopped
    BY DEF Structure
  <2>2. UNCHANGED saverFrame
    BY <1>5, <2>1, SaverFrame
  <2> QED
    BY <2>2 DEF saverFrame, memVars, workVars, procVars, Answers, Tracked, Holding,
                NotAhead, Told, Passing
<1>6. CASE End
  <2>1. ASSUME NEW v \in Worker PROVE Tracked(v)'
    <3>1. pc'[v] = "idle" /\ resp'[v] = NoResp
      BY <1>6, EndFrame, EndAnswers
    <3> QED
      BY <3>1, FreshTracked
  <2> QED
    BY <1>6, <2>1, EndAnswers DEF Answers
<1> QED
  BY <1>2, <1>3, <1>4, <1>5, <1>6 DEF Next, StartFails, SaveSkip, WorkerStep, End

LEMMA StepMonotonic ==
  ASSUME Structure, Answers, [Next]_vars, NEW w \in Worker,
         resp[w].value # Nil, resp'[w] # resp[w], resp'[w].key = resp[w].key
  PROVE  /\ resp'[w].value # Nil
         /\ resp'[w].reads > resp[w].reads /\ resp'[w].writes >= resp[w].writes
<1>1. resp[w].key \in Key /\ root[resp[w].key] # Nil /\ Tracked(w)
  BY DEF Answers, Tracked, Told
<1>2. CASE UNCHANGED vars
  BY <1>2 DEF vars, workVars
<1>3. CASE Start
  BY <1>3 DEF Start, workVars
<1>4. ASSUME NEW v \in Worker, WorkerStep(v)
      PROVE  /\ resp'[w].value # Nil
             /\ resp'[w].reads > resp[w].reads /\ resp'[w].writes >= resp[w].writes
  <2>1. v = w /\ (GetMiss(w) \/ GetValue(w))
    BY <1>4, ResponseFrame
  <2>2. w \in DOMAIN resp
    BY DEF Structure, TypeOK, ResponsesOK
  <2>3. ~GetMiss(w)
    BY <1>1, <2>2 DEF GetMiss, NoResp
  <2>4. GetValue(w)
    BY <2>1, <2>3
  <2>5. /\ pc[w] = "g_value" /\ resp'[w].key = loc[w].key
        /\ resp'[w].value = Visible(loc[w].ent)
        /\ resp'[w].reads = loc[w].reads /\ resp'[w].writes = loc[w].writes
    BY <2>2, <2>4 DEF GetValue
  <2>6. loc[w].reads > resp[w].reads /\ loc[w].writes >= resp[w].writes
    BY <1>1, <2>5 DEF Tracked, Passing
  <2>7. Visible(loc[w].ent) # Nil
    <3>1. loc[w].ent \in Entry
      BY <2>5 DEF Structure, TypeOK, WorkersOK, HandlerOK, Getting
    <3>2. Visible(loc[w].ent) \in Content
      BY <3>1 DEF Visible, Structure, TypeOK, MemoryOK, Content
    <3> QED
      BY <3>2, NilApart
  <2> QED
    BY <2>5, <2>6, <2>7
<1>5. CASE SaverRun
  <2>1. TypeOK /\ Stopped
    BY DEF Structure
  <2> QED
    BY <1>5, <2>1, SaverFrame DEF saverFrame, workVars
<1>6. CASE End
  <2>1. resp'[w].key = Nil
    BY <1>6, EndAnswers DEF NoResp
  <2>2. Nil \notin Key
    BY ConstAssumption, Zenon DEF AllKey
  <2>3. resp[w].key \in Key
    BY <1>1
  <2> QED
    BY <2>1, <2>2, <2>3
<1> QED
  BY <1>2, <1>3, <1>4, <1>5, <1>6 DEF Next, StartFails, SaveSkip, WorkerStep, End

\* Successive answers about a key on one connection never go back: a key once found is
\* found again, and its counters grow (config_store::get and the dispatcher, which reads
\* the counters one by one while others increment them).
THEOREM AnswersAdvance == Spec => SessionMonotonic
<1> DEFINE Inv == Structure /\ Answers
<1>1. Init => Inv
  BY InitStructure, InitAnswers
<1>2. Inv /\ [Next]_vars => Inv'
  BY StepStructure, StepAnswers
<1>3. Inv /\ [Next]_vars =>
        [\A w \in Worker :
           resp[w].value # Nil /\ resp'[w] # resp[w] /\ resp'[w].key = resp[w].key =>
             /\ resp'[w].value # Nil
             /\ resp'[w].reads > resp[w].reads
             /\ resp'[w].writes >= resp[w].writes]_vars
  BY StepMonotonic
<1> QED
  BY <1>1, <1>2, <1>3, PTL DEF Spec, SessionMonotonic

-----------------------------------------------------------------------------
(* The totals of the store against the counters of its entries.            *)

\* An update that has made an entry for a key it did not find.
Private(w) == pc[w] \in Applying /\ loc[w].snap[loc[w].key] = Nil

\* Nobody else knows that entry: no get has counted itself in it, and the set that made
\* it is counted before it tries to commit.
PrivateOK(w) ==
  Private(w) =>
    /\ \A k \in AllKey : root[k] # loc[w].ent
    /\ \A v \in Worker : v # w /\ pc[v] \in Applying => loc[v].ent # loc[w].ent
    /\ heap[loc[w].ent].reads = 0
    /\ pc[w] = "s_cas" => heap[loc[w].ent].writes >= 1

\* Updates of a key they have found, counted in its entry and not committed: those that
\* retry are counted again.
Recounting == {w \in Worker : pc[w] = "s_cas" /\ loc[w].snap[loc[w].key] # Nil}

Finite ==
  /\ IsFiniteSet(Units(Reads)) /\ IsFiniteSet(Units(Writes)) /\ IsFiniteSet(Recounting)
  /\ IsFiniteSet(InPc("g_stat")) /\ IsFiniteSet(InPc("s_stat"))

Accounts ==
  /\ \A w \in Worker : PrivateOK(w)
  /\ Finite /\ ReadsAccounted
  /\ Cardinality(Units(Writes)) >=
       set_total + Cardinality(InPc("s_stat")) + Cardinality(Recounting)
  /\ ~up => get_total = 0 /\ set_total = 0

\* A handler counts in the entry it works on, and in no other that is in use.
LEMMA EntryCounters ==
  ASSUME Structure, NEW w \in Worker, WorkerStep(w), NEW e \in Entry, e \in Allocated
  PROVE  /\ heap'[e].reads = IF GetCount(w) /\ loc[w].ent = e THEN heap[e].reads + 1
                                                              ELSE heap[e].reads
         /\ heap'[e].writes = IF SetCount(w) /\ loc[w].ent = e THEN heap[e].writes + 1
                                                               ELSE heap[e].writes
<1>1. /\ heap \in [Entry -> [value : Content, reads : Nat, writes : Nat]]
      /\ heap[e] \in [value : Content, reads : Nat, writes : Nat]
  BY DEF Structure, TypeOK, MemoryOK
<1>2. (GetCount(w) => pc[w] = "g_count") /\ (SetCount(w) => pc[w] = "s_count")
  BY DEF GetCount, CountRead, SetCount
<1>3. CASE heap' = heap /\ ~GetCount(w) /\ ~SetCount(w)
  BY <1>3
<1>4. CASE SetApply(w)
  <2> DEFINE found == loc[w].snap[loc[w].key]
  <2>1. PICK f \in IF found # Nil THEN {found} ELSE Entry \ Allocated :
          heap' = [heap EXCEPT ![f] = IF found # Nil THEN @ ELSE NewEntry]
    BY <1>4 DEF SetApply
  <2>2. heap'[e] = heap[e]
    <3>1. CASE found # Nil
      BY <1>1, <2>1, <3>1
    <3>2. CASE found = Nil
      <4>1. f # e
        BY <2>1, <3>2
      <4> QED
        BY <1>1, <2>1, <4>1
    <3> QED
      BY <3>1, <3>2
  <2>3. pc[w] = "s_apply"
    BY <1>4 DEF SetApply
  <2> QED
    BY <1>2, <2>2, <2>3
<1>5. CASE SetMove(w)
  <2>1. pc[w] = "s_move"
    BY <1>5 DEF SetMove
  <2> QED
    BY <1>1, <1>2, <1>5, <2>1 DEF SetMove
<1>6. CASE SetCount(w)
  <2>1. ~GetCount(w)
    BY <1>2, <1>6
  <2>2. heap' = [heap EXCEPT ![loc[w].ent].writes = @ + 1]
    BY <1>6 DEF SetCount
  <2> QED
    BY <1>1, <1>6, <2>1, <2>2
<1>7. CASE GetCount(w)
  <2>1. ~SetCount(w)
    BY <1>2, <1>7
  <2>2. heap' = [heap EXCEPT ![loc[w].ent].reads = @ + 1]
    BY <1>7 DEF GetCount, CountRead
  <2> QED
    BY <1>1, <1>7, <2>1, <2>2
<1>8. CASE SetCall(w) \/ GetCall(w) \/ SetLoad(w) \/ SetCommit(w) \/ SetRetry(w)
  BY <1>2, <1>3, <1>8 DEF SetCall, GetCall, Call, SetLoad, SetCommit, Install, SetRetry,
                          memVars
<1>9. CASE SetStat(w) \/ SetDirty(w) \/ GetMiss(w) \/ GetHit(w)
  BY <1>2, <1>3, <1>9 DEF SetStat, SetDirty, GetMiss, GetHit, Find, memVars
<1>10. CASE GetStat(w) \/ GetReads(w) \/ GetWrites(w) \/ GetValue(w)
  BY <1>2, <1>3, <1>10 DEF GetStat, GetReads, GetWrites, GetValue, memVars
<1> QED
  BY <1>4, <1>5, <1>6, <1>7, <1>8, <1>9, <1>10 DEF WorkerStep, WorkerRun

\* One element more, one less.
LEMMA Joining ==
  ASSUME NEW S, IsFiniteSet(S), NEW x, x \notin S
  PROVE  /\ IsFiniteSet(S \cup {x}) /\ Cardinality(S) \in Nat
         /\ Cardinality(S \cup {x}) = Cardinality(S) + 1
BY FS_AddElement, FS_CardinalityType

LEMMA Leaving ==
  ASSUME NEW S, IsFiniteSet(S), NEW x, x \in S
  PROVE  /\ IsFiniteSet(S \ {x}) /\ Cardinality(S) \in Nat
         /\ Cardinality(S \ {x}) \in Nat
         /\ Cardinality(S \ {x}) = Cardinality(S) - 1
BY FS_RemoveElement, FS_CardinalityType

\* Only the handler that takes a step moves.
LEMMA InPcMoves ==
  ASSUME Structure, NEW w \in Worker, WorkerStep(w), NEW l
  PROVE  InPc(l)' = IF pc'[w] = l THEN InPc(l) \cup {w} ELSE InPc(l) \ {w}
<1>1. \A v \in Worker \ {w} : pc'[v] = pc[v]
  BY WorkerAlone DEF Structure
<1> QED
  BY <1>1 DEF InPc

\* How many handlers are at l after a step that brings none there.
LEMMA InPcStays ==
  ASSUME Structure, NEW w \in Worker, WorkerStep(w), NEW l, pc[w] # l, pc'[w] # l
  PROVE  InPc(l)' = InPc(l)
<1>1. w \notin InPc(l)
  BY DEF InPc
<1> QED
  BY <1>1, InPcMoves

LEMMA RecountingMoves ==
  ASSUME Structure, NEW w \in Worker, WorkerStep(w)
  PROVE  Recounting' = IF pc'[w] = "s_cas" /\ loc'[w].snap[loc'[w].key] # Nil
                       THEN Recounting \cup {w} ELSE Recounting \ {w}
<1>1. \A v \in Worker \ {w} : pc'[v] = pc[v] /\ loc'[v] = loc[v]
  BY WorkerAlone DEF Structure
<1> QED
  BY <1>1 DEF Recounting

\* The entries that are bound or being made are in use.
LEMMA InUse ==
  ASSUME TypeOK
  PROVE  /\ \A k \in Bound : root[k] \in Entry /\ root[k] \in Allocated
         /\ \A w \in Worker : pc[w] \in Applying =>
              loc[w].ent \in Entry /\ loc[w].ent \in Allocated
<1>1. root \in MapType /\ \A w \in Worker : HandlerOK(pc[w], loc[w])
  BY DEF TypeOK, MemoryOK, WorkersOK
<1> QED
  BY <1>1 DEF Allocated, Bound, MapType, HandlerOK

\* An element of Units(f).
LEMMA UnitsMember ==
  ASSUME NEW f, NEW x
  PROVE  x \in Units(f) <=> \E k \in DOMAIN f : \E n \in 1..f[k] : x = <<k, n>>
BY DEF Units

\* One value of f grows by one.
LEMMA UnitsGrow ==
  ASSUME NEW K, NEW f \in [K -> Nat], NEW key \in K,
         NEW g, DOMAIN g = K, g[key] = f[key] + 1, \A k \in K \ {key} : g[k] = f[k]
  PROVE  \E x : x \notin Units(f) /\ Units(g) = Units(f) \cup {x}
<1> DEFINE x == <<key, f[key] + 1>>
<1>1. DOMAIN f = K /\ f[key] \in Nat
  OBVIOUS
<1>2. x \notin Units(f)
  <2> SUFFICES ASSUME NEW k \in DOMAIN f, NEW n \in 1..f[k], x = <<k, n>> PROVE FALSE
    BY UnitsMember, Zenon
  <2>1. n = f[key] + 1 /\ n \in 1..f[key]
    OBVIOUS
  <2> QED
    BY <1>1, <2>1
<1>3. ASSUME NEW y \in Units(g) PROVE y \in Units(f) \cup {x}
  <2>1. PICK k \in DOMAIN g : \E n \in 1..g[k] : y = <<k, n>>
    BY UnitsMember
  <2>2. PICK n \in 1..g[k] : y = <<k, n>>
    BY <2>1
  <2>3. CASE k = key /\ n = f[key] + 1
    BY <2>2, <2>3
  <2>4. CASE ~(k = key /\ n = f[key] + 1)
    <3>1. k \in DOMAIN f /\ n \in 1..f[k]
      BY <1>1, <2>4
    <3> QED
      BY <2>2, <3>1, UnitsMember, Zenon
  <2> QED
    BY <2>3, <2>4
<1>4. ASSUME NEW y \in Units(f) \cup {x} PROVE y \in Units(g)
  <2>1. CASE y = x
    <3>1. f[key] + 1 \in 1..g[key] /\ key \in DOMAIN g
      BY <1>1
    <3> QED
      BY <2>1, <3>1, UnitsMember, Zenon
  <2>2. CASE y \in Units(f)
    <3>1. PICK k \in DOMAIN f : \E n \in 1..f[k] : y = <<k, n>>
      BY <2>2, UnitsMember
    <3>2. PICK n \in 1..f[k] : y = <<k, n>>
      BY <3>1
    <3>3. k \in DOMAIN g /\ n \in 1..g[k]
      BY <1>1
    <3> QED
      BY <3>2, <3>3, UnitsMember, Zenon
  <2> QED
    BY <1>4, <2>1, <2>2
<1>5. Units(g) = Units(f) \cup {x}
  BY <1>3, <1>4
<1> QED
  BY <1>2, <1>5

\* A new key enters with a value of its own.
LEMMA UnitsExtend ==
  ASSUME NEW f, IsFiniteSet(Units(f)), NEW key, key \notin DOMAIN f,
         NEW g, DOMAIN g = DOMAIN f \cup {key}, \A k \in DOMAIN f : g[k] = f[k],
         g[key] \in Nat
  PROVE  /\ g[key] = 0 => Units(g) = Units(f)
         /\ IsFiniteSet(Units(g))
         /\ Cardinality(Units(g)) \in Nat /\ Cardinality(Units(f)) \in Nat
         /\ g[key] > 0 => Cardinality(Units(g)) >= Cardinality(Units(f)) + 1
<1> DEFINE own == {key} \X (1..g[key])
<1>1. Units(g) = Units(f) \cup own
  BY DEF Units
<1>2. IsFiniteSet(own)
  <2>1. IsFiniteSet({key})
    BY FS_Singleton, Zenon
  <2>2. 1 \in Int /\ g[key] \in Int
    OBVIOUS
  <2>3. IsFiniteSet(1..g[key])
    BY <2>2, FS_Interval, Zenon
  <2> QED
    BY <2>1, <2>3, FS_Product, Zenon
<1>3. IsFiniteSet(Units(g))
  <2>1. IsFiniteSet(Units(f) \cup own)
    BY <1>2, FS_Union, Zenon
  <2> QED
    BY <1>1, <2>1
<1>4. Cardinality(Units(g)) \in Nat /\ Cardinality(Units(f)) \in Nat
  BY <1>3, FS_CardinalityType
<1>5. ASSUME g[key] = 0 PROVE Units(g) = Units(f)
  <2>1. own = {}
    BY <1>5
  <2> QED
    BY <1>1, <2>1
<1>6. ASSUME g[key] > 0 PROVE Cardinality(Units(g)) >= Cardinality(Units(f)) + 1
  <2> DEFINE x == <<key, 1>>
  <2>1. x \in own
    BY <1>6
  <2>2. x \notin Units(f)
    BY DEF Units
  <2>3. Units(f) \cup {x} \in SUBSET Units(g)
    BY <1>1, <2>1
  <2>4. Cardinality(Units(f) \cup {x}) <= Cardinality(Units(g))
    BY <1>3, <2>3, FS_Subset
  <2>5. Cardinality(Units(f) \cup {x}) = Cardinality(Units(f)) + 1
    BY <2>2, Joining
  <2> QED
    BY <1>4, <2>4, <2>5
<1> QED
  BY <1>3, <1>4, <1>5, <1>6

\* The counters of the entries in the map are numbers.
LEMMA CountersType ==
  ASSUME TypeOK
  PROVE  Reads \in [Bound -> Nat] /\ Writes \in [Bound -> Nat]
<1>1. heap \in [Entry -> [value : Content, reads : Nat, writes : Nat]]
  BY DEF TypeOK, MemoryOK
<1>2. \A k \in Bound : root[k] \in Entry
  BY InUse
<1> QED
  BY <1>1, <1>2 DEF Reads, Writes

\* What a handler that does not commit does to them.
LEMMA CountersStep ==
  ASSUME Structure, NEW w \in Worker, WorkerStep(w), ~SetCommit(w)
  PROVE  /\ Bound' = Bound
         /\ Reads' = [k \in Bound |->
              IF GetCount(w) /\ loc[w].ent = root[k] THEN Reads[k] + 1 ELSE Reads[k]]
         /\ Writes' = [k \in Bound |->
              IF SetCount(w) /\ loc[w].ent = root[k] THEN Writes[k] + 1 ELSE Writes[k]]
<1>1. TypeOK /\ root' = root
  BY WorkerRoot DEF Structure
<1>2. Bound' = Bound
  BY <1>1 DEF Bound
<1>3. ASSUME NEW k \in Bound
      PROVE  /\ heap'[root[k]].reads = IF GetCount(w) /\ loc[w].ent = root[k]
                                       THEN heap[root[k]].reads + 1 ELSE heap[root[k]].reads
             /\ heap'[root[k]].writes = IF SetCount(w) /\ loc[w].ent = root[k]
                                        THEN heap[root[k]].writes + 1
                                        ELSE heap[root[k]].writes
  <2>1. root[k] \in Entry /\ root[k] \in Allocated
    BY <1>1, <1>3, InUse
  <2> QED
    BY <2>1, EntryCounters
<1> QED
  BY <1>1, <1>2, <1>3 DEF Reads, Writes

\* The key of an entry in the map.
LEMMA KeyOfEntry ==
  ASSUME Structure, NEW key \in Bound, NEW k \in Bound
  PROVE  root[key] = root[k] <=> k = key
BY DEF Structure, Sharing, Injective, Bound

\* A get counts itself in the entry of its key.
LEMMA GetCounted ==
  ASSUME Structure, NEW w \in Worker, GetCount(w), Holding(w)
  PROVE  \E x : x \notin Units(Reads) /\ Units(Reads') = Units(Reads) \cup {x}
<1> DEFINE key == loc[w].key
<1>1. pc[w] = "g_count" /\ HandlerOK(pc[w], loc[w]) /\ TypeOK
  BY DEF GetCount, CountRead, Structure, TypeOK, WorkersOK
<1>2. key \in Key /\ loc[w].ent = root[key] /\ loc[w].ent \in Entry
  BY <1>1 DEF HandlerOK, Holding, Getting
<1>3. key \in Bound
  BY <1>2, NilApart DEF Bound
<1>4. WorkerStep(w) /\ ~SetCommit(w)
  BY <1>1 DEF WorkerStep, WorkerRun, SetCommit
<1>5. /\ DOMAIN Reads' = Bound /\ Reads'[key] = Reads[key] + 1
      /\ \A k \in Bound \ {key} : Reads'[k] = Reads[k]
  <2>1. Reads \in [Bound -> Nat]
    BY <1>1, CountersType
  <2>2. \A k \in Bound : loc[w].ent = root[k] <=> k = key
    BY <1>2, <1>3, KeyOfEntry
  <2>3. Reads' = [k \in Bound |-> IF GetCount(w) /\ loc[w].ent = root[k]
                               THEN Reads[k] + 1 ELSE Reads[k]]
    BY <1>4, CountersStep, Zenon
  <2>4. \A k \in Bound : Reads'[k] = IF k = key THEN Reads[k] + 1 ELSE Reads[k]
    BY <2>2, <2>3
  <2> QED
    BY <1>3, <2>3, <2>4
<1> DEFINE f == Reads
           g == Reads'
<1>7. f \in [Bound -> Nat] /\ DOMAIN g = Bound /\ g[key] = f[key] + 1
        /\ \A k \in Bound \ {key} : g[k] = f[k]
  BY <1>1, <1>5, CountersType
<1> HIDE DEF f, g
<1>8. \E x : x \notin Units(f) /\ Units(g) = Units(f) \cup {x}
  BY <1>3, <1>7, UnitsGrow
<1> QED
  BY <1>8 DEF f, g

\* A set counts itself in the entry of its key, if the map it has loaded has one.
LEMMA SetCounted ==
  ASSUME Structure, NEW w \in Worker, SetCount(w), loc[w].snap[loc[w].key] # Nil
  PROVE  \E x : x \notin Units(Writes) /\ Units(Writes') = Units(Writes) \cup {x}
<1> DEFINE key == loc[w].key
<1>1. pc[w] = "s_count" /\ HandlerOK(pc[w], loc[w]) /\ TypeOK
  BY DEF SetCount, Structure, TypeOK, WorkersOK
<1>2. key \in AllKey /\ loc[w].ent \in Entry
  BY <1>1 DEF HandlerOK, Setting, Applying, AllKey
<1>3. loc[w].ent = root[key]
  BY <1>1, <1>2 DEF Structure, Sharing, LoadedOK, AppliedOK, Updating, Applying
<1>4. key \in Bound
  BY <1>2, <1>3, NilApart DEF Bound
<1>5. WorkerStep(w) /\ ~SetCommit(w)
  BY <1>1 DEF WorkerStep, WorkerRun, SetCommit
<1>6. /\ DOMAIN Writes' = Bound /\ Writes'[key] = Writes[key] + 1
      /\ \A k \in Bound \ {key} : Writes'[k] = Writes[k]
  <2>1. Writes \in [Bound -> Nat]
    BY <1>1, CountersType
  <2>2. \A k \in Bound : loc[w].ent = root[k] <=> k = key
    BY <1>3, <1>4, KeyOfEntry
  <2>3. Writes' = [k \in Bound |-> IF SetCount(w) /\ loc[w].ent = root[k]
                               THEN Writes[k] + 1 ELSE Writes[k]]
    BY <1>5, CountersStep, Zenon
  <2>4. \A k \in Bound : Writes'[k] = IF k = key THEN Writes[k] + 1 ELSE Writes[k]
    BY <2>2, <2>3
  <2> QED
    BY <1>4, <2>3, <2>4
<1> DEFINE f == Writes
           g == Writes'
<1>7. f \in [Bound -> Nat] /\ DOMAIN g = Bound /\ g[key] = f[key] + 1
        /\ \A k \in Bound \ {key} : g[k] = f[k]
  BY <1>1, <1>6, CountersType
<1> HIDE DEF f, g
<1>8. \E x : x \notin Units(f) /\ Units(g) = Units(f) \cup {x}
  BY <1>4, <1>7, UnitsGrow
<1> QED
  BY <1>8 DEF f, g

\* A commit brings in what its entry has counted: no get, and this set.
LEMMA CommitCounted ==
  ASSUME Structure, NEW w \in Worker, SetCommit(w), PrivateOK(w), Finite
  PROVE  /\ Units(Reads') = Units(Reads)
         /\ loc[w].snap[loc[w].key] # Nil => Units(Writes') = Units(Writes)
         /\ loc[w].snap[loc[w].key] = Nil =>
              /\ IsFiniteSet(Units(Writes')) /\ Cardinality(Units(Writes')) \in Nat
              /\ Cardinality(Units(Writes)) \in Nat
              /\ Cardinality(Units(Writes')) >= Cardinality(Units(Writes)) + 1
<1> DEFINE key == loc[w].key
           e == loc[w].ent
<1>1. TypeOK /\ Sharing /\ pc[w] = "s_cas" /\ heap' = heap /\ loc[w].oldv = ver
  BY DEF Structure, SetCommit, Install
<1>2. /\ key \in AllKey /\ e \in Entry /\ root' = [root EXCEPT ![key] = e]
      /\ root[key] # Nil => root[key] = e
  BY <1>1, CommitAdds DEF AllKey
<1>3. loc[w].snap = root
  BY <1>1 DEF Sharing, LoadedOK, Updating, Applying
<1>4. root \in MapType /\ heap[e] \in [value : Content, reads : Nat, writes : Nat] /\ e # Nil
  BY <1>1, <1>2, NilApart DEF TypeOK, MemoryOK
<1>5. CASE root[key] # Nil
  <2>1. root' = root
    BY <1>2, <1>4, <1>5 DEF MapType
  <2>2. Bound' = Bound /\ Reads' = Reads /\ Writes' = Writes
    BY <1>1, <2>1 DEF Bound, Reads, Writes
  <2> QED
    BY <1>3, <1>5, <2>2
<1>6. CASE root[key] = Nil
  <2>1. Private(w) /\ heap[e].reads = 0 /\ heap[e].writes >= 1
    BY <1>1, <1>3, <1>6 DEF PrivateOK, Private, Applying
  <2>2. Bound' = Bound \cup {key} /\ key \notin Bound
    BY <1>2, <1>4, <1>6 DEF Bound, MapType
  <2>3. root'[key] = e /\ \A k \in Bound : root'[k] = root[k]
    BY <1>2, <1>4, <2>2 DEF Bound, MapType
  <2> DEFINE r == Reads'
             s == Writes'
  <2>4. /\ DOMAIN r = DOMAIN Reads \cup {key} /\ key \notin DOMAIN Reads
        /\ \A k \in DOMAIN Reads : r[k] = Reads[k]
        /\ r[key] = 0 /\ r[key] \in Nat
    BY <1>1, <2>1, <2>2, <2>3 DEF Reads
  <2>5. /\ DOMAIN s = DOMAIN Writes \cup {key} /\ key \notin DOMAIN Writes
        /\ \A k \in DOMAIN Writes : s[k] = Writes[k]
        /\ s[key] \in Nat /\ s[key] > 0
    BY <1>1, <1>4, <2>1, <2>2, <2>3 DEF Writes
  <2> HIDE DEF r, s
  <2>6. Units(r) = Units(Reads)
    <3> DEFINE q == Reads
    <3>1. IsFiniteSet(Units(q))
      BY DEF Finite
    <3> HIDE DEF q
    <3>2. Units(r) = Units(q)
      BY <2>4, <3>1, UnitsExtend DEF q
    <3> QED
      BY <3>2 DEF q
  <2>7. /\ IsFiniteSet(Units(s)) /\ Cardinality(Units(s)) \in Nat
        /\ Cardinality(Units(Writes)) \in Nat
        /\ Cardinality(Units(s)) >= Cardinality(Units(Writes)) + 1
    BY <2>5, UnitsExtend DEF Finite
  <2> QED
    BY <1>3, <1>6, <2>6, <2>7 DEF r, s
<1> QED
  BY <1>5, <1>6

\* The entry that w has made stays its own while others take a step, ...
LEMMA PrivateStays ==
  ASSUME Structure, NEW w \in Worker, WorkerStep(w), Holding(w),
         NEW v \in Worker, v # w, PrivateOK(v)
  PROVE  PrivateOK(v)'
<1>1. TypeOK /\ Sharing /\ pc'[v] = pc[v] /\ loc'[v] = loc[v]
  BY WorkerAlone DEF Structure
<1> SUFFICES ASSUME Private(v) PROVE PrivateOK(v)'
  BY <1>1 DEF PrivateOK, Private
<1> DEFINE e == loc[v].ent
<1>2. /\ \A k \in AllKey : root[k] # e
      /\ \A u \in Worker : u # v /\ pc[u] \in Applying => loc[u].ent # e
      /\ heap[e].reads = 0 /\ (pc[v] = "s_cas" => heap[e].writes >= 1)
  BY DEF PrivateOK
<1>3. e \in Entry /\ e \in Allocated
  BY <1>1, InUse DEF Private
<1>4. HandlerOK(pc[w], loc[w]) /\ root \in MapType
        /\ heap[e] \in [value : Content, reads : Nat, writes : Nat]
        /\ pc \in [Worker -> {"idle"} \cup Setting \cup Getting]
        /\ loc \in [Worker -> LocalType]
  BY <1>1, <1>3 DEF TypeOK, WorkersOK, MemoryOK
<1>5. \A k \in AllKey : root'[k] # e
  <2>1. CASE SetCommit(w)
    <3>1. root' = [root EXCEPT ![loc[w].key] = loc[w].ent]
      BY <1>1, <2>1, CommitAdds
    <3>2. loc[w].ent # e
      BY <1>2, <2>1 DEF SetCommit, Applying
    <3> QED
      BY <1>2, <1>4, <3>1, <3>2 DEF MapType
  <2>2. CASE ~SetCommit(w)
    BY <1>2, <2>2, WorkerRoot
  <2> QED
    BY <2>1, <2>2
<1>6. pc'[w] \in Applying => loc'[w].ent # e
  <2>1. CASE SetApply(w)
    <3> DEFINE found == loc[w].snap[loc[w].key]
    <3>1. PICK f \in IF found # Nil THEN {found} ELSE Entry \ Allocated :
            loc' = [loc EXCEPT ![w].ent = f]
      BY <2>1 DEF SetApply
    <3>2. f # e
      <4>1. CASE found # Nil
        <5>1. loc[w].key \in AllKey
          BY <1>4, <2>1 DEF SetApply, HandlerOK, Setting, AllKey
        <5>2. found = root[loc[w].key]
          BY <1>1, <2>1, <4>1, <5>1 DEF SetApply, Sharing, LoadedOK, Updating
        <5> QED
          BY <1>2, <3>1, <4>1, <5>1, <5>2
      <4>2. CASE found = Nil
        BY <1>3, <3>1, <4>2
      <4> QED
        BY <4>1, <4>2
    <3> QED
      BY <1>4, <3>1, <3>2 DEF LocalType
  <2>2. CASE SetMove(w) \/ SetCount(w)
    <3>1. loc'[w].ent = loc[w].ent /\ pc[w] \in Applying
      BY <1>4, <2>2 DEF SetMove, SetCount, Applying, LocalType
    <3> QED
      BY <1>2, <3>1
  <2>3. CASE SetCall(w) \/ GetCall(w) \/ SetLoad(w) \/ SetCommit(w) \/ SetRetry(w)
    BY <1>4, <2>3 DEF SetCall, GetCall, Call, SetLoad, SetCommit, Install, SetRetry, Goto,
                      Applying
  <2>4. CASE SetStat(w) \/ SetDirty(w) \/ GetMiss(w) \/ GetHit(w) \/ GetCount(w)
    BY <1>4, <2>4 DEF SetStat, SetDirty, GetMiss, GetHit, Find, GetCount, CountRead, Return,
                      Goto, Applying
  <2>5. CASE GetStat(w) \/ GetReads(w) \/ GetWrites(w) \/ GetValue(w)
    BY <1>4, <2>5 DEF GetStat, GetReads, GetWrites, GetValue, Return, Goto, Applying
  <2> QED
    BY <2>1, <2>2, <2>3, <2>4, <2>5 DEF WorkerStep, WorkerRun
<1>7. \A u \in Worker : u # v /\ pc'[u] \in Applying => loc'[u].ent # e
  <2>1. \A u \in Worker \ {w} : pc'[u] = pc[u] /\ loc'[u] = loc[u]
    BY <1>1, WorkerAlone
  <2> QED
    BY <1>2, <1>6, <2>1
<1>8. heap'[e].reads = 0
  <2>1. ~(GetCount(w) /\ loc[w].ent = e)
    <3> SUFFICES ASSUME GetCount(w) PROVE loc[w].ent # e
      OBVIOUS
    <3>1. pc[w] = "g_count"
      BY DEF GetCount, CountRead
    <3>2. loc[w].key \in AllKey /\ loc[w].ent = root[loc[w].key]
      BY <1>4, <3>1 DEF HandlerOK, Holding, Getting, AllKey
    <3> QED
      BY <1>2, <3>2
  <2> QED
    BY <1>2, <1>3, <2>1, EntryCounters
<1>9. pc[v] = "s_cas" => heap'[e].writes >= 1
  BY <1>2, <1>3, <1>4, EntryCounters
<1> QED
  BY <1>1, <1>5, <1>7, <1>8, <1>9 DEF PrivateOK

\* ... and while w takes its own.
LEMMA PrivateOwn ==
  ASSUME Structure, NEW w \in Worker, WorkerStep(w), PrivateOK(w)
  PROVE  PrivateOK(w)'
<1>1. TypeOK /\ Sharing
  BY DEF Structure
<1>2. /\ pc \in [Worker -> {"idle"} \cup Setting \cup Getting]
      /\ loc \in [Worker -> LocalType] /\ root \in MapType
      /\ heap \in [Entry -> [value : Content, reads : Nat, writes : Nat]]
  BY <1>1 DEF TypeOK, WorkersOK, MemoryOK
<1>3. \A u \in Worker \ {w} : pc'[u] = pc[u] /\ loc'[u] = loc[u]
  BY <1>1, WorkerAlone
<1>4. CASE SetApply(w)
  <2> DEFINE found == loc[w].snap[loc[w].key]
  <2>1. PICK f \in IF found # Nil THEN {found} ELSE Entry \ Allocated :
          /\ loc' = [loc EXCEPT ![w].ent = f]
          /\ heap' = [heap EXCEPT ![f] = IF found # Nil THEN @ ELSE NewEntry]
    BY <1>4 DEF SetApply
  <2>2. /\ pc'[w] = "s_move" /\ root' = root /\ loc'[w].ent = f
        /\ loc'[w].snap[loc'[w].key] = found
    BY <1>2, <1>4, <2>1 DEF SetApply, Goto, LocalType
  <2> SUFFICES ASSUME found = Nil PROVE PrivateOK(w)'
    BY <2>2 DEF PrivateOK, Private
  <2>3. f \in Entry /\ f \notin Allocated
    BY <2>1
  <2>4. heap'[f].reads = 0
    BY <1>2, <2>1, <2>3 DEF NewEntry
  <2>5. \A k \in AllKey : root[k] # f
    BY <2>3, NilApart DEF Allocated, Bound
  <2>6. \A u \in Worker : pc[u] \in Applying => loc[u].ent # f
    BY <2>3 DEF Allocated
  <2> QED
    BY <1>3, <2>2, <2>4, <2>5, <2>6 DEF PrivateOK
<1>5. CASE SetMove(w) \/ SetCount(w)
  <2>1. /\ loc'[w].ent = loc[w].ent /\ loc'[w].key = loc[w].key /\ loc'[w].snap = loc[w].snap
        /\ pc[w] \in Applying /\ root' = root
        /\ ~SetCount(w) => pc'[w] = "s_count"
    <3>1. CASE SetMove(w)
      BY <1>2, <3>1 DEF SetMove, Goto, Applying, LocalType
    <3>2. CASE SetCount(w)
      BY <1>2, <3>2 DEF SetCount, Goto, Applying
    <3> QED
      BY <1>5, <3>1, <3>2
  <2> SUFFICES ASSUME Private(w) PROVE PrivateOK(w)'
    BY <2>1 DEF PrivateOK, Private
  <2> DEFINE e == loc[w].ent
  <2>2. e \in Entry /\ e \in Allocated
    BY <1>1, <2>1, InUse
  <2>3. heap[e].reads = 0 /\ heap[e].writes \in Nat
    BY <1>2, <2>2 DEF PrivateOK
  <2>4. ~GetCount(w)
    BY <2>1 DEF GetCount, CountRead, Applying
  <2>5. heap'[e].reads = 0
    BY <2>2, <2>3, <2>4, EntryCounters
  <2>6. SetCount(w) => heap'[e].writes >= 1
    BY <2>2, <2>3, EntryCounters
  <2> QED
    BY <1>3, <1>5, <2>1, <2>5, <2>6 DEF PrivateOK
<1>6. CASE SetCall(w) \/ GetCall(w) \/ SetLoad(w) \/ SetCommit(w) \/ SetRetry(w)
  <2>1. pc'[w] \notin Applying
    BY <1>2, <1>6 DEF SetCall, GetCall, Call, SetLoad, SetCommit, Install, SetRetry, Goto,
                      Applying
  <2> QED
    BY <2>1 DEF PrivateOK, Private
<1>7. CASE SetStat(w) \/ SetDirty(w) \/ GetMiss(w) \/ GetHit(w) \/ GetCount(w)
  <2>1. pc'[w] \notin Applying
    BY <1>2, <1>7 DEF SetStat, SetDirty, GetMiss, GetHit, Find, GetCount, CountRead, Return,
                      Goto, Applying
  <2> QED
    BY <2>1 DEF PrivateOK, Private
<1>8. CASE GetStat(w) \/ GetReads(w) \/ GetWrites(w) \/ GetValue(w)
  <2>1. pc'[w] \notin Applying
    BY <1>2, <1>8 DEF GetStat, GetReads, GetWrites, GetValue, Return, Goto, Applying
  <2> QED
    BY <2>1 DEF PrivateOK, Private
<1> QED
  BY <1>4, <1>5, <1>6, <1>7, <1>8 DEF WorkerStep, WorkerRun

\* Where the totals are incremented, and which steps lead there.
LEMMA WorkerMoves ==
  ASSUME Structure, NEW w \in Worker, WorkerStep(w)
  PROVE  /\ GetCount(w) => pc[w] = "g_count" /\ pc'[w] = "g_stat"
         /\ GetStat(w) => pc[w] = "g_stat" /\ pc'[w] = "g_reads"
         /\ SetCount(w) => pc[w] = "s_count" /\ pc'[w] = "s_cas" /\ loc' = loc
         /\ SetCommit(w) => pc[w] = "s_cas" /\ pc'[w] = "s_stat"
         /\ SetRetry(w) => pc[w] = "s_cas" /\ pc'[w] = "s_load"
         /\ SetStat(w) => pc[w] = "s_stat" /\ pc'[w] = "s_dirty"
         /\ ~(GetCount(w) \/ GetStat(w)) => pc[w] # "g_stat" /\ pc'[w] # "g_stat"
         /\ ~(SetCount(w) \/ SetCommit(w) \/ SetRetry(w)) => pc[w] # "s_cas" /\ pc'[w] # "s_cas"
         /\ ~(SetCommit(w) \/ SetStat(w)) => pc[w] # "s_stat" /\ pc'[w] # "s_stat"
         /\ get_total' = IF GetStat(w) THEN get_total + 1 ELSE get_total
         /\ set_total' = IF SetStat(w) THEN set_total + 1 ELSE set_total
<1>1. pc \in [Worker -> {"idle"} \cup Setting \cup Getting]
  BY DEF Structure, TypeOK, WorkersOK
<1> USE <1>1 DEF Goto, Return, statVars
<1>2. /\ GetCount(w) => pc[w] = "g_count" /\ pc'[w] = "g_stat" /\ get_total' = get_total
                          /\ set_total' = set_total
      /\ GetStat(w) => pc[w] = "g_stat" /\ pc'[w] = "g_reads" /\ get_total' = get_total + 1
                         /\ set_total' = set_total
  BY DEF GetCount, CountRead, GetStat
<1>3. /\ SetCount(w) => pc[w] = "s_count" /\ pc'[w] = "s_cas" /\ loc' = loc
                          /\ get_total' = get_total /\ set_total' = set_total
      /\ SetCommit(w) => pc[w] = "s_cas" /\ pc'[w] = "s_stat" /\ get_total' = get_total
                           /\ set_total' = set_total
  BY DEF SetCount, SetCommit, Install
<1>4. /\ SetRetry(w) => pc[w] = "s_cas" /\ pc'[w] = "s_load" /\ get_total' = get_total
                          /\ set_total' = set_total
      /\ SetStat(w) => pc[w] = "s_stat" /\ pc'[w] = "s_dirty" /\ get_total' = get_total
                         /\ set_total' = set_total + 1
  BY DEF SetRetry, SetStat
<1> DEFINE Apart ==
             /\ {pc[w], pc'[w]} \cap {"g_count", "g_stat", "s_count", "s_cas", "s_stat"} \subseteq
                  {"g_count", "s_count"}
             /\ pc[w] \notin {"g_count", "s_count"}
             /\ get_total' = get_total /\ set_total' = set_total
<1>5. SetCall(w) \/ GetCall(w) \/ SetLoad(w) \/ SetApply(w) \/ SetMove(w) => Apart
  BY DEF SetCall, GetCall, Call, SetLoad, SetApply, SetMove
<1>6. SetDirty(w) \/ GetMiss(w) \/ GetHit(w) => Apart
  BY DEF SetDirty, GetMiss, GetHit, Find
<1>7. GetReads(w) \/ GetWrites(w) \/ GetValue(w) => Apart
  BY DEF GetReads, GetWrites, GetValue
<1>8. \/ GetCount(w) \/ GetStat(w) \/ SetCount(w) \/ SetCommit(w) \/ SetRetry(w) \/ SetStat(w)
      \/ Apart
  BY <1>5, <1>6, <1>7 DEF WorkerStep, WorkerRun
<1> QED
  BY <1>2, <1>3, <1>4, <1>8

\* Every get is counted in an entry, then in the total.
LEMMA ReadsStep ==
  ASSUME Structure, NEW w \in Worker, WorkerStep(w), Holding(w), PrivateOK(w), Finite,
         ReadsAccounted
  PROVE  /\ IsFiniteSet(Units(Reads')) /\ IsFiniteSet(InPc("g_stat")')
         /\ ReadsAccounted'
<1> DEFINE R == Units(Reads)
           RR == Units(Reads')
           G == InPc("g_stat")
           GG == InPc("g_stat")'
<1>1. /\ IsFiniteSet(R) /\ IsFiniteSet(G) /\ Cardinality(R) = get_total + Cardinality(G)
      /\ get_total \in Nat
  BY DEF Finite, ReadsAccounted, Structure, TypeOK, CountsOK
<1>2. IsFiniteSet(RR) /\ IsFiniteSet(GG) /\ Cardinality(RR) = get_total' + Cardinality(GG)
  <2>1. CASE GetCount(w)
    <3>1. PICK x : x \notin R /\ RR = R \cup {x}
      BY <2>1, GetCounted
    <3>2. w \notin G /\ GG = G \cup {w} /\ get_total' = get_total
      <4>1. pc[w] = "g_count" /\ pc'[w] = "g_stat" /\ ~GetStat(w)
        BY <2>1, WorkerMoves DEF GetStat
      <4> QED
        BY <4>1, InPcMoves, WorkerMoves DEF InPc
    <3> HIDE DEF R, RR, G, GG
    <3>3. IsFiniteSet(RR) /\ Cardinality(R) \in Nat /\ Cardinality(RR) = Cardinality(R) + 1
      BY <1>1, <3>1, Joining
    <3>4. IsFiniteSet(GG) /\ Cardinality(G) \in Nat /\ Cardinality(GG) = Cardinality(G) + 1
      BY <1>1, <3>2, Joining
    <3> QED
      BY <1>1, <3>2, <3>3, <3>4
  <2>2. CASE ~GetCount(w)
    <3>1. RR = R
      <4>1. CASE SetCommit(w)
        BY <4>1, CommitCounted
      <4>2. CASE ~SetCommit(w)
        <5>1. TypeOK
          BY DEF Structure
        <5>2. Reads' = Reads
          BY <2>2, <4>2, <5>1, CountersStep, CountersType
        <5> QED
          BY <5>2
      <4> QED
        BY <4>1, <4>2
    <3>2. CASE GetStat(w)
      <4>1. w \in G /\ GG = G \ {w} /\ get_total' = get_total + 1
        BY <3>2, InPcMoves, WorkerMoves DEF InPc
      <4> HIDE DEF R, RR, G, GG
      <4>2. /\ IsFiniteSet(GG) /\ Cardinality(G) \in Nat /\ Cardinality(GG) \in Nat
            /\ Cardinality(GG) = Cardinality(G) - 1
        BY <1>1, <4>1, Leaving
      <4> QED
        BY <1>1, <3>1, <4>1, <4>2
    <3>3. CASE ~GetStat(w)
      <4>1. pc[w] # "g_stat" /\ pc'[w] # "g_stat" /\ get_total' = get_total
        BY <2>2, <3>3, WorkerMoves
      <4>2. GG = G
        BY <4>1, InPcStays
      <4> QED
        BY <1>1, <3>1, <4>1, <4>2
    <3> QED
      BY <3>2, <3>3
  <2> QED
    BY <2>1, <2>2
<1> QED
  BY <1>2 DEF ReadsAccounted

\* Every set is counted in its entry before its commit, and after that in the total.
LEMMA WritesStep ==
  ASSUME Structure, NEW w \in Worker, WorkerStep(w), PrivateOK(w), Finite,
         Cardinality(Units(Writes)) >=
           set_total + Cardinality(InPc("s_stat")) + Cardinality(Recounting)
  PROVE  /\ IsFiniteSet(Units(Writes')) /\ IsFiniteSet(InPc("s_stat")')
         /\ IsFiniteSet(Recounting')
         /\ Cardinality(Units(Writes')) >=
              set_total' + Cardinality(InPc("s_stat")') + Cardinality(Recounting')
<1> DEFINE U == Units(Writes)
           UU == Units(Writes')
           S == InPc("s_stat")
           SS == InPc("s_stat")'
           C == Recounting
           CC == Recounting'
<1>1. /\ IsFiniteSet(U) /\ IsFiniteSet(S) /\ IsFiniteSet(C)
      /\ Cardinality(U) >= set_total + Cardinality(S) + Cardinality(C)
      /\ set_total \in Nat /\ TypeOK
  BY DEF Finite, Structure, TypeOK, CountsOK
<1>2. Cardinality(U) \in Nat /\ Cardinality(S) \in Nat /\ Cardinality(C) \in Nat
  BY <1>1, FS_CardinalityType
<1>3. w \in S <=> pc[w] = "s_stat"
  BY DEF InPc
<1>4. w \in C <=> pc[w] = "s_cas" /\ loc[w].snap[loc[w].key] # Nil
  BY DEF Recounting
<1>5. SS = IF pc'[w] = "s_stat" THEN S \cup {w} ELSE S \ {w}
  BY InPcMoves
<1>6. CC = IF pc'[w] = "s_cas" /\ loc'[w].snap[loc'[w].key] # Nil THEN C \cup {w} ELSE C \ {w}
  BY RecountingMoves
<1>7. pc[w] # "s_stat" /\ pc'[w] # "s_stat" => SS = S
  BY <1>3, <1>5
<1>8. pc[w] # "s_cas" /\ pc'[w] # "s_cas" => CC = C
  BY <1>4, <1>6
<1>9. CASE SetCount(w)
  <2>1. pc[w] = "s_count" /\ pc'[w] = "s_cas" /\ loc' = loc /\ set_total' = set_total
    BY <1>9, WorkerMoves DEF SetCount, statVars
  <2>2. SS = S
    BY <1>7, <2>1
  <2>3. CASE loc[w].snap[loc[w].key] # Nil
    <3>1. PICK x : x \notin U /\ UU = U \cup {x}
      BY <1>9, <2>3, SetCounted
    <3>2. w \notin C /\ CC = C \cup {w}
      BY <1>4, <1>6, <2>1, <2>3
    <3> HIDE DEF U, UU, S, SS, C, CC
    <3>3. IsFiniteSet(UU) /\ Cardinality(UU) = Cardinality(U) + 1
      BY <1>1, <3>1, Joining
    <3>4. IsFiniteSet(CC) /\ Cardinality(CC) = Cardinality(C) + 1
      BY <1>1, <3>2, Joining
    <3>5. Cardinality(UU) >= set_total' + Cardinality(SS) + Cardinality(CC)
      BY <1>1, <1>2, <2>1, <2>2, <3>3, <3>4
    <3> QED
      BY <1>1, <2>2, <3>3, <3>4, <3>5 DEF U, UU, S, SS, C, CC
  <2>4. CASE loc[w].snap[loc[w].key] = Nil
    <3>1. \A k \in Bound : root[k] # loc[w].ent
      BY <2>1, <2>4 DEF PrivateOK, Private, Applying, Bound
    <3>2. ~SetCommit(w)
      BY <2>1 DEF SetCommit
    <3>3. Writes' = Writes
      BY <1>1, <3>1, <3>2, CountersStep, CountersType
    <3>4. CC = C
      BY <1>4, <1>6, <2>1, <2>4
    <3> QED
      BY <1>1, <2>1, <2>2, <3>3, <3>4
  <2> QED
    BY <2>3, <2>4
<1>10. CASE SetCommit(w)
  <2>1. pc[w] = "s_cas" /\ pc'[w] = "s_stat" /\ set_total' = set_total
    BY <1>10, WorkerMoves DEF SetCommit, Install, statVars
  <2>2. w \notin S /\ SS = S \cup {w}
    BY <1>3, <1>5, <2>1
  <2>3. IsFiniteSet(SS) /\ Cardinality(SS) = Cardinality(S) + 1
    BY <1>1, <2>2, Joining
  <2>4. CC = C \ {w}
    BY <1>6, <2>1
  <2>5. CASE loc[w].snap[loc[w].key] # Nil
    <3>1. w \in C /\ UU = U
      BY <1>4, <1>10, <2>1, <2>5, CommitCounted
    <3> HIDE DEF U, UU, S, SS, C, CC
    <3>2. IsFiniteSet(CC) /\ Cardinality(CC) = Cardinality(C) - 1 /\ Cardinality(CC) \in Nat
      BY <1>1, <2>4, <3>1, Leaving
    <3>3. Cardinality(UU) >= set_total' + Cardinality(SS) + Cardinality(CC)
      BY <1>1, <1>2, <2>1, <2>3, <3>1, <3>2
    <3> QED
      BY <1>1, <2>3, <3>1, <3>2, <3>3 DEF U, UU, S, SS, C, CC
  <2>6. CASE loc[w].snap[loc[w].key] = Nil
    <3>1. /\ IsFiniteSet(UU) /\ Cardinality(UU) \in Nat
          /\ Cardinality(UU) >= Cardinality(U) + 1
      BY <1>10, <2>6, CommitCounted
    <3>2. CC = C
      BY <1>4, <2>4, <2>6
    <3> HIDE DEF U, UU, S, SS, C, CC
    <3>3. Cardinality(UU) >= set_total' + Cardinality(SS) + Cardinality(CC)
      BY <1>1, <1>2, <2>1, <2>3, <3>1, <3>2
    <3> QED
      BY <1>1, <2>3, <3>1, <3>2, <3>3 DEF U, UU, S, SS, C, CC
  <2> QED
    BY <2>5, <2>6
<1>11. CASE ~SetCount(w) /\ ~SetCommit(w)
  <2>1. Writes' = Writes
    BY <1>1, <1>11, CountersStep, CountersType
  <2>2. UU = U
    BY <2>1
  <2>3. CASE SetRetry(w)
    <3>1. pc[w] = "s_cas" /\ pc'[w] = "s_load" /\ set_total' = set_total
      BY <2>3, WorkerMoves DEF SetRetry, statVars
    <3>2. SS = S /\ CC = C \ {w}
      BY <1>6, <1>7, <3>1
    <3> HIDE DEF U, UU, S, SS, C, CC
    <3>3. IsFiniteSet(CC) /\ Cardinality(CC) <= Cardinality(C) /\ Cardinality(CC) \in Nat
      <4>1. CC \in SUBSET C
        BY <3>2
      <4>2. IsFiniteSet(CC) /\ Cardinality(CC) <= Cardinality(C)
        BY <1>1, <4>1, FS_Subset, Zenon
      <4> QED
        BY <4>2, FS_CardinalityType
    <3>4. Cardinality(UU) >= set_total' + Cardinality(SS) + Cardinality(CC)
      BY <1>1, <1>2, <2>2, <3>1, <3>2, <3>3
    <3> QED
      BY <1>1, <2>2, <3>2, <3>3, <3>4 DEF U, UU, S, SS, C, CC
  <2>4. CASE SetStat(w)
    <3>1. pc[w] = "s_stat" /\ pc'[w] = "s_dirty" /\ set_total' = set_total + 1
      BY <2>4, WorkerMoves
    <3>2. w \in S /\ SS = S \ {w} /\ CC = C
      BY <1>3, <1>5, <1>8, <3>1
    <3> HIDE DEF U, UU, S, SS, C, CC
    <3>3. IsFiniteSet(SS) /\ Cardinality(SS) = Cardinality(S) - 1 /\ Cardinality(SS) \in Nat
      BY <1>1, <3>2, Leaving
    <3>4. Cardinality(UU) >= set_total' + Cardinality(SS) + Cardinality(CC)
      BY <1>1, <1>2, <2>2, <3>1, <3>2, <3>3
    <3> QED
      BY <1>1, <2>2, <3>2, <3>3, <3>4 DEF U, UU, S, SS, C, CC
  <2>5. CASE ~SetRetry(w) /\ ~SetStat(w)
    <3>1. pc[w] \notin {"s_cas", "s_stat"} /\ pc'[w] \notin {"s_cas", "s_stat"}
            /\ set_total' = set_total
      BY <1>11, <2>5, WorkerMoves
    <3> QED
      BY <1>1, <1>7, <1>8, <2>2, <3>1
  <2> QED
    BY <2>3, <2>4, <2>5
<1> QED
  BY <1>9, <1>10, <1>11

\* A process that starts or ends has counted nothing.
LEMMA NothingCounted ==
  ASSUME \A k \in Bound' : heap'[root'[k]].reads = 0 /\ heap'[root'[k]].writes = 0,
         pc' = [w \in Worker |-> "idle"], get_total' = 0, set_total' = 0
  PROVE  Accounts'
<1>1. Units(Reads)' = {} /\ Units(Writes)' = {}
  BY DEF Units, Reads, Writes
<1>2. Recounting' = {} /\ InPc("g_stat")' = {} /\ InPc("s_stat")' = {}
  BY DEF Recounting, InPc
<1>3. \A w \in Worker : PrivateOK(w)'
  BY DEF PrivateOK, Private, Applying
<1>4. IsFiniteSet({}) /\ Cardinality({}) = 0
  BY FS_EmptySet
<1> QED
  BY <1>1, <1>2, <1>3, <1>4 DEF Accounts, Finite, ReadsAccounted

LEMMA InitAccounts == Init => Accounts
<1> SUFFICES ASSUME Init PROVE Accounts
  OBVIOUS
<1>1. Units(Reads) = {} /\ Units(Writes) = {}
  BY DEF Init, Units, Reads, Writes, Bound, NoMap
<1>2. Recounting = {} /\ InPc("g_stat") = {} /\ InPc("s_stat") = {}
  BY DEF Init, Recounting, InPc
<1>3. \A w \in Worker : PrivateOK(w)
  BY DEF Init, PrivateOK, Private, Applying
<1>4. IsFiniteSet({}) /\ Cardinality({}) = 0
  BY FS_EmptySet
<1>5. get_total = 0 /\ set_total = 0
  BY DEF Init
<1> QED
  BY <1>1, <1>2, <1>3, <1>4, <1>5 DEF Accounts, Finite, ReadsAccounted

LEMMA StepAccounts == Structure /\ Answers /\ Accounts /\ [Next]_vars => Accounts'
<1> SUFFICES ASSUME Structure, Answers, Accounts, [Next]_vars PROVE Accounts'
  OBVIOUS
<1> USE DEF Accounts
<1>1. TypeOK /\ Stopped
  BY DEF Structure
<1>2. ASSUME UNCHANGED <<up, root, heap, pc, loc, get_total, set_total>> PROVE Accounts'
  BY <1>2 DEF Finite, ReadsAccounted, Units, Reads, Writes, Bound, InPc, Recounting, PrivateOK,
              Private
<1>3. CASE UNCHANGED vars
  BY <1>2, <1>3 DEF vars, memVars, statVars, workVars, procVars
<1>4. CASE Start
  <2>1. ~up /\ pc' = pc /\ get_total' = get_total /\ set_total' = set_total
    BY <1>4 DEF Start, workVars, statVars
  <2>2. pc' = [w \in Worker |-> "idle"]
    BY <1>1, <2>1 DEF Stopped, TypeOK, WorkersOK
  <2>3. /\ \A e \in Entry : heap'[e].reads = 0 /\ heap'[e].writes = 0
        /\ root' \in [AllKey -> Entry \cup {Nil}]
    BY <1>4 DEF Start, NewEntry
  <2>4. \A k \in Bound' : heap'[root'[k]].reads = 0 /\ heap'[root'[k]].writes = 0
    BY <2>3 DEF Bound
  <2> QED
    BY <2>1, <2>2, <2>4, NothingCounted
<1>5. ASSUME NEW w \in Worker, WorkerStep(w) PROVE Accounts'
  <2>1. Holding(w)
    BY DEF Answers, Tracked
  <2>2. ASSUME NEW v \in Worker PROVE PrivateOK(v)'
    BY <1>5, <2>1, PrivateStays, PrivateOwn
  <2>3. /\ IsFiniteSet(Units(Reads')) /\ IsFiniteSet(InPc("g_stat")')
        /\ ReadsAccounted'
    BY <1>5, <2>1, ReadsStep
  <2>4. /\ IsFiniteSet(Units(Writes')) /\ IsFiniteSet(InPc("s_stat")')
        /\ IsFiniteSet(Recounting')
        /\ Cardinality(Units(Writes')) >=
             set_total' + Cardinality(InPc("s_stat")') + Cardinality(Recounting')
    BY <1>5, WritesStep
  <2>5. up' = TRUE
    BY <1>1, <1>5, WorkerFrame DEF procVars
  <2> QED
    BY <2>2, <2>3, <2>4, <2>5 DEF Finite
<1>6. CASE SaverRun
  BY <1>1, <1>2, <1>6, SaverFrame DEF saverFrame, memVars, workVars, procVars
<1>7. CASE End
  <2>1. PICK f : Die(f)
    <3>1. CASE Kill
      BY <3>1 DEF Kill
    <3>2. CASE SaveOpenFails \/ SaveWriteFails
      BY <3>2 DEF SaveOpenFails, SaveWriteFails
    <3> QED
      BY <1>7, <3>1, <3>2 DEF End
  <2>2. /\ root' = NoMap /\ pc' = [w \in Worker |-> "idle"] /\ get_total' = 0
        /\ set_total' = 0
    BY <2>1 DEF Die
  <2> QED
    BY <2>2, NothingCounted DEF Bound, NoMap
<1> QED
  BY <1>3, <1>4, <1>5, <1>6, <1>7 DEF Next, StartFails, SaveSkip, WorkerStep, End

LEMMA AccountsHold == Spec => [](Structure /\ Accounts)
<1>1. Init => Structure /\ Answers /\ Accounts
  BY InitStructure, InitAnswers, InitAccounts
<1>2. Structure /\ Answers /\ Accounts /\ [Next]_vars => (Structure /\ Answers /\ Accounts)'
  BY StepStructure, StepAnswers, StepAccounts
<1> QED
  BY <1>1, <1>2, PTL DEF Spec

\* The two halves of config_store::get's accounting agree at any instant: what the entries
\* of the map have counted is get_total_ and the gets that are between the two increments,
\* so no get is counted in an entry that the map loses, and none twice.
THEOREM GetsAccounted == Spec => []ReadsAccounted
<1>1. Accounts => ReadsAccounted
  BY DEF Accounts
<1> QED
  BY <1>1, AccountsHold, PTL

\* The writes of the entries in the map add up to the sets that have returned or are about
\* to count themselves in set_total, at least: what the retry loop of atom::update drops or
\* does again never makes the sum fall behind.
THEOREM SetsAccounted == Spec => []WritesAccounted
<1>1. Structure /\ Accounts => WritesAccounted
  <2> SUFFICES ASSUME Structure, Accounts PROVE WritesAccounted
    OBVIOUS
  <2>1. /\ Cardinality(Units(Writes)) \in Nat /\ Cardinality(InPc("s_stat")) \in Nat
        /\ Cardinality(Recounting) \in Nat /\ set_total \in Nat
    BY FS_CardinalityType DEF Accounts, Finite, Structure, TypeOK, CountsOK
  <2> QED
    BY <2>1 DEF Accounts, WritesAccounted
<1> QED
  BY <1>1, AccountsHold, PTL
=============================================================================
