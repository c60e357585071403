------------------------------ MODULE KeySetProofs ------------------------------
(***************************************************************************)
(* The keys of the store are an atomic set: ConfigStore implements KeySet, *)
(* for any number of connections, keys, values, calls and process ends.    *)
(***************************************************************************)
EXTENDS ConfigStoreProofs

\* What CallOf says of a handler at p with the key k.
OpAt(p) == CASE p = "idle" -> "none" [] p \in Setting -> "set" [] OTHER -> "get"
DoneAt(p) == p \in {"s_stat", "s_dirty"} \cup (Getting \ {"g_load"})
At(p, k) == [op |-> OpAt(p), key |-> k, done |-> DoneAt(p)]

CallMap   == [w \in Worker |-> CallOf(w)]
AnswerMap == [w \in Worker |-> [key |-> resp[w].key, found |-> resp[w].value # Nil]]

\* A handler that waits for a call has no key, any other has the key of its call.
KeysHeld ==
  \A w \in Worker : IF pc[w] = "idle" THEN loc[w].key = Nil ELSE loc[w].key \in Key

-----------------------------------------------------------------------------
LEMMA HandlerKey ==
  ASSUME TypeOK, NEW w \in Worker, pc[w] # "idle"
  PROVE  loc[w].key \in Key
BY DEF TypeOK, WorkersOK, HandlerOK

LEMMA CallAt == ASSUME NEW w \in Worker PROVE CallMap[w] = At(pc[w], loc[w].key)
BY DEF CallMap, CallOf, At, OpAt, DoneAt

\* A step of one connection changes what is known of its call only.
LEMMA CallMoves ==
  ASSUME TypeOK, NEW w \in Worker, NEW p, NEW l,
         pc' = [pc EXCEPT ![w] = p], loc' = [loc EXCEPT ![w] = l]
  PROVE  CallMap' = [CallMap EXCEPT ![w] = At(p, l.key)]
<1>1. DOMAIN pc = Worker /\ DOMAIN loc = Worker
  BY DEF TypeOK, WorkersOK
<1>2. ASSUME NEW v \in Worker PROVE CallOf(v)' = IF v = w THEN At(p, l.key) ELSE CallOf(v)
  <2>1. CASE v = w
    BY <1>1, <2>1 DEF CallOf, At, OpAt, DoneAt
  <2>2. CASE v # w
    BY <1>1, <2>2 DEF CallOf
  <2> QED
    BY <2>1, <2>2
<1> QED
  BY <1>2 DEF CallMap

\* Where the handler of a call may be before, and after, it takes effect.
LEMMA Phases ==
  ASSUME NEW k
  PROVE  /\ At("idle", k) = [op |-> "none", key |-> k, done |-> FALSE]
         /\ \A p \in {"s_load", "s_apply", "s_move", "s_count", "s_cas"} :
              At(p, k) = [op |-> "set", key |-> k, done |-> FALSE]
         /\ \A p \in {"s_stat", "s_dirty"} :
              At(p, k) = [op |-> "set", key |-> k, done |-> TRUE]
         /\ At("g_load", k) = [op |-> "get", key |-> k, done |-> FALSE]
         /\ \A p \in {"g_count", "g_stat", "g_reads", "g_writes", "g_value"} :
              At(p, k) = [op |-> "get", key |-> k, done |-> TRUE]
<1>1. OpAt("idle") = "none" /\ OpAt("g_load") = "get"
  BY DEF OpAt, Setting, Applying
<1>2. \A p \in {"s_load", "s_apply", "s_move", "s_count", "s_cas", "s_stat", "s_dirty"} :
        OpAt(p) = "set"
  BY DEF OpAt, Setting, Applying
<1>3. \A p \in {"g_count", "g_stat", "g_reads", "g_writes", "g_value"} : OpAt(p) = "get"
  BY DEF OpAt, Setting, Applying
<1>4. \A p \in {"idle", "g_load", "s_load", "s_apply", "s_move", "s_count", "s_cas"} :
        DoneAt(p) = FALSE
  BY DEF DoneAt, Getting
<1>5. \A p \in {"s_stat", "s_dirty", "g_count", "g_stat", "g_reads", "g_writes", "g_value"} :
        DoneAt(p) = TRUE
  BY DEF DoneAt, Getting
<1> QED
  BY <1>1, <1>2, <1>3, <1>4, <1>5, Zenon DEF At

\* A step of a handler within one phase of its call is none of the key set.
LEMMA SamePhase ==
  ASSUME TypeOK, NEW w \in Worker, NEW p, NEW l,
         pc' = [pc EXCEPT ![w] = p], loc' = [loc EXCEPT ![w] = l],
         At(p, l.key) = At(pc[w], loc[w].key)
  PROVE  CallMap' = CallMap
<1>1. CallMap' = [CallMap EXCEPT ![w] = At(p, l.key)]
  BY CallMoves
<1> QED
  BY <1>1, CallAt DEF CallMap

\* Steps that change neither the process, the map nor the answers.
Aside == up' = up /\ root' = root /\ resp' = resp

LEMMA AsideSame == ASSUME Aside PROVE Bound' = Bound /\ AnswerMap' = AnswerMap /\ up' = up
BY DEF Aside, Bound, AnswerMap

-----------------------------------------------------------------------------
(* The steps that are steps of the key set.                                *)

LEMMA TakesEffect ==
  ASSUME NEW w \in Worker, NEW op, NEW k,
         CallMap[w] = [op |-> op, key |-> k, done |-> FALSE],
         CallMap' = [CallMap EXCEPT ![w] = [op |-> op, key |-> k, done |-> TRUE]]
  PROVE  CallMap' = [CallMap EXCEPT ![w].done = TRUE]
<1>1. ASSUME NEW d, NEW e
      PROVE  [[op |-> op, key |-> k, done |-> d] EXCEPT !.done = e] =
               [op |-> op, key |-> k, done |-> e]
  OBVIOUS
<1>2. [CallMap[w] EXCEPT !.done = TRUE] = [op |-> op, key |-> k, done |-> TRUE]
  BY <1>1, Zenon
<1> QED
  BY <1>2, Zenon

LEMMA Answers ==
  ASSUME NEW w \in Worker, NEW op, NEW k, NEW found, NEW done,
         CallMap[w] = [op |-> op, key |-> k, done |-> done],
         CallMap' = [CallMap EXCEPT ![w] = [op |-> "none", key |-> Nil, done |-> FALSE]],
         AnswerMap' = [AnswerMap EXCEPT ![w] = [key |-> k, found |-> found]],
         up' = up, Bound' = Bound
  PROVE  Keys!Answer(w, found)
<1>1. CallMap[w].key = k
  OBVIOUS
<1>2. AnswerMap' = [AnswerMap EXCEPT ![w] = [key |-> CallMap[w].key, found |-> found]]
  BY <1>1
<1> QED
  BY <1>2, Zenon DEF Keys!Answer, Keys!Idle, Keys!Call, CallMap, AnswerMap

LEMMA CallBegins ==
  ASSUME TypeOK, KeysHeld, NEW w \in Worker, SetCall(w) \/ GetCall(w)
  PROVE  Keys!Begin(w)
<1>1. PICK p \in {"s_load", "g_load"}, k \in Key, v \in Value \cup {Nil} : Call(w, p, k, v)
  BY DEF SetCall, GetCall
<1>2. /\ up /\ pc[w] = "idle" /\ Aside
      /\ pc' = [pc EXCEPT ![w] = p]
      /\ loc' = [loc EXCEPT ![w] = [NoLocal EXCEPT !.key = k, !.arg = v]]
  BY <1>1 DEF Call, Goto, Aside, memVars, procVars
<1>3. [NoLocal EXCEPT !.key = k, !.arg = v].key = k
  BY DEF NoLocal
<1>4. CallMap' = [CallMap EXCEPT ![w] = At(p, k)]
  <2> DEFINE l == [NoLocal EXCEPT !.key = k, !.arg = v]
  <2>1. loc' = [loc EXCEPT ![w] = l] /\ l.key = k
    BY <1>2, <1>3
  <2> HIDE DEF l
  <2>2. CallMap' = [CallMap EXCEPT ![w] = At(p, l.key)]
    BY <1>2, <2>1, CallMoves
  <2> QED
    BY <2>1, <2>2
<1>5. PICK op \in {"get", "set"} : At(p, k) = [op |-> op, key |-> k, done |-> FALSE]
  BY Phases
<1>6. CallMap[w] = [op |-> "none", key |-> Nil, done |-> FALSE]
  BY <1>2, CallAt, Phases DEF KeysHeld
<1>7. k \in AllKey
  BY NilApart
<1> QED
  <2>1. CallMap' = [CallMap EXCEPT ![w] = [op |-> op, key |-> k, done |-> FALSE]]
    BY <1>4, <1>5
  <2>2. up' = up /\ Bound' = Bound /\ AnswerMap' = AnswerMap
    BY <1>2, AsideSame
  <2> QED
    BY <1>2, <1>6, <1>7, <2>1, <2>2, Zenon
    DEF Keys!Begin, Keys!Idle, Keys!Call, CallMap, AnswerMap

LEMMA CommitIsAdd ==
  ASSUME Structure, NEW w \in Worker, SetCommit(w) PROVE Keys!Add(w)
<1>1. /\ loc[w].key \in Key /\ loc[w].ent \in Entry
      /\ root' = [root EXCEPT ![loc[w].key] = loc[w].ent]
  BY CommitAdds DEF Structure
<1>2. /\ pc[w] = "s_cas" /\ pc' = [pc EXCEPT ![w] = "s_stat"] /\ loc' = loc
      /\ resp' = resp /\ up' = up
  BY DEF SetCommit, Install, Goto, procVars
<1>3. Bound' = Bound \cup {loc[w].key}
  BY <1>1, NilApart DEF Bound, Structure, TypeOK, MemoryOK, MapType
<1>4. loc' = [loc EXCEPT ![w] = loc[w]]
  BY <1>2 DEF Structure, TypeOK, WorkersOK
<1>5. CallMap' = [CallMap EXCEPT ![w] = At("s_stat", loc[w].key)]
  BY <1>2, <1>4, CallMoves DEF Structure
<1>6. CallMap[w] = [op |-> "set", key |-> loc[w].key, done |-> FALSE]
  BY <1>2, CallAt, Phases
<1>7. At("s_stat", loc[w].key) = [op |-> "set", key |-> loc[w].key, done |-> TRUE]
  BY Phases
<1>8. CallMap' = [CallMap EXCEPT ![w].done = TRUE]
  BY <1>5, <1>6, <1>7, TakesEffect
<1>9. AnswerMap' = AnswerMap
  BY <1>2 DEF AnswerMap
<1> QED
  BY <1>2, <1>3, <1>6, <1>8, <1>9 DEF Keys!Add, Keys!Pending, CallMap, AnswerMap

LEMMA ReturnIdles ==
  ASSUME TypeOK, NEW w \in Worker, Return(w) PROVE CallMap' = [CallMap EXCEPT ![w] = At("idle", Nil)]
BY CallMoves DEF Return, Goto, NoLocal

LEMMA DirtyIsReturn ==
  ASSUME TypeOK, NEW w \in Worker, SetDirty(w) PROVE Keys!Return(w)
<1>1. pc[w] = "s_dirty" /\ Return(w) /\ Aside
  BY DEF SetDirty, Aside, memVars, procVars
<1>2. CallMap[w] = [op |-> "set", key |-> loc[w].key, done |-> TRUE]
  BY <1>1, CallAt, Phases
<1>3. CallMap' = [CallMap EXCEPT ![w] = [op |-> "none", key |-> Nil, done |-> FALSE]]
  BY <1>1, ReturnIdles, Phases
<1> QED
  BY <1>1, <1>2, <1>3, AsideSame DEF Keys!Return, Keys!Idle, Keys!Call, CallMap, AnswerMap

LEMMA HitIsLook ==
  ASSUME TypeOK, NEW w \in Worker, GetHit(w) PROVE Keys!Look(w)
<1>1. /\ pc[w] = "g_load" /\ root[loc[w].key] # Nil /\ Aside
      /\ pc' = [pc EXCEPT ![w] = "g_count"]
      /\ loc' = [loc EXCEPT ![w].ent = root[loc[w].key]]
  BY DEF GetHit, Find, Goto, Aside, memVars, procVars
<1>2. loc[w] \in LocalType /\ DOMAIN loc = Worker
  BY DEF TypeOK, WorkersOK
<1>3. loc' = [loc EXCEPT ![w] = [loc[w] EXCEPT !.ent = root[loc[w].key]]]
  BY <1>1, <1>2
<1>4. [loc[w] EXCEPT !.ent = root[loc[w].key]].key = loc[w].key
  BY <1>2 DEF LocalType
<1>5. CallMap' = [CallMap EXCEPT ![w] = At("g_count", loc[w].key)]
  <2> DEFINE l == [loc[w] EXCEPT !.ent = root[loc[w].key]]
  <2>1. loc' = [loc EXCEPT ![w] = l] /\ l.key = loc[w].key
    BY <1>3, <1>4
  <2> HIDE DEF l
  <2>2. CallMap' = [CallMap EXCEPT ![w] = At("g_count", l.key)]
    BY <1>1, <2>1, CallMoves
  <2> QED
    BY <2>1, <2>2
<1>6. CallMap[w] = [op |-> "get", key |-> loc[w].key, done |-> FALSE]
  BY <1>1, CallAt, Phases
<1>7. At("g_count", loc[w].key) = [op |-> "get", key |-> loc[w].key, done |-> TRUE]
  BY Phases
<1>8. CallMap' = [CallMap EXCEPT ![w].done = TRUE]
  BY <1>5, <1>6, <1>7, TakesEffect
<1>9. loc[w].key \in Bound
  BY <1>1, HandlerKey, NilApart DEF Bound, AllKey
<1> QED
  BY <1>1, <1>6, <1>8, <1>9, AsideSame DEF Keys!Look, Keys!Pending, CallMap, AnswerMap

\* A response is an answer.
LEMMA RespAnswers ==
  ASSUME TypeOK, NEW w \in Worker, NEW r, resp' = [resp EXCEPT ![w] = r]
  PROVE  AnswerMap' = [AnswerMap EXCEPT ![w] = [key |-> r.key, found |-> r.value # Nil]]
<1>1. DOMAIN resp = Worker
  BY DEF TypeOK, ResponsesOK
<1>2. ASSUME NEW v \in Worker
      PROVE [key |-> resp'[v].key, found |-> resp'[v].value # Nil] =
              IF v = w THEN [key |-> r.key, found |-> r.value # Nil]
                       ELSE [key |-> resp[v].key, found |-> resp[v].value # Nil]
  <2>1. resp'[v] = IF v = w THEN r ELSE resp[v]
    BY <1>1
  <2> QED
    BY <2>1, Zenon
<1> QED
  BY <1>2 DEF AnswerMap

LEMMA MissIsMiss ==
  ASSUME TypeOK, NEW w \in Worker, GetMiss(w) PROVE Keys!Miss(w)
<1>1. /\ pc[w] = "g_load" /\ root[loc[w].key] = Nil /\ Return(w)
      /\ resp' = [resp EXCEPT ![w] = [NoResp EXCEPT !.key = loc[w].key]]
      /\ up' = up /\ root' = root
  BY DEF GetMiss, memVars, procVars
<1>2. [NoResp EXCEPT !.key = loc[w].key].key = loc[w].key
        /\ [NoResp EXCEPT !.key = loc[w].key].value = Nil
  BY DEF NoResp
<1>3. AnswerMap' = [AnswerMap EXCEPT ![w] = [key |-> loc[w].key, found |-> FALSE]]
  <2>1. AnswerMap' = [AnswerMap EXCEPT ![w] = [key |-> loc[w].key, found |-> Nil # Nil]]
    BY <1>1, <1>2, RespAnswers
  <2>2. (Nil # Nil) = FALSE
    OBVIOUS
  <2> QED
    BY <2>1, <2>2
<1>4. CallMap[w] = [op |-> "get", key |-> loc[w].key, done |-> FALSE]
  BY <1>1, CallAt, Phases
<1>5. CallMap' = [CallMap EXCEPT ![w] = [op |-> "none", key |-> Nil, done |-> FALSE]]
  BY <1>1, ReturnIdles, Phases
<1>6. loc[w].key \notin Bound /\ Bound' = Bound
  BY <1>1 DEF Bound
<1> QED
  <2>1. Keys!Answer(w, FALSE)
    BY <1>1, <1>3, <1>4, <1>5, <1>6, Answers
  <2>2. CallMap[w].op = "get" /\ ~CallMap[w].done /\ CallMap[w].key \notin Bound
    BY <1>4, <1>6
  <2> QED
    BY <2>1, <2>2, Zenon DEF Keys!Miss, Keys!Pending, CallMap

LEMMA ValueIsHit ==
  ASSUME TypeOK, NEW w \in Worker, GetValue(w) PROVE Keys!Hit(w)
<1>1. pc[w] = "g_value" /\ Return(w) /\ up' = up /\ root' = root
  BY DEF GetValue, memVars, procVars
<1> DEFINE r == [key |-> loc[w].key, value |-> Visible(loc[w].ent),
                 reads |-> loc[w].reads, writes |-> loc[w].writes]
<1>2. resp' = [resp EXCEPT ![w] = r] /\ r.key = loc[w].key /\ r.value = Visible(loc[w].ent)
  BY DEF GetValue
<1> HIDE DEF r
<1>3. r.value # Nil
  <2>1. loc[w].ent \in Entry
    BY <1>1 DEF TypeOK, WorkersOK, HandlerOK, Getting
  <2>2. Visible(loc[w].ent) \in Content
    BY <2>1 DEF Visible, TypeOK, MemoryOK, Content
  <2> QED
    BY <1>2, <2>2, NilApart
<1>4. AnswerMap' = [AnswerMap EXCEPT ![w] = [key |-> loc[w].key, found |-> TRUE]]
  <2>1. AnswerMap' = [AnswerMap EXCEPT ![w] = [key |-> r.key, found |-> r.value # Nil]]
    BY <1>2, RespAnswers
  <2>2. (r.value # Nil) = TRUE
    BY <1>3
  <2> QED
    BY <1>2, <2>1, <2>2
<1>5. CallMap[w] = [op |-> "get", key |-> loc[w].key, done |-> TRUE]
  BY <1>1, CallAt, Phases
<1>6. CallMap' = [CallMap EXCEPT ![w] = [op |-> "none", key |-> Nil, done |-> FALSE]]
  BY <1>1, ReturnIdles, Phases
<1>7. Bound' = Bound
  BY <1>1 DEF Bound
<1> QED
  <2>1. Keys!Answer(w, TRUE)
    BY <1>1, <1>4, <1>5, <1>6, <1>7, Answers
  <2>2. CallMap[w].op = "get" /\ CallMap[w].done
    BY <1>5
  <2> QED
    BY <2>1, <2>2, Zenon DEF Keys!Hit, CallMap

-----------------------------------------------------------------------------
(* The other steps of a handler change nothing there.                      *)

Same == UNCHANGED <<up, Bound, CallMap, AnswerMap>>

LEMMA SameStutters == ASSUME Same PROVE UNCHANGED Keys!vars
BY DEF Same, Keys!vars, CallMap, AnswerMap

\* Where a handler may go by itself without a step of the key set.
SameSet == {"s_load", "s_apply", "s_move", "s_count", "s_cas"}
SameGet == {"g_count", "g_stat", "g_reads", "g_writes", "g_value"}

LEMMA MovesSame ==
  ASSUME TypeOK, NEW w \in Worker, NEW p, NEW l, Aside,
         pc' = [pc EXCEPT ![w] = p], loc' = [loc EXCEPT ![w] = l], l.key = loc[w].key,
         \/ pc[w] \in SameSet /\ p \in SameSet
         \/ pc[w] \in {"s_stat", "s_dirty"} /\ p \in {"s_stat", "s_dirty"}
         \/ pc[w] \in SameGet /\ p \in SameGet
  PROVE  Same
<1>1. At(p, loc[w].key) = At(pc[w], loc[w].key)
  BY Phases DEF SameSet, SameGet
<1>2. CallMap' = CallMap
  BY <1>1, SamePhase
<1> QED
  BY <1>2, AsideSame DEF Same

LEMMA WorkerStutters ==
  ASSUME TypeOK, NEW w \in Worker,
         \/ SetLoad(w) \/ SetApply(w) \/ SetMove(w) \/ SetCount(w) \/ SetRetry(w)
         \/ SetStat(w) \/ GetCount(w) \/ GetStat(w) \/ GetReads(w) \/ GetWrites(w)
  PROVE  Same
<1>1. loc[w] \in LocalType /\ loc \in [Worker -> LocalType]
  BY DEF TypeOK, WorkersOK
<1>2. ASSUME loc' = loc PROVE loc' = [loc EXCEPT ![w] = loc[w]]
  BY <1>1, <1>2
<1>3. CASE SetLoad(w)
  <2>1. pc[w] = "s_load" /\ pc' = [pc EXCEPT ![w] = "s_apply"] /\ Aside
    BY <1>3 DEF SetLoad, Goto, Aside, memVars, procVars
  <2> DEFINE l == [loc[w] EXCEPT !.oldv = ver, !.snap = root]
  <2>2. loc' = [loc EXCEPT ![w] = l] /\ l.key = loc[w].key
    BY <1>1, <1>3 DEF SetLoad, LocalType
  <2> HIDE DEF l
  <2> QED
    BY <2>1, <2>2, MovesSame DEF SameSet
<1>4. CASE SetApply(w)
  <2>1. pc[w] = "s_apply" /\ pc' = [pc EXCEPT ![w] = "s_move"] /\ Aside
    BY <1>4 DEF SetApply, Goto, Aside, procVars
  <2>2. PICK e : loc' = [loc EXCEPT ![w].ent = e]
    BY <1>4 DEF SetApply
  <2> DEFINE l == [loc[w] EXCEPT !.ent = e]
  <2>3. loc' = [loc EXCEPT ![w] = l] /\ l.key = loc[w].key
    BY <1>1, <2>2 DEF LocalType
  <2> HIDE DEF l
  <2> QED
    BY <2>1, <2>3, MovesSame DEF SameSet
<1>5. CASE SetMove(w)
  <2>1. pc[w] = "s_move" /\ pc' = [pc EXCEPT ![w] = "s_count"] /\ Aside
    BY <1>5 DEF SetMove, Goto, Aside, procVars
  <2> DEFINE l == [loc[w] EXCEPT !.arg = Empty]
  <2>2. loc' = [loc EXCEPT ![w] = l] /\ l.key = loc[w].key
    BY <1>1, <1>5 DEF SetMove, LocalType
  <2> HIDE DEF l
  <2> QED
    BY <2>1, <2>2, MovesSame DEF SameSet
<1>6. CASE SetCount(w)
  <2>1. /\ pc[w] = "s_count" /\ pc' = [pc EXCEPT ![w] = "s_cas"] /\ Aside
        /\ loc' = [loc EXCEPT ![w] = loc[w]]
    BY <1>2, <1>6 DEF SetCount, Goto, Aside, procVars
  <2> QED
    BY <2>1, MovesSame DEF SameSet
<1>7. CASE SetRetry(w)
  <2>1. pc[w] = "s_cas" /\ pc' = [pc EXCEPT ![w] = "s_load"] /\ Aside
    BY <1>7 DEF SetRetry, Goto, Aside, memVars, procVars
  <2> DEFINE l == [loc[w] EXCEPT !.oldv = 0, !.snap = NoMap, !.ent = Nil]
  <2>2. loc' = [loc EXCEPT ![w] = l] /\ l.key = loc[w].key
    BY <1>1, <1>7 DEF SetRetry, LocalType
  <2> HIDE DEF l
  <2> QED
    BY <2>1, <2>2, MovesSame DEF SameSet
<1>8. CASE SetStat(w)
  <2>1. /\ pc[w] = "s_stat" /\ pc' = [pc EXCEPT ![w] = "s_dirty"] /\ Aside
        /\ loc' = [loc EXCEPT ![w] = loc[w]]
    BY <1>2, <1>8 DEF SetStat, Goto, Aside, memVars, procVars
  <2> QED
    BY <2>1, MovesSame
<1>9. CASE GetCount(w)
  <2>1. /\ pc[w] = "g_count" /\ pc' = [pc EXCEPT ![w] = "g_stat"] /\ Aside
        /\ loc' = [loc EXCEPT ![w] = loc[w]]
    BY <1>2, <1>9 DEF GetCount, CountRead, Goto, Aside, procVars
  <2> QED
    BY <2>1, MovesSame DEF SameGet
<1>10. CASE GetStat(w)
  <2>1. /\ pc[w] = "g_stat" /\ pc' = [pc EXCEPT ![w] = "g_reads"] /\ Aside
        /\ loc' = [loc EXCEPT ![w] = loc[w]]
    BY <1>2, <1>10 DEF GetStat, Goto, Aside, memVars, procVars
  <2> QED
    BY <2>1, MovesSame DEF SameGet
<1>11. CASE GetReads(w)
  <2>1. pc[w] = "g_reads" /\ pc' = [pc EXCEPT ![w] = "g_writes"] /\ Aside
    BY <1>11 DEF GetReads, Goto, Aside, memVars, procVars
  <2> DEFINE l == [loc[w] EXCEPT !.reads = heap[loc[w].ent].reads]
  <2>2. loc' = [loc EXCEPT ![w] = l] /\ l.key = loc[w].key
    BY <1>1, <1>11 DEF GetReads, LocalType
  <2> HIDE DEF l
  <2> QED
    BY <2>1, <2>2, MovesSame DEF SameGet
<1>12. CASE GetWrites(w)
  <2>1. pc[w] = "g_writes" /\ pc' = [pc EXCEPT ![w] = "g_value"] /\ Aside
    BY <1>12 DEF GetWrites, Goto, Aside, memVars, procVars
  <2> DEFINE l == [loc[w] EXCEPT !.writes = heap[loc[w].ent].writes]
  <2>2. loc' = [loc EXCEPT ![w] = l] /\ l.key = loc[w].key
    BY <1>1, <1>12 DEF GetWrites, LocalType
  <2> HIDE DEF l
  <2> QED
    BY <2>1, <2>2, MovesSame DEF SameGet
<1> QED
  BY <1>3, <1>4, <1>5, <1>6, <1>7, <1>8, <1>9, <1>10, <1>11, <1>12

LEMMA WorkerImplements ==
  ASSUME Structure, KeysHeld, NEW w \in Worker, WorkerStep(w)
  PROVE  Keys!Next \/ Same
<1> USE DEF Structure
<1>1. CASE SetCall(w) \/ GetCall(w)
  BY <1>1, CallBegins DEF Keys!Next
<1>2. CASE SetCommit(w)
  BY <1>2, CommitIsAdd DEF Keys!Next
<1>3. CASE SetDirty(w)
  BY <1>3, DirtyIsReturn DEF Keys!Next
<1>4. CASE GetHit(w)
  BY <1>4, HitIsLook DEF Keys!Next
<1>5. CASE GetMiss(w)
  BY <1>5, MissIsMiss DEF Keys!Next
<1>6. CASE GetValue(w)
  BY <1>6, ValueIsHit DEF Keys!Next
<1> QED
  BY <1>1, <1>2, <1>3, <1>4, <1>5, <1>6, WorkerStutters DEF WorkerStep, WorkerRun

-----------------------------------------------------------------------------
(* Start and end of the process.                                           *)

LEMMA StartBoots == ASSUME Start PROVE Keys!Boot
<1>1. ~up /\ up' = TRUE /\ pc' = pc /\ loc' = loc /\ resp' = resp
  BY DEF Start, workVars
<1>2. Bound' \in SUBSET AllKey
  BY DEF Bound
<1>3. CallMap' = CallMap /\ AnswerMap' = AnswerMap
  BY <1>1 DEF CallMap, CallOf, AnswerMap
<1> QED
  BY <1>1, <1>2, <1>3, Zenon DEF Keys!Boot, CallMap, AnswerMap

LEMMA FreshCalls ==
  ASSUME pc = [w \in Worker |-> "idle"], loc = [w \in Worker |-> NoLocal],
         resp = [w \in Worker |-> NoResp], root = NoMap
  PROVE  /\ CallMap = [w \in Worker |-> Keys!Idle] /\ Bound = {}
         /\ AnswerMap = [w \in Worker |-> Keys!Silent]
<1>1. ASSUME NEW w \in Worker PROVE CallOf(w) = Keys!Idle
  <2>1. pc[w] = "idle" /\ loc[w].key = Nil
    BY DEF NoLocal
  <2>2. CallMap[w] = At("idle", Nil) /\ CallMap[w] = CallOf(w)
    BY <2>1, CallAt DEF CallMap
  <2> QED
    BY <2>2, Phases DEF Keys!Idle, Keys!Call
<1>2. Bound = {}
  BY DEF Bound, NoMap
<1>3. ASSUME NEW w \in Worker
      PROVE [key |-> resp[w].key, found |-> resp[w].value # Nil] = Keys!Silent
  <2>1. resp[w].key = Nil /\ (resp[w].value # Nil) = FALSE
    BY DEF NoResp
  <2> QED
    BY <2>1, Zenon DEF Keys!Silent
<1> QED
  BY <1>1, <1>2, <1>3, Zenon DEF CallMap, AnswerMap

LEMMA EndDies == ASSUME End PROVE Keys!Die
<1>1. /\ up' = FALSE /\ root' = NoMap
      /\ pc' = [w \in Worker |-> "idle"] /\ loc' = [w \in Worker |-> NoLocal]
  BY EndFrame
<1>2. resp' = [w \in Worker |-> NoResp]
  <2>1. PICK f : Die(f)
    BY DEF End, Kill, SaveOpenFails, SaveWriteFails
  <2> QED
    BY <2>1 DEF Die
<1>3. /\ CallMap' = [w \in Worker |-> Keys!Idle] /\ Bound' = {}
      /\ AnswerMap' = [w \in Worker |-> Keys!Silent]
  <2>1. ASSUME NEW w \in Worker PROVE CallOf(w)' = Keys!Idle
    <3>1. pc'[w] = "idle" /\ loc'[w].key = Nil
      BY <1>1 DEF NoLocal
    <3>2. CallOf(w)' = At("idle", Nil)
      BY <3>1 DEF CallOf, At, OpAt, DoneAt
    <3> QED
      BY <3>2, Phases DEF Keys!Idle, Keys!Call
  <2>2. Bound' = {}
    BY <1>1 DEF Bound, NoMap
  <2>3. ASSUME NEW w \in Worker
        PROVE [key |-> resp'[w].key, found |-> resp'[w].value # Nil] = Keys!Silent
    <3>1. resp'[w].key = Nil /\ (resp'[w].value # Nil) = FALSE
      BY <1>2 DEF NoResp
    <3> QED
      BY <3>1, Zenon DEF Keys!Silent
  <2> QED
    BY <2>1, <2>2, <2>3, Zenon DEF CallMap, AnswerMap
<1> QED
  BY <1>1, <1>3, Zenon DEF Keys!Die, CallMap, AnswerMap

LEMMA InitKeys == Init => Keys!Init
<1> SUFFICES ASSUME Init PROVE Keys!Init
  OBVIOUS
<1>1. /\ pc = [w \in Worker |-> "idle"] /\ loc = [w \in Worker |-> NoLocal]
      /\ resp = [w \in Worker |-> NoResp] /\ root = NoMap /\ up = FALSE
  BY DEF Init
<1> QED
  BY <1>1, FreshCalls, Zenon DEF Keys!Init, CallMap, AnswerMap

LEMMA StepKeys ==
  ASSUME Structure, KeysHeld, [Next]_vars PROVE Keys!Next \/ UNCHANGED Keys!vars
<1>1. ASSUME UNCHANGED <<up, root, pc, loc, resp>> PROVE Same
  BY <1>1 DEF Same, Bound, CallMap, CallOf, AnswerMap
<1>2. CASE UNCHANGED vars
  BY <1>1, <1>2, SameStutters DEF vars, memVars, workVars, procVars
<1>3. CASE Start
  BY <1>3, StartBoots DEF Keys!Next
<1>4. ASSUME NEW w \in Worker, WorkerStep(w) PROVE Keys!Next \/ UNCHANGED Keys!vars
  BY <1>4, WorkerImplements, SameStutters
<1>5. CASE SaverRun
  BY <1>1, <1>5, SaverFrame, SameStutters DEF saverFrame, memVars, workVars, procVars, Structure
<1>6. CASE End
  BY <1>6, EndDies DEF Keys!Next
<1> QED
  BY <1>2, <1>3, <1>4, <1>5, <1>6 DEF Next, StartFails, SaveSkip, WorkerStep, End

-----------------------------------------------------------------------------
LEMMA StepHeld == ASSUME Structure, KeysHeld, [Next]_vars, Structure' PROVE KeysHeld'
<1>0. pc \in [Worker -> {"idle"} \cup Setting \cup Getting] /\ loc \in [Worker -> LocalType]
  BY DEF Structure, TypeOK, WorkersOK
<1>1. ASSUME NEW w \in Worker, pc'[w] # "idle" PROVE loc'[w].key \in Key
  BY <1>1, HandlerKey DEF Structure, TypeOK, WorkersOK, HandlerOK
<1>2. ASSUME UNCHANGED <<pc, loc>> PROVE KeysHeld'
  BY <1>2 DEF KeysHeld
<1>3. CASE UNCHANGED vars \/ Start
  BY <1>2, <1>3 DEF vars, workVars, Start
<1>4. ASSUME NEW w \in Worker, WorkerStep(w) PROVE KeysHeld'
  <2>1. ASSUME NEW v \in Worker, pc'[v] = "idle" PROVE loc'[v].key = Nil
    <3>1. CASE SetDirty(w) \/ GetMiss(w) \/ GetValue(w)
      <4>1. loc' = [loc EXCEPT ![w] = NoLocal] /\ pc' = [pc EXCEPT ![w] = "idle"]
        BY <3>1 DEF SetDirty, GetMiss, GetValue, Return, Goto
      <4> QED
        BY <1>0, <2>1, <4>1 DEF KeysHeld, NoLocal
    <3>2. CASE ~(SetDirty(w) \/ GetMiss(w) \/ GetValue(w))
      <4>1. PICK p, l : pc' = [pc EXCEPT ![w] = p] /\ p # "idle"
                        /\ loc' = [loc EXCEPT ![w] = l]
        <5>1. ASSUME loc' = loc PROVE loc' = [loc EXCEPT ![w] = loc[w]]
          BY <1>0, <5>1
        <5>2. CASE SetCall(w) \/ GetCall(w)
          BY <5>2 DEF SetCall, GetCall, Call, Goto
        <5>3. CASE SetLoad(w)
          BY <1>0, <5>3 DEF SetLoad, Goto
        <5>4. CASE SetApply(w)
          BY <1>0, <5>4 DEF SetApply, Goto
        <5>5. CASE SetMove(w)
          BY <1>0, <5>5 DEF SetMove, Goto
        <5>6. CASE SetCount(w) \/ SetCommit(w) \/ SetStat(w) \/ GetCount(w) \/ GetStat(w)
          BY <5>1, <5>6 DEF SetCount, SetCommit, Install, SetStat, GetCount, CountRead, GetStat, Goto
        <5>7. CASE SetRetry(w)
          BY <1>0, <5>7 DEF SetRetry, Goto
        <5>8. CASE GetHit(w) \/ GetReads(w) \/ GetWrites(w)
          BY <1>0, <5>8 DEF GetHit, Find, GetReads, GetWrites, Goto
        <5> QED
          BY <1>4, <3>2, <5>2, <5>3, <5>4, <5>5, <5>6, <5>7, <5>8 DEF WorkerStep, WorkerRun
      <4> QED
        BY <1>0, <2>1, <4>1 DEF KeysHeld
    <3> QED
      BY <3>1, <3>2
  <2> QED
    BY <1>1, <2>1 DEF KeysHeld
<1>5. CASE SaverRun
  BY <1>2, <1>5, SaverFrame DEF saverFrame, workVars, Structure
<1>6. CASE End
  BY <1>6, EndFrame DEF KeysHeld, NoLocal
<1> QED
  BY <1>3, <1>4, <1>5, <1>6 DEF Next, StartFails, SaveSkip, WorkerStep, End

\* The store implements the atomic set of keys: each set takes effect in the one
\* instant of its commit, each get in the instant in which it reads the root,
\* whatever retries, flushes, ends and restarts there are.
THEOREM Linearization == Spec => Linearizable
<1>1. Init => KeysHeld
  BY DEF Init, KeysHeld, NoLocal
<1>2. Structure /\ Structure' /\ KeysHeld /\ [Next]_vars => KeysHeld'
  BY StepHeld
<1>3. Structure /\ KeysHeld /\ [Next]_vars => [Keys!Next]_(Keys!vars)
  BY StepKeys
<1> QED
  BY <1>1, <1>2, <1>3, InitKeys, StructureInvariant, PTL DEF Spec, Linearizable, Keys!Spec
=============================================================================
