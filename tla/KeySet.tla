--------------------------------- MODULE KeySet ---------------------------------
(***************************************************************************)
(* What the configuration store promises about the keys in it: each set    *)
(* adds its key in one instant between its call and its return, each get   *)
(* looks for its key in one instant between its call and its answer, and   *)
(* nothing else changes the keys while the process runs.                   *)
(***************************************************************************)
CONSTANTS
  Key, Worker,
  NoKey       \* in place of a key where there is none

VARIABLES
  up,         \* the process runs
  keys,       \* the keys in the store
  call,       \* of each connection: the operation, its key, and whether it took effect
  answer      \* of each connection: the key last asked for, and whether it was found

vars == <<up, keys, call, answer>>

Call(op, k, done) == [op |-> op, key |-> k, done |-> done]
Idle == Call("none", NoKey, FALSE)
Silent == [key |-> NoKey, found |-> FALSE]

Init ==
  /\ up = FALSE /\ keys = {}
  /\ call = [w \in Worker |-> Idle] /\ answer = [w \in Worker |-> Silent]

Boot == /\ ~up /\ up' = TRUE
        /\ keys' \in SUBSET Key
        /\ UNCHANGED <<call, answer>>

Die == /\ up' = FALSE /\ keys' = {}
       /\ call' = [w \in Worker |-> Idle] /\ answer' = [w \in Worker |-> Silent]

Begin(w) == /\ up /\ call[w] = Idle
            /\ \E op \in {"get", "set"}, k \in Key :
                 call' = [call EXCEPT ![w] = Call(op, k, FALSE)]
            /\ UNCHANGED <<up, keys, answer>>

Pending(w, op) == call[w].op = op /\ ~call[w].done

Add(w) == /\ Pending(w, "set")
          /\ keys' = keys \cup {call[w].key}
          /\ call' = [call EXCEPT ![w].done = TRUE]
          /\ UNCHANGED <<up, answer>>

Return(w) == /\ call[w].op = "set" /\ call[w].done
             /\ call' = [call EXCEPT ![w] = Idle]
             /\ UNCHANGED <<up, keys, answer>>

Look(w) == /\ Pending(w, "get") /\ call[w].key \in keys
           /\ call' = [call EXCEPT ![w].done = TRUE]
           /\ UNCHANGED <<up, keys, answer>>

Answer(w, found) == /\ call' = [call EXCEPT ![w] = Idle]
                    /\ answer' = [answer EXCEPT ![w] = [key |-> call[w].key, found |-> found]]
                    /\ UNCHANGED <<up, keys>>

Hit(w) == call[w].op = "get" /\ call[w].done /\ Answer(w, TRUE)

Miss(w) == Pending(w, "get") /\ call[w].key \notin keys /\ Answer(w, FALSE)

Next == \/ Boot \/ Die
        \/ \E w \in Worker : Begin(w) \/ Add(w) \/ Return(w) \/ Look(w) \/ Hit(w) \/ Miss(w)

Spec == Init /\ [][Next]_vars
=============================================================================
