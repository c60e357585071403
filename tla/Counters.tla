------------------------------- MODULE Counters -------------------------------
(***************************************************************************)
(* struct counters: request totals and the five-second windows.  Any       *)
(* number of pool threads run add_get and add_set while the handler of     *)
(* stat_timer_ runs dump_and_reset.  Every step is one atomic operation of *)
(* std::atomic<uint64_t>; threads are told apart only by being between the *)
(* two increments, so they are counted, not named.                         *)
(***************************************************************************)
EXTENDS Naturals

CONSTANTS
  Threads,    \* bound: threads inside add_get, and inside add_set, at once
  MaxAdds     \* bound: requests of each kind

ASSUME CountersAssumption == Threads \in Nat /\ MaxAdds \in Nat

Kind == {"get", "set"}

VARIABLES
  total, window,  \* get_total and set_total, get_window and set_window
  inflight,       \* threads between ++total and ++window
  dump,           \* where dump_and_reset is, "idle" when it does not run
  reported,       \* history: sum of all numbers printed for each window
  missed          \* history: requests counted in a window after it was printed and
                  \* before it was reset

vars == <<total, window, inflight, dump, reported, missed>>

Zero == [k \in Kind |-> 0]

Init ==
  /\ total = Zero /\ window = Zero /\ inflight = Zero
  /\ dump = "idle" /\ reported = Zero /\ missed = Zero

\* The window of k was printed by the running dump and is not yet reset.
Pending(k) ==
  dump \in IF k = "get" THEN {"set", "reset_set", "reset_get"} ELSE {"reset_set"}

\* add_get and add_set: ++total, then ++window.
AddTotal(k) ==
  /\ total[k] < MaxAdds /\ inflight[k] < Threads
  /\ total' = [total EXCEPT ![k] = @ + 1]
  /\ inflight' = [inflight EXCEPT ![k] = @ + 1]
  /\ UNCHANGED <<window, dump, reported, missed>>

AddWindow(k) ==
  /\ inflight[k] > 0
  /\ window' = [window EXCEPT ![k] = @ + 1]
  /\ inflight' = [inflight EXCEPT ![k] = @ - 1]
  /\ missed' = IF Pending(k) THEN [missed EXCEPT ![k] = @ + 1] ELSE missed
  /\ UNCHANGED <<total, dump, reported>>

\* dump_and_reset, called by the stat timer.  It first loads the totals, which
\* has no effect here, then prints the GET window and the SET window.
DumpStart ==
  /\ dump = "idle" /\ dump' = "get"
  /\ UNCHANGED <<total, window, inflight, reported, missed>>

DumpWindow(k, next) ==
  /\ dump = k /\ dump' = next
  /\ reported' = [reported EXCEPT ![k] = @ + window[k]]
  /\ UNCHANGED <<total, window, inflight, missed>>

\* Mutant: a window is not reset after it was printed.
ResetForgotten(k, l, next) ==
  /\ dump = l /\ dump' = next
  /\ UNCHANGED <<total, window, inflight, reported, missed>>

\* get_window = set_window = 0 assigns from the right.
ResetWindow(k, l, next) ==
  /\ dump = l /\ dump' = next
  /\ window' = [window EXCEPT ![k] = 0]
  /\ UNCHANGED <<total, inflight, reported, missed>>

Next ==
  \/ \E k \in Kind : AddTotal(k) \/ AddWindow(k)
  \/ DumpStart \/ DumpWindow("get", "set") \/ DumpWindow("set", "reset_set")
  \/ ResetWindow("set", "reset_set", "reset_get")
  \/ ResetWindow("get", "reset_get", "idle")

Spec == Init /\ [][Next]_vars
-----------------------------------------------------------------------------
TypeOK ==
  /\ total \in [Kind -> Nat] /\ window \in [Kind -> Nat]
  /\ inflight \in [Kind -> Nat]
  /\ dump \in {"idle", "get", "set", "reset_set", "reset_get"}
  /\ reported \in [Kind -> Nat] /\ missed \in [Kind -> Nat]

\* What the windows report in the end is the total, but for the requests that a dump
\* misses: each request counted is between its two increments, or in the window and
\* to be printed, or has been printed once, or was counted while the window had been
\* printed and was not yet reset.  None is reported twice, none is lost otherwise.
ReportedOrMissed ==
  \A k \in Kind :
    total[k] = reported[k] + missed[k] + inflight[k] + (IF Pending(k) THEN 0 ELSE window[k])
=============================================================================
