---------------------------- MODULE CountersProofs ----------------------------
(***************************************************************************)
(* Proof that dump_and_reset accounts for the requests as Counters says,   *)
(* for any number of threads and of requests.                              *)
(***************************************************************************)
EXTENDS Counters, TLAPS

Accounted(k) ==
  total[k] = reported[k] + missed[k] + inflight[k] + (IF Pending(k) THEN 0 ELSE window[k])

IInv == TypeOK /\ \A k \in Kind : Accounted(k)

-----------------------------------------------------------------------------
LEMMA InitIInv == Init => IInv
BY DEF Init, IInv, TypeOK, Accounted, Pending, Zero, Kind

LEMMA StepType == TypeOK /\ [Next]_vars => TypeOK'
<1> SUFFICES ASSUME TypeOK, [Next]_vars PROVE TypeOK'
  OBVIOUS
<1> USE DEF TypeOK
<1>1. ASSUME NEW k \in Kind, AddTotal(k) PROVE TypeOK'
  BY <1>1 DEF AddTotal
<1>2. ASSUME NEW k \in Kind, AddWindow(k) PROVE TypeOK'
  BY <1>2 DEF AddWindow
<1>3. CASE DumpStart
  BY <1>3 DEF DumpStart
<1>4. CASE DumpWindow("get", "set")
  BY <1>4 DEF DumpWindow, Kind
<1>5. CASE DumpWindow("set", "reset_set")
  BY <1>5 DEF DumpWindow, Kind
<1>6. CASE ResetWindow("set", "reset_set", "reset_get")
  BY <1>6 DEF ResetWindow, Kind
<1>7. CASE ResetWindow("get", "reset_get", "idle")
  BY <1>7 DEF ResetWindow, Kind
<1>8. CASE UNCHANGED vars
  BY <1>8 DEF vars
<1> QED
  BY <1>1, <1>2, <1>3, <1>4, <1>5, <1>6, <1>7, <1>8 DEF Next

LEMMA StepIInv == IInv /\ [Next]_vars => IInv'
<1> SUFFICES ASSUME IInv, [Next]_vars PROVE IInv'
  OBVIOUS
<1>1. TypeOK /\ TypeOK'
  BY StepType DEF IInv
<1> SUFFICES ASSUME NEW j \in Kind PROVE Accounted(j)'
  BY <1>1 DEF IInv
<1>2. Accounted(j)
  BY DEF IInv
<1> USE <1>1, <1>2 DEF TypeOK, Accounted, Pending
<1>3. ASSUME NEW k \in Kind, AddTotal(k) PROVE Accounted(j)'
  BY <1>3 DEF AddTotal
<1>4. ASSUME NEW k \in Kind, AddWindow(k) PROVE Accounted(j)'
  <2>1. CASE k # j
    BY <1>4, <2>1 DEF AddWindow
  <2>2. CASE k = j
    <3>1. /\ total' = total /\ reported' = reported /\ dump' = dump
          /\ window'[j] = window[j] + 1 /\ inflight'[j] = inflight[j] - 1 /\ inflight[j] > 0
          /\ missed'[j] = IF Pending(j) THEN missed[j] + 1 ELSE missed[j]
      BY <1>4, <2>2 DEF AddWindow
    <3> QED
      BY <3>1
  <2> QED
    BY <2>1, <2>2
<1>5. CASE DumpStart
  BY <1>5 DEF DumpStart
<1>6. CASE DumpWindow("get", "set")
  BY <1>6 DEF DumpWindow, Kind
<1>7. CASE DumpWindow("set", "reset_set")
  BY <1>7 DEF DumpWindow, Kind
<1>8. CASE ResetWindow("set", "reset_set", "reset_get")
  BY <1>8 DEF ResetWindow, Kind
<1>9. CASE ResetWindow("get", "reset_get", "idle")
  BY <1>9 DEF ResetWindow, Kind
<1>10. CASE UNCHANGED vars
  BY <1>10 DEF vars
<1> QED
  BY <1>3, <1>4, <1>5, <1>6, <1>7, <1>8, <1>9, <1>10 DEF Next

\* Whatever add_get and add_set do while dump_and_reset prints and resets the windows,
\* it reports no request twice and misses only those that are counted between the two.
THEOREM ReportedOnce == Spec => []ReportedOrMissed
<1>1. IInv => ReportedOrMissed
  BY DEF IInv, Accounted, ReportedOrMissed
<1> QED
  BY InitIInv, StepIInv, <1>1, PTL DEF Spec
=============================================================================
