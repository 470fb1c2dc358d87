---------------------------- MODULE BudgetProofs ----------------------------
(***************************************************************************)
(* The properties of the budget for every value of the limits.             *)
(*                                                                         *)
(* What makes EndIsAdmitted inductive is what is true while an operation   *)
(* is on its way: its bytes are staged, and its two records and its line   *)
(* have been counted beside the reserve.                                   *)
(***************************************************************************)
EXTENDS Budget, TLAPS

Spent == IF inflight = None THEN 0 ELSE 2

\* The accounts with the operation on its way counted as written.
Accounted ==
  /\ staged = inflight.size
  /\ down => inflight = None /\ queued = 0
  /\ payload + queued + staged <= MaxPayload
  /\ active <= MaxActive
  /\ elements <= MaxElements
  /\ records + Spent + RemainingRecords <= MaxRecords
  /\ journal + inflight.line + RemainingBytes <= MaxJournal
  /\ status = "running" => ~cancelled

IInv == TypeOK /\ Accounted

\* What one call more or less changes in the reserve.
LEMMA ReserveStep ==
  ASSUME NEW n \in Nat
  PROVE  /\ ShutdownBytes(n) \in Nat
         /\ ShutdownBytes(n + 1) = ShutdownBytes(n) + EndBytes
         /\ n > 0 => ShutdownBytes(n - 1) = ShutdownBytes(n) - EndBytes
         /\ ShutdownBytes(n) >= CancelBytes + ConcludeBytes
         /\ n > 0 => ShutdownBytes(n) >= CancelBytes + ConcludeBytes + EndBytes
<1>1. EndBytes * n \in Nat /\ EndBytes * (n + 1) = EndBytes * n + EndBytes
  BY BudgetAssumption
<1>2. ASSUME n > 0 PROVE EndBytes * (n - 1) = EndBytes * n - EndBytes /\ EndBytes * (n - 1) \in Nat
  BY <1>2, BudgetAssumption
<1> QED
  BY <1>1, <1>2, BudgetAssumption DEF ShutdownBytes

\* The invariant holds at the start.
LEMMA InitIInv == Init => IInv
<1> SUFFICES ASSUME Init PROVE IInv
  OBVIOUS
<1>1. TypeOK
  BY BudgetAssumption DEF Init, TypeOK, None
<1> QED
  BY <1>1, BudgetAssumption DEF Init, IInv, Accounted, Restorable, None, Spent

\* Every step keeps the accounts in order.
LEMMA StepIInv == IInv /\ [Next]_vars => IInv'
<1> SUFFICES ASSUME IInv, [Next]_vars PROVE IInv'
  OBVIOUS
<1> USE BudgetAssumption DEF IInv
<1>1. CASE UNCHANGED vars
  BY <1>1 DEF vars, TypeOK, Accounted, Spent, RemainingRecords, RemainingBytes
<1>2. ASSUME NEW size \in Sizes, Reserve(size) PROVE IInv'
  <2>1. size \in Nat
    OBVIOUS
  <2> QED
    BY <2>1, <1>2 DEF Reserve, Fits, TypeOK, Accounted, Spent, RemainingRecords, RemainingBytes
<1>3. ASSUME NEW taken \in Sizes \cup {0}, NEW size \in Sizes \cup {0}, NEW line \in Lines,
             NEW more \in -1..1, NEW grown \in 0..1, NEW next \in {"running", "stopping"},
             Operate(taken, size, line, more, grown, next)
      PROVE  IInv'
  <2>1. taken \in Nat /\ size \in Nat /\ line \in Nat
    OBVIOUS
  <2>2. TypeOK'
    BY <2>1, <1>3 DEF Operate, TypeOK, Idle, None
  <2> DEFINE n == active + more
  <2>11. n \in Nat /\ active' = n
    BY <1>3 DEF Operate, TypeOK
  <2>12. ShutdownBytes(n) \in Nat
    BY <2>11, ReserveStep
  <2>3. ShutdownBytes(active') \in Nat /\ ShutdownRecords(active') \in Nat
    BY <2>11, <2>12 DEF ShutdownRecords
  <2>4. inflight = None /\ inflight' # None
    BY <1>3 DEF Operate, Idle, None
  <2>5. staged' = inflight'.size /\ (down' => inflight' = None /\ queued' = 0)
    BY <2>1, <1>3 DEF Operate, Idle, Accounted, TypeOK, None
  <2>6. payload' + queued' + staged' <= MaxPayload
    BY <2>1, <1>3 DEF Operate, Idle, Holds, Accounted, TypeOK, None
  <2>7. active' <= MaxActive /\ elements' <= MaxElements /\ (status' = "running" => ~cancelled')
    BY <1>3 DEF Operate, Spares, Accounted
  <2>8. records' + Spent' + RemainingRecords' <= MaxRecords
    <3>1. RemainingRecords' = ShutdownRecords(active')
      BY <1>3, <2>3 DEF Operate, RemainingRecords, Accounted
    <3>2. records' = records /\ Spent' = 2
      BY <2>4, <1>3 DEF Operate, Spent
    <3>3. records + 2 + ShutdownRecords(active') <= MaxRecords
      BY <1>3 DEF Operate, Spares
    <3> QED
      BY <3>1, <3>2, <3>3
  <2>9. journal' + inflight'.line + RemainingBytes' <= MaxJournal
    <3>1. RemainingBytes' = ShutdownBytes(active')
      BY <1>3, <2>3 DEF Operate, RemainingBytes, Accounted
    <3>2. journal' = journal /\ inflight'.line = line
      BY <1>3 DEF Operate
    <3>3. journal + line + ShutdownBytes(active') <= MaxJournal
      BY <1>3 DEF Operate, Spares
    <3> QED
      BY <3>1, <3>2, <3>3
  <2>10. Accounted'
    BY <2>5, <2>6, <2>7, <2>8, <2>9 DEF Accounted
  <2> QED
    BY <2>2, <2>10
<1>4. ASSUME NEW taken \in Sizes, Drop(taken) PROVE IInv'
  <2>1. taken \in Nat
    OBVIOUS
  <2> QED
    BY <2>1, <1>4 DEF Drop, TypeOK, Accounted, Spent, RemainingRecords, RemainingBytes
<1>5. ASSUME NEW line \in 0..CancelBytes, Cancel(line) PROVE IInv'
  <2>1. line \in Nat /\ line <= CancelBytes
    OBVIOUS
  <2>2. TypeOK'
    BY <2>1, <1>5 DEF Cancel, TypeOK, Idle, None
  <2>3. ShutdownBytes(active) \in Nat
    BY ReserveStep DEF TypeOK
  <2>4. inflight = None /\ inflight' # None
    BY <1>5 DEF Cancel, Idle, None
  <2>5. Accounted'
    BY <2>1, <2>2, <2>3, <2>4, <1>5
    DEF Cancel, Idle, Accounted, Spent, RemainingRecords, RemainingBytes, ShutdownRecords, TypeOK, None
  <2> QED
    BY <2>2, <2>5
<1>6. ASSUME NEW taken \in Sizes \cup {0}, NEW line \in 0..EndBytes, Terminate(taken, line) PROVE IInv'
  <2>1. line \in Nat /\ line <= EndBytes /\ taken \in Nat
    OBVIOUS
  <2>2. TypeOK'
    BY <2>1, <1>6 DEF Terminate, TypeOK, Idle, None
  <2>3. ShutdownBytes(active) \in Nat /\ ShutdownBytes(active - 1) = ShutdownBytes(active) - EndBytes
    BY <1>6, ReserveStep DEF TypeOK, Terminate
  <2>4. inflight = None /\ inflight' # None
    BY <1>6 DEF Terminate, Idle, None
  <2>5. Accounted'
    BY <2>1, <2>2, <2>3, <2>4, <1>6
    DEF Terminate, Idle, Accounted, Spent, RemainingRecords, RemainingBytes, ShutdownRecords, TypeOK, None
  <2> QED
    BY <2>2, <2>5
<1>7. ASSUME NEW line \in 0..ConcludeBytes, Conclude(line) PROVE IInv'
  <2>1. line \in Nat /\ line <= ConcludeBytes
    OBVIOUS
  <2>2. TypeOK'
    BY <2>1, <1>7 DEF Conclude, TypeOK, Idle, None
  <2>3. ShutdownBytes(active) \in Nat /\ ShutdownBytes(active) >= CancelBytes + ConcludeBytes
    BY ReserveStep DEF TypeOK
  <2>4. inflight = None /\ inflight' # None
    BY <1>7 DEF Conclude, Idle, None
  <2>5. Accounted'
    BY <2>1, <2>2, <2>3, <2>4, <1>7
    DEF Conclude, Idle, Accounted, Spent, RemainingRecords, RemainingBytes, ShutdownRecords, TypeOK, None
  <2> QED
    BY <2>2, <2>5
<1>8. CASE Commit
  <2>1. TypeOK'
    BY <1>8 DEF Commit, TypeOK, Accounted, None
  <2> QED
    BY <2>1, <1>8 DEF Commit, TypeOK, Accounted, Spent, RemainingRecords, RemainingBytes, None
<1>9. CASE Crash
  BY <1>9 DEF Crash, Idle, TypeOK, Accounted, Spent, RemainingRecords, RemainingBytes
<1>10. CASE Restore
  BY <1>10 DEF Restore, TypeOK, Accounted, Spent, RemainingRecords, RemainingBytes
<1> QED
  BY <1>1, <1>2, <1>3, <1>4, <1>5, <1>6, <1>7, <1>8, <1>9, <1>10 DEF Next

\* The invariant gives the three properties.
LEMMA IInvImplies == IInv => WithinLimits /\ EndIsAdmitted /\ AlwaysRestorable
<1> SUFFICES ASSUME IInv PROVE WithinLimits /\ EndIsAdmitted /\ AlwaysRestorable
  OBVIOUS
<1> USE BudgetAssumption DEF IInv
<1>1. ShutdownBytes(active) \in Nat /\ ShutdownBytes(active) >= CancelBytes + ConcludeBytes
  BY ReserveStep DEF TypeOK
<1>2. RemainingRecords \in Nat /\ RemainingBytes \in Nat
  BY <1>1 DEF RemainingRecords, RemainingBytes, ShutdownRecords, TypeOK
<1>3. WithinLimits
  BY <1>2 DEF WithinLimits, Accounted, TypeOK, Spent
<1>4. AlwaysRestorable
  BY <1>2 DEF AlwaysRestorable, Restorable, Accounted, TypeOK, Spent, None
<1>5. EndIsAdmitted
  <2> SUFFICES ASSUME Idle, status # "over"
      PROVE  /\ Holds(0, 0)
             /\ status = "running" /\ active > 0 => Spares(EndBytes, active - 1, 0)
             /\ records + RemainingRecords <= MaxRecords
             /\ journal + RemainingBytes <= MaxJournal
    BY DEF EndIsAdmitted
  <2>1. inflight.line = 0 /\ Spent = 0
    BY DEF Idle, None, Spent
  <2>2. records + RemainingRecords <= MaxRecords /\ journal + RemainingBytes <= MaxJournal
    BY <2>1, <1>2 DEF Accounted, TypeOK
  <2>3. Holds(0, 0)
    BY DEF Holds, Accounted, TypeOK
  <2>4. ASSUME status = "running", active > 0 PROVE Spares(EndBytes, active - 1, 0)
    <3>1. ShutdownBytes(active - 1) = ShutdownBytes(active) - EndBytes
      BY <2>4, ReserveStep DEF TypeOK
    <3> QED
      BY <3>1, <2>2, <2>4, <1>1
      DEF Spares, Accounted, TypeOK, RemainingRecords, RemainingBytes, ShutdownRecords
  <2> QED
    BY <2>2, <2>3, <2>4
<1> QED
  BY <1>3, <1>4, <1>5

\* No limit is exceeded, whatever the limits are and however callbacks and
\* the driver interleave.
THEOREM LimitsHold == Spec => []WithinLimits
<1>1. Spec => []IInv
  BY InitIInv, StepIInv, PTL DEF Spec
<1> QED
  BY <1>1, IInvImplies, PTL

\* An execution can always be brought to its end, cancelled or not, within
\* the limits it was admitted under.
THEOREM EndAlwaysAdmitted == Spec => []EndIsAdmitted
<1>1. Spec => []IInv
  BY InitIInv, StepIInv, PTL DEF Spec
<1> QED
  BY <1>1, IInvImplies, PTL

\* A journal can always be resumed under the limits it was written under.
THEOREM RestoreAlwaysAccepts == Spec => []AlwaysRestorable
<1>1. Spec => []IInv
  BY InitIInv, StepIInv, PTL DEF Spec
<1> QED
  BY <1>1, IInvImplies, PTL
=============================================================================
