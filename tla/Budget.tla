------------------------------- MODULE Budget -------------------------------
(***************************************************************************)
(* The budget of one execution (limits.ts): what is admitted while it      *)
(* runs, and what is set aside for its end.  Callbacks reserve the bytes   *)
(* of what they report; the driver admits one operation at a time, awaits  *)
(* the journal and commits; callbacks go on reserving meanwhile.           *)
(*                                                                         *)
(* Sizes are counted, contents are not.  Every call counts with the same   *)
(* length of its terminated line, and the counters that limit growth       *)
(* (executions, tasks, elements) are one.                                  *)
(***************************************************************************)
EXTENDS Integers

CONSTANTS
  MaxActive, MaxElements, MaxPayload, MaxRecords, MaxJournal,  \* the limits
  CancelBytes, ConcludeBytes, EndBytes, \* the longest lines of cancel, conclude and terminated
  Sizes,                                \* of payloads
  Lines                                 \* lengths of the lines of other operations

ASSUME BudgetAssumption ==
  /\ MaxActive \in Nat /\ MaxElements \in Nat /\ MaxPayload \in Nat /\ MaxRecords \in Nat /\ MaxJournal \in Nat
  /\ CancelBytes \in Nat /\ ConcludeBytes \in Nat /\ EndBytes \in Nat
  /\ Sizes \subseteq Nat /\ Lines \subseteq Nat

VARIABLES
  status,    \* "running", "stopping" or "over"
  cancelled,
  active,    \* the number of calls that have not ended
  elements,
  payload, queued, staged, journal, records,
  inflight,  \* the operation the journal is writing: [op, size, line], or none
  down       \* the process is gone

vars == <<status, cancelled, active, elements, payload, queued, staged, journal, records, inflight, down>>

None == [op |-> "none", size |-> 0, line |-> 0]
Idle == ~down /\ inflight = None

-----------------------------------------------------------------------------
(* The reserve *)

\* The records and bytes that the end of an execution may still need.
ShutdownRecords(n) == 4 + 2 * n
ShutdownBytes(n) == CancelBytes + ConcludeBytes + EndBytes * n

RemainingRecords ==
  IF status = "over" THEN 0 ELSE ShutdownRecords(active) - (IF cancelled THEN 2 ELSE 0)
RemainingBytes ==
  IF status = "over" THEN 0 ELSE ShutdownBytes(active) - (IF cancelled THEN CancelBytes ELSE 0)

\* What restore asks of a journal.
Restorable ==
  /\ active <= MaxActive
  /\ elements <= MaxElements
  /\ payload <= MaxPayload
  /\ records + RemainingRecords <= MaxRecords
  /\ journal + RemainingBytes <= MaxJournal

-----------------------------------------------------------------------------
(* Callbacks *)

Fits(size) == size <= MaxPayload - payload - queued - staged

Reserve(size) ==
  /\ ~down
  /\ active > 0
  /\ Fits(size)
  /\ queued' = queued + size
  /\ UNCHANGED <<status, cancelled, active, elements, payload, staged, journal, records, inflight, down>>

-----------------------------------------------------------------------------
(* Admission *)

\* The check of every operation, after its event (of taken bytes) has left
\* the queue.
Holds(size, taken) == payload + queued - taken + size <= MaxPayload

\* A mutation of Spares: nothing is set aside for the cancel.
SparesConclusion(line, n, grown) ==
  /\ n <= MaxActive
  /\ elements + grown <= MaxElements
  /\ records + 2 + 2 + 2 * n <= MaxRecords
  /\ journal + line + ShutdownBytes(n) <= MaxJournal

\* The checks of an ordinary operation of a running execution.
Spares(line, n, grown) ==
  /\ n <= MaxActive
  /\ elements + grown <= MaxElements
  /\ records + 2 + ShutdownRecords(n) <= MaxRecords
  /\ journal + line + ShutdownBytes(n) <= MaxJournal

\* Handle an event of taken bytes (0 for a control operation) and admit an
\* operation that introduces size bytes, adds or ends calls and perhaps stops
\* the execution.
Operate(taken, size, line, more, grown, next) ==
  /\ Idle
  /\ status = "running"
  /\ taken <= queued
  /\ active + more >= 0
  /\ Spares(line, active + more, grown)
  /\ payload + size <= MaxPayload
  /\ Holds(size, taken)
  /\ queued' = queued - taken
  /\ staged' = staged + size
  /\ active' = active + more
  /\ elements' = elements + grown
  /\ status' = next
  /\ inflight' = [op |-> "operation", size |-> size, line |-> line]
  /\ UNCHANGED <<cancelled, payload, journal, records, down>>

\* An event that is dropped: it is stale, or its operation was refused.
Drop(taken) ==
  /\ Idle
  /\ taken <= queued
  /\ queued' = queued - taken
  /\ UNCHANGED <<status, cancelled, active, elements, payload, staged, journal, records, inflight, down>>

\* A cancel, by the caller or by a quota, in whatever state.
Cancel(line) ==
  /\ Idle
  /\ status # "over"
  /\ ~cancelled
  /\ Holds(0, 0)
  /\ status' = "stopping"
  /\ cancelled' = TRUE
  /\ inflight' = [op |-> "cancel", size |-> 0, line |-> line]
  /\ UNCHANGED <<active, elements, payload, queued, staged, journal, records, down>>

\* The last report of a call that is being cancelled.
Terminate(taken, line) ==
  /\ Idle
  /\ status \in {"running", "stopping"}
  /\ active > 0
  /\ taken <= queued
  /\ status = "running" => Spares(line, active - 1, 0)
  /\ Holds(0, taken)
  /\ queued' = queued - taken
  /\ active' = active - 1
  /\ inflight' = [op |-> "terminated", size |-> 0, line |-> line]
  /\ UNCHANGED <<status, cancelled, elements, payload, staged, journal, records, down>>

Conclude(line) ==
  /\ Idle
  /\ status # "over"
  /\ active = 0
  /\ Holds(0, 0)
  /\ status' = "over"
  /\ inflight' = [op |-> "conclude", size |-> 0, line |-> line]
  /\ UNCHANGED <<cancelled, active, elements, payload, queued, staged, journal, records, down>>

Commit ==
  /\ ~down
  /\ inflight # None
  /\ staged' = staged - inflight.size
  /\ payload' = payload + inflight.size
  /\ journal' = journal + inflight.line
  /\ records' = records + 2
  /\ inflight' = None
  /\ UNCHANGED <<status, cancelled, active, elements, queued, down>>

\* The process is gone between two operations (Recovery has the others), and
\* the budget is made again from the journal.
Crash ==
  /\ Idle
  /\ down' = TRUE
  /\ queued' = 0
  /\ UNCHANGED <<status, cancelled, active, elements, payload, staged, journal, records, inflight>>

Restore ==
  /\ down
  /\ Restorable
  /\ down' = FALSE
  /\ UNCHANGED <<status, cancelled, active, elements, payload, queued, staged, journal, records, inflight>>

-----------------------------------------------------------------------------
(* The specification *)

Init ==
  /\ status = "running"
  /\ cancelled = FALSE
  /\ active = 0
  /\ elements = 0
  /\ payload = 0 /\ queued = 0 /\ staged = 0
  /\ journal \in Lines  \* the header
  /\ records = 0
  /\ inflight = None
  /\ down = FALSE
  /\ Restorable

Next ==
  \/ \E size \in Sizes : Reserve(size)
  \/ \E taken \in Sizes \cup {0}, size \in Sizes \cup {0}, line \in Lines, more \in -1..1, grown \in 0..1,
        next \in {"running", "stopping"} : Operate(taken, size, line, more, grown, next)
  \/ \E taken \in Sizes : Drop(taken)
  \/ \E line \in 0..CancelBytes : Cancel(line)
  \/ \E taken \in Sizes \cup {0}, line \in 0..EndBytes : Terminate(taken, line)
  \/ \E line \in 0..ConcludeBytes : Conclude(line)
  \/ Commit
  \/ Crash
  \/ Restore

Spec == Init /\ [][Next]_vars

-----------------------------------------------------------------------------
(* Properties *)

\* The accounts have their types.
TypeOK ==
  /\ status \in {"running", "stopping", "over"}
  /\ cancelled \in BOOLEAN /\ down \in BOOLEAN
  /\ active \in Nat /\ elements \in Nat /\ payload \in Nat /\ queued \in Nat /\ staged \in Nat
  /\ journal \in Nat /\ records \in Nat
  /\ inflight \in [op : {"none", "operation", "cancel", "terminated", "conclude"}, size : Nat, line : Nat]

\* No limit is exceeded, not even by what is queued or on its way.
WithinLimits ==
  /\ payload + queued + staged <= MaxPayload
  /\ records <= MaxRecords
  /\ journal <= MaxJournal
  /\ active <= MaxActive
  /\ elements <= MaxElements

\* The end is never refused: a cancel, the last reports of all calls in turn
\* and the conclusion fit into what is left, whatever was admitted before;
\* and so does the report of a call that is being cancelled while the
\* execution goes on (limits.ts:121-134).
EndIsAdmitted ==
  Idle /\ status # "over" =>
    /\ Holds(0, 0)
    /\ status = "running" /\ active > 0 => Spares(EndBytes, active - 1, 0)
    /\ records + RemainingRecords <= MaxRecords
    /\ journal + RemainingBytes <= MaxJournal

\* A journal that was written under these limits can be resumed under them
\* (limits.ts restore).
AlwaysRestorable == down => Restorable
=============================================================================
