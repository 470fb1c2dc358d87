------------------------------ MODULE Recovery ------------------------------
(***************************************************************************)
(* An execution and its journal, with crashes (engine.ts apply and resume, *)
(* trace.ts checkTrace, journal.ts).  An operation is appended with its    *)
(* commit mark and synced before the new state is published.  A crash, or  *)
(* an append or sync that rejects, leaves any part of what was not synced  *)
(* behind; resuming reads the journal up to the last commit mark, cuts off *)
(* the rest, and reports every call that had not ended as lost.            *)
(*                                                                         *)
(* The machine's variables hold the state being applied; a line of the     *)
(* journal holds, for its operation, the state after it.                   *)
(***************************************************************************)
EXTENDS Calls, Sequences

CONSTANTS
  Kind,       \* call -> "stream" or "single"
  MaxYields,  \* bound: elements of a generator
  MaxHalts    \* bound: crashes and failures of the journal

VARIABLES
  mode,      \* "new", "resuming", "running", "down" or "refused"
  writing,   \* an operation is appended and not synced yet
  disk,      \* the complete lines of the journal
  torn,      \* an incomplete line follows them
  synced,    \* the number of lines that no crash removes
  seq,       \* the sequence number of the next operation
  lost,      \* the calls this resume has still to report
  code,      \* the calls whose user code runs
  begun,     \* history: call -> how often its user code was started
  published, \* history: the last state published
  halts

journalVars == <<mode, writing, disk, torn, synced, seq, lost, code, begun, published, halts>>
vars == <<machineVars, journalVars>>

Memory == [status |-> status, started |-> started, cancelled |-> cancelled, failed |-> failed, calls |-> calls]
Initial == [status |-> "running", started |-> FALSE, cancelled |-> FALSE, failed |-> FALSE, calls |-> <<>>]
UnendedOf(state) == {c \in DOMAIN state.calls : state.calls[c].status \in Unended}

Header == [kind |-> "header", seq |-> 0]
Operation(n, state) == [kind |-> "op", seq |-> n, state |-> state]
Commit(n) == [kind |-> "commit", seq |-> n]
Garbage == [kind |-> "garbage", seq |-> 0]

-----------------------------------------------------------------------------
(* Reading a journal: checkTrace *)

\* Numbers are consecutive from 1, and operations and commit marks alternate.
\* An incomplete last line is not read at all.
KindAt(n) == IF n = 1 THEN "header" ELSE IF n % 2 = 0 THEN "op" ELSE "commit"
Readable(lines) == \A n \in DOMAIN lines : lines[n].kind = KindAt(n) /\ lines[n].seq = n - 1

Committed(lines) == IF lines = <<>> THEN 0 ELSE (Len(lines) - 1) \div 2
Length(lines) == IF lines = <<>> THEN 0 ELSE 1 + 2 * Committed(lines)
StateOf(lines) == IF Committed(lines) = 0 THEN Initial ELSE lines[Length(lines) - 1].state

-----------------------------------------------------------------------------
(* Applying an operation *)

\* Append the operation of this step, with the header if it is the first,
\* and its commit mark.
Lines(n, state) ==
  IF mode = "new"
  THEN <<Header, Operation(n, state), Commit(n + 1)>>
  ELSE <<Operation(n, state), Commit(n + 1)>>

Appended(lines) == disk \o (IF torn THEN <<Garbage>> \o Tail(lines) ELSE lines)

CanWrite == ~writing

Write ==
  /\ disk' = Appended(Lines(seq, Memory'))
  /\ torn' = FALSE
  /\ writing' = TRUE
  /\ UNCHANGED <<mode, synced, seq, lost, code, begun, published, halts>>

\* A mutation of Publish: user code is started for every call that has not ended.
PublishAll ==
  /\ code' = {c \in DOMAIN calls : calls[c].status \in Live}
  /\ published' = Memory

\* The calls of the new state that are new begin, those that ended are over.
Publish ==
  /\ code' = {c \in DOMAIN calls :
       calls[c].status \in Unended /\ (c \in code \/ c \notin DOMAIN published.calls)}
  /\ published' = Memory

\* A mutation of Durable: the journal is not asked to sync.
DurableUnsynced == seq' = seq + 2 /\ UNCHANGED synced

Durable == seq' = seq + 2 /\ synced' = Len(disk)

Sync ==
  /\ writing
  /\ writing' = FALSE
  /\ Durable
  /\ mode' = IF mode = "new" THEN "running" ELSE mode
  /\ Publish
  /\ begun' = [c \in DOMAIN calls |->
       (IF c \in DOMAIN begun THEN begun[c] ELSE 0) + (IF c \in code' \ code THEN 1 ELSE 0)]
  /\ UNCHANGED <<machineVars, disk, torn, lost, halts>>

-----------------------------------------------------------------------------
(* An execution *)

Begin == mode = "new" /\ CanWrite /\ Start /\ Write

\* Any operation; answers come from calls whose user code runs.
Operate ==
  /\ mode = "running"
  /\ CanWrite
  /\ \/ \E c \in DOMAIN Kind : Create(c, Kind[c] = "stream")
     \/ \E c \in DOMAIN calls : Fetch(c) \/ TimeOut(c, FALSE)
     \/ \E c \in code :
          \/ calls[c].yields < MaxYields /\ Yield(c)
          \/ Return(c)
          \/ FailCall(c)
          \/ Terminate(c)
     \/ ~failed /\ FailTransform  \* bound: one such failure
     \/ ~cancelled /\ Cancel
     \/ Conclude
  /\ Write

\* The process dies, or the journal rejects and the driver gives up once its
\* callbacks are over. What was not synced may have reached the disk in part.
Halt ==
  /\ mode \in {"new", "resuming", "running"}
  /\ halts < MaxHalts
  /\ \E n \in synced..Len(disk) : disk' = SubSeq(disk, 1, n) /\ torn' \in {FALSE, n < Len(disk)}
  /\ mode' = "down"
  /\ writing' = FALSE
  /\ code' = {}
  /\ halts' = halts + 1
  /\ UNCHANGED <<machineVars, synced, seq, lost, begun, published>>

-----------------------------------------------------------------------------
(* Engine.resume *)

Truncate(length) == disk' = SubSeq(disk, 1, length) /\ torn' = FALSE

\* A mutation of ToReport: a call that is being cancelled is not reported.
ToReportLive(state) == {c \in DOMAIN state.calls : state.calls[c].status \in Live}

ToReport(state) == UnendedOf(state)

Resume ==
  LET state == StateOf(disk) IN
  /\ mode = "down"
  /\ Readable(disk) /\ Committed(disk) > 0
  /\ Truncate(Length(disk))
  /\ status' = state.status
  /\ started' = state.started
  /\ cancelled' = state.cancelled
  /\ failed' = state.failed
  /\ calls' = state.calls
  /\ published' = state
  /\ lost' = ToReport(state)
  /\ seq' = 2 * Committed(disk) + 1
  /\ synced' = Length(disk)
  /\ mode' = "resuming"
  /\ UNCHANGED <<writing, code, begun, halts>>

\* No start was recorded, or the journal makes no sense.
ResumeRefused ==
  /\ mode = "down"
  /\ ~Readable(disk) \/ Committed(disk) = 0
  /\ mode' = "refused"
  /\ UNCHANGED <<machineVars, writing, disk, torn, synced, seq, lost, code, begun, published, halts>>

\* Each call that had not ended is reported lost. A quota may refuse the
\* report and cancel the execution first; the report is then tried again.
ReportLost ==
  /\ mode = "resuming"
  /\ CanWrite
  /\ \/ \E c \in lost : calls[c].status \in Unended /\ Lose(c)
     \/ lost # {} /\ status = "running" /\ Cancel
  /\ Write

Reported ==
  /\ mode = "resuming"
  /\ ~writing
  /\ \A c \in lost : calls[c].status \notin Unended
  /\ mode' = "running"
  /\ lost' = {}
  /\ UNCHANGED <<machineVars, writing, disk, torn, synced, seq, code, begun, published, halts>>

-----------------------------------------------------------------------------
(* The specification *)

RecoveryInit ==
  /\ Init
  /\ mode = "new"
  /\ writing = FALSE
  /\ disk = <<>>
  /\ torn = FALSE
  /\ synced = 0
  /\ seq = 1
  /\ lost = {}
  /\ code = {}
  /\ begun = <<>>
  /\ published = Initial
  /\ halts = 0

RecoveryNext ==
  \/ Begin
  \/ Operate
  \/ Sync
  \/ Halt
  \/ Resume
  \/ ResumeRefused
  \/ ReportLost
  \/ Reported

RecoverySpec == RecoveryInit /\ [][RecoveryNext]_vars

\* Everything but the halts happens in the end, where user code answers.
FairRecovery ==
  /\ RecoverySpec
  /\ WF_vars(Begin) /\ WF_vars(Operate) /\ WF_vars(ReportLost)
  /\ WF_vars(Sync \/ Resume \/ ResumeRefused \/ Reported)
=============================================================================
