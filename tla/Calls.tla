-------------------------------- MODULE Calls --------------------------------
(***************************************************************************)
(* What the machine promises its driver: the life of each call and of the  *)
(* execution, without the workflow that decides which calls there are.     *)
(* Machine implements this specification (CallsRefinement), and the driver *)
(* is modelled on top of it (Driver).                                      *)
(***************************************************************************)
EXTENDS Naturals

VARIABLES
  status,    \* of the execution
  started,   \* the start operation was accepted
  cancelled, \* a cancel operation was accepted
  failed,    \* a failure is recorded
  calls      \* call -> [stream, status, yields], the calls created so far

machineVars == <<status, started, cancelled, failed, calls>>

Live == {"running", "fetching"}
Unended == Live \cup {"cancelling"}
Statuses == {"running", "stopping", "succeeded", "failed", "cancelled", "skipped"}
Terminal == Statuses \ {"running", "stopping"}

Running == started /\ status = "running"
Going == started /\ status \in {"running", "stopping"}
Quiet == \A c \in DOMAIN calls : calls[c].status \notin Unended

-----------------------------------------------------------------------------
(* Operations *)

SetStatus(c, s) == [calls EXCEPT ![c].status = s]

CancelLive(table) ==
  [c \in DOMAIN table |->
    IF table[c].status \in Live THEN [table[c] EXCEPT !.status = "cancelling"] ELSE table[c]]

\* A failure: its policy is to go on, or to stop the execution.
Fail(table) ==
  /\ failed' = TRUE
  /\ \/ calls' = table /\ UNCHANGED status
     \/ calls' = CancelLive(table) /\ status' = "stopping"
  /\ UNCHANGED <<started, cancelled>>

Start ==
  /\ ~started
  /\ started' = TRUE
  /\ UNCHANGED <<status, cancelled, failed, calls>>

Create(c, stream) ==
  /\ Running
  /\ c \notin DOMAIN calls
  /\ calls' = [k \in DOMAIN calls \cup {c} |->
       IF k = c THEN [stream |-> stream, status |-> "running", yields |-> 0] ELSE calls[k]]
  /\ UNCHANGED <<status, started, cancelled, failed>>

Fetch(c) ==
  /\ Running
  /\ calls[c].stream
  /\ calls[c].status = "running"
  /\ calls' = SetStatus(c, "fetching")
  /\ UNCHANGED <<status, started, cancelled, failed>>

Yield(c) ==
  /\ Running
  /\ calls[c].stream
  /\ calls[c].status = "fetching"
  /\ calls' = [calls EXCEPT ![c] = [stream |-> TRUE, status |-> "running", yields |-> @.yields + 1]]
  /\ UNCHANGED <<status, started, cancelled, failed>>

\* The answer of a Single call or a judge, and the end of a Stream.
Return(c) ==
  /\ Running
  /\ calls[c].status = (IF calls[c].stream THEN "fetching" ELSE "running")
  /\ calls' = SetStatus(c, "returned")
  /\ UNCHANGED <<status, started, cancelled, failed>>

FailCall(c) == Running /\ calls[c].status \in Live /\ Fail(SetStatus(c, "failed"))

\* The user code of a call that timed out is still running.
TimeOut(c, element) ==
  /\ Running
  /\ calls[c].status \in (IF element THEN {"fetching"} ELSE Live)
  /\ Fail(SetStatus(c, "cancelling"))

Terminate(c) ==
  /\ Going
  /\ calls[c].status = "cancelling"
  /\ calls' = SetStatus(c, "cancelled")
  /\ UNCHANGED <<status, started, cancelled, failed>>

Lose(c) == \/ Going /\ calls[c].status \in Live /\ Fail(SetStatus(c, "lost"))
           \/ Terminate(c)

\* A transform threw: no call is to blame.
FailTransform == Running /\ Fail(calls)

Cancel ==
  /\ Going
  /\ status' = "stopping"
  /\ cancelled' = TRUE
  /\ calls' = CancelLive(calls)
  /\ UNCHANGED <<started, failed>>

Conclude ==
  /\ Going
  /\ Quiet
  /\ status' \in (IF failed THEN {"failed"}
                  ELSE IF status = "stopping" THEN {"cancelled"} ELSE {"succeeded", "skipped"})
  /\ UNCHANGED <<started, cancelled, failed, calls>>

-----------------------------------------------------------------------------
(* The specification *)

Init ==
  /\ status = "running"
  /\ started = FALSE
  /\ cancelled = FALSE
  /\ failed = FALSE
  /\ calls = <<>>

CallStep(c) ==
  \/ Fetch(c)
  \/ Yield(c)
  \/ Return(c)
  \/ FailCall(c)
  \/ TimeOut(c, FALSE) \/ TimeOut(c, TRUE)
  \/ Lose(c)

Next ==
  \/ Start
  \/ \E c \in DOMAIN calls' : Create(c, calls'[c].stream)
  \/ \E c \in DOMAIN calls : CallStep(c)
  \/ FailTransform
  \/ Cancel
  \/ Conclude

Spec == Init /\ [][Next]_machineVars
=============================================================================
