------------------------------ MODULE Machine -------------------------------
(***************************************************************************)
(* The transition function of an execution, after machine.ts: one action   *)
(* per operation of Stepper.apply.  The conditions that the code rejects   *)
(* an operation on are the guard of its action; a rejected operation       *)
(* leaves the state alone (step throws before its result is kept).         *)
(*                                                                         *)
(* Who issues the operations: the driver issues the control operations     *)
(* that controlCandidates lists, a user callback reports about its call,   *)
(* and the environment may lose an executor, let a timer fire, make a      *)
(* callback or a transform throw, or cancel.                               *)
(***************************************************************************)
EXTENDS View

CONSTANTS
  \* A bound: the most elements the generator of a Stream call yields.
  MaxYields,
  \* What the environment may do besides answering: a subset of {"failed",
  \* "callTimeout", "elementTimeout", "lost", "transform", "cancel"}.
  Faults

ASSUME MachineAssumption ==
  /\ MaxYields \in Nat
  /\ Faults \subseteq {"failed", "callTimeout", "elementTimeout", "lost", "transform", "cancel"}

-----------------------------------------------------------------------------
(* Updates *)

Put(table, key, value) ==
  [k \in DOMAIN table \cup {key} |-> IF k = key THEN value ELSE table[k]]

\* A mutation of NewCall: elements are numbered from 1.
NewCallFromOne == [status |-> "running", yields |-> 1]

NewCall == [status |-> "running", yields |-> 0]
NewRun(workflow) == [workflow |-> workflow, complete |-> FALSE]

\* A mutation of CancelLive: a call waiting for its next element is forgotten.
CancelLiveRunning(table) ==
  [c \in DOMAIN table |->
    IF table[c].status = "running" THEN [table[c] EXCEPT !.status = "cancelling"] ELSE table[c]]

CancelLive(table) ==
  [c \in DOMAIN table |->
    IF table[c].status \in Live THEN [table[c] EXCEPT !.status = "cancelling"] ELSE table[c]]

MapTasks(table, From, to) ==
  [e \in DOMAIN table |->
    [table[e] EXCEPT !.tasks = [t \in DOMAIN table[e].tasks |->
      IF table[e].tasks[t] \in From THEN to ELSE table[e].tasks[t]]]]
DropUnstarted(table) == MapTasks(table, {"pending", "ready"}, "notStarted")

\* stop, applied to the tables of calls and executions given.
Stop(callTable, executionTable) ==
  /\ status' = "stopping"
  /\ calls' = CancelLive(callTable)
  /\ executions' = DropUnstarted(executionTable)

Fail(failure, policy, callTable, executionTable) ==
  /\ failures' = Append(failures, failure)
  /\ IF policy = "stop"
     THEN Stop(callTable, executionTable)
     ELSE /\ calls' = callTable
          /\ executions' = executionTable
          /\ UNCHANGED status

FailureAt(owner, task, cause) ==
  [run |-> owner.run, placement |-> owner.placement, task |-> task, cause |-> cause]

\* The tables in which an invocation, or a task, has a new status.
SetInvocation(invocation, s) == [invocations EXCEPT ![invocation].status = s]
SetTask(execution, task, s) == [executions EXCEPT ![execution].tasks[task] = s]
SetCall(call, s) == [calls EXCEPT ![call].status = s]

\* The status of whatever owns a call, set in the table that holds it.
OwnerStatus(call) ==
  IF call.task = None THEN invocations[call.owner].status
                      ELSE executions[call.owner].tasks[call.task]
OwnerInvocations(call, s) == IF call.task = None THEN SetInvocation(call.owner, s) ELSE invocations
OwnerExecutions(call, s) == IF call.task = None THEN executions ELSE SetTask(call.owner, call.task, s)

SettleOwner(call, s) ==
  /\ invocations' = OwnerInvocations(call, s)
  /\ executions' = OwnerExecutions(call, s)

\* A value of a call, a result of its placement or of its task.
Accept(call, index, arm) ==
  IF call.task = None
  THEN LET key == CallResult(call, index)
       IN  /\ key \notin DOMAIN results
           /\ results' = Put(results, key, [arm |-> arm, list |-> {}])
           /\ UNCHANGED taskResults
  ELSE LET key == TaskResultKey(call.owner, call.task, index)
       IN  /\ key \notin DOMAIN taskResults
           /\ taskResults' = Put(taskResults, key, "pending")
           /\ UNCHANGED results

AddResult(key, list) ==
  /\ key \notin DOMAIN results
  /\ results' = Put(results, key, [arm |-> None, list |-> list])

\* A mutation of FailCall: the failure is recorded, the call goes on.
FailCallKeepsStatus(call, s, cause) ==
  /\ invocations' = OwnerInvocations(call, "failed")
  /\ Fail(FailureAt(call.owner, call.task, cause), SpecOf(call).policy,
          calls, OwnerExecutions(call, "failed"))
  /\ UNCHANGED <<main, started, cancelled, runs, results, taskResults, deliveries, settled>>

FailCall(call, s, cause) ==
  /\ invocations' = OwnerInvocations(call, "failed")
  /\ Fail(FailureAt(call.owner, call.task, cause), SpecOf(call).policy,
          SetCall(call, s), OwnerExecutions(call, "failed"))
  /\ UNCHANGED <<main, started, cancelled, runs, results, taskResults, deliveries, settled>>

\* The end of a call that was being cancelled.
CallCancelled(call) ==
  /\ calls' = SetCall(call, "cancelled")
  /\ IF OwnerStatus(call) = "active" THEN SettleOwner(call, "cancelled")
                                     ELSE UNCHANGED <<invocations, executions>>
  /\ UNCHANGED <<main, status, started, cancelled, runs, results, taskResults, deliveries,
                 settled, failures>>

Running == started /\ status = "running"
Open(path) == path \in DOMAIN runs /\ ~runs[path].complete

-----------------------------------------------------------------------------
(* Operations of the driver *)

Start ==
  /\ ~started
  /\ status = "running"
  /\ started' = TRUE
  /\ runs' = Put(runs, Root, NewRun(main))
  /\ UNCHANGED <<main, status, cancelled, invocations, calls, executions, results, taskResults,
                 deliveries, settled, failures>>

Invoke(path, name, trigger) ==
  LET key  == InvocationKey(path, name, trigger)
      node == PlacementOf(path, name)
      init == IF node.input THEN "pending" ELSE "ready"
  IN  /\ Running
      /\ Open(path)
      /\ trigger \in Triggers(path, name)
      /\ key \notin DOMAIN invocations
      /\ \/ /\ node.type \in {"function", "branch"}
            /\ CallKey(key, None) \notin DOMAIN calls
            /\ calls' = Put(calls, CallKey(key, None), NewCall)
            /\ UNCHANGED <<runs, executions>>
         \/ /\ node.type = "subworkflow"
            /\ Child(key, None) \notin DOMAIN runs
            /\ runs' = Put(runs, Child(key, None), NewRun(node.workflow))
            /\ UNCHANGED <<calls, executions>>
         \/ /\ node.type = "concurrency"
            /\ key \notin DOMAIN executions
            /\ executions' = Put(executions, key,
                 [tasks |-> [t \in DOMAIN node.tasks |-> init], complete |-> FALSE])
            /\ UNCHANGED <<calls, runs>>
      /\ invocations' = Put(invocations, key, [status |-> "active", arm |-> None])
      /\ UNCHANGED <<main, status, started, cancelled, results, taskResults, deliveries, settled, failures>>

Fetch(call) ==
  /\ Running
  /\ IsStream(call)
  /\ calls[call].status = "running"
  /\ calls' = SetCall(call, "fetching")
  /\ UNCHANGED <<main, status, started, cancelled, runs, invocations, executions, results, taskResults,
                 deliveries, settled, failures>>

\* The result labelled source may be delivered on connection i.
Deliverable(path, i, source) ==
  /\ Running
  /\ ResultKey(path, source) \in Eligible(path, Edge(WorkflowOf(path), i))
  /\ ~IsDelivered(path, i, source)

Deliver(path, i, source) ==
  /\ Deliverable(path, i, source)
  /\ deliveries' = Put(deliveries, DeliveryKey(path, i, source),
                       IF Edge(WorkflowOf(path), i).discard THEN "trigger" ELSE "value")
  /\ UNCHANGED <<main, status, started, cancelled, runs, invocations, calls, executions, results,
                 taskResults, settled, failures>>

TransformFailed(path, i, source) ==
  LET target == Edge(WorkflowOf(path), i).target
  IN  /\ "transform" \in Faults
      /\ Deliverable(path, i, source)
      /\ ~Edge(WorkflowOf(path), i).discard
      /\ deliveries' = Put(deliveries, DeliveryKey(path, i, source), "failed")
      /\ Fail(FailureAt(SettledKey(path, target), None, "transform"), PlacementOf(path, target).policy,
              calls, executions)
      /\ UNCHANGED <<main, started, cancelled, runs, invocations, results, taskResults, settled>>

TaskInput(execution, task) ==
  /\ Running
  /\ executions[execution].tasks[task] = "pending"
  /\ TaskSpec(execution, task).inputTransform # "none"
  /\ executions' = SetTask(execution, task, "ready")
  /\ UNCHANGED <<main, status, started, cancelled, runs, invocations, calls, results, taskResults,
                 deliveries, settled, failures>>

TaskInputFailed(execution, task) ==
  /\ "transform" \in Faults
  /\ Running
  /\ executions[execution].tasks[task] = "pending"
  /\ TaskSpec(execution, task).inputTransform = "value"
  /\ Fail(FailureAt(execution, task, "transform"), TaskSpec(execution, task).policy,
          calls, SetTask(execution, task, "failed"))
  /\ UNCHANGED <<main, started, cancelled, runs, invocations, results, taskResults, deliveries, settled>>

BeginTask(execution, task) ==
  LET body == TaskSpec(execution, task).body
  IN  /\ Running
      /\ ~executions[execution].complete
      /\ executions[execution].tasks[task] = "ready"
      /\ SlotsHeld(execution) < ConcurrencyOf(execution).limit
      /\ \/ /\ body.type = "function"
            /\ CallKey(execution, task) \notin DOMAIN calls
            /\ calls' = Put(calls, CallKey(execution, task), NewCall)
            /\ UNCHANGED runs
         \/ /\ body.type = "subworkflow"
            /\ Child(execution, task) \notin DOMAIN runs
            /\ runs' = Put(runs, Child(execution, task), NewRun(body.workflow))
            /\ UNCHANGED calls
      /\ executions' = SetTask(execution, task, "active")
      /\ UNCHANGED <<main, status, started, cancelled, invocations, results, taskResults, deliveries,
                     settled, failures>>

\* r is a result of a task that is in the output and not transformed yet.
OutputPending(r) ==
  /\ Running
  /\ TaskSpec(r.execution, r.task).included
  /\ taskResults[r] = "pending"

TaskOutput(r) ==
  /\ OutputPending(r)
  /\ taskResults' = [taskResults EXCEPT ![r] = "value"]
  /\ IF ConcurrencyOf(r.execution).output = "list" THEN UNCHANGED results
                                                   ELSE AddResult(TaskOutputResult(r), {})
  /\ UNCHANGED <<main, status, started, cancelled, runs, invocations, calls, executions, deliveries,
                 settled, failures>>

TaskOutputFailed(r) ==
  /\ "transform" \in Faults
  /\ OutputPending(r)
  /\ taskResults' = [taskResults EXCEPT ![r] = "failed"]
  /\ Fail(FailureAt(r.execution, r.task, "transform"), TaskSpec(r.execution, r.task).policy,
          calls, executions)
  /\ UNCHANGED <<main, started, cancelled, runs, invocations, results, deliveries, settled>>

Settle(path, name) ==
  /\ Running
  /\ Open(path)
  /\ ~IsSettled(path, name)
  /\ \E s \in SettleOutcome(path, name) :
       /\ settled' = Put(settled, SettledKey(path, name), [outcome |-> s.outcome, arms |-> s.arms])
       /\ IF s.list = <<>> THEN UNCHANGED results
                           ELSE AddResult(AggregateResult(path, name), s.list[1])
  /\ UNCHANGED <<main, status, started, cancelled, runs, invocations, calls, executions, taskResults,
                 deliveries, failures>>

CloseExecution(execution) ==
  LET node     == ConcurrencyOf(execution)
      tasks    == executions[execution].tasks
      included == {t \in DOMAIN tasks : node.tasks[t].included}
      outputs  == {r \in DOMAIN taskResults : r.execution = execution /\ r.task \in included}
      values   == {TaskOutputResult(r).label : r \in {x \in outputs : taskResults[x] = "value"}}
      skips    == \A t \in included : tasks[t] = "skipped"
  IN  /\ Running
      /\ ~executions[execution].complete
      /\ \A t \in DOMAIN tasks : TaskEnded(execution, t)
      /\ \A r \in outputs : taskResults[r] # "pending"
      /\ executions' = [executions EXCEPT ![execution].complete = TRUE]
      /\ invocations' = SetInvocation(execution, IF skips THEN "skipped" ELSE "succeeded")
      /\ IF skips \/ node.output = "stream" THEN UNCHANGED results
                                            ELSE AddResult(ListResult(execution), values)
      /\ UNCHANGED <<main, status, started, cancelled, runs, calls, taskResults, deliveries, settled,
                     failures>>

\* A called workflow ends: its designated output is the result of the
\* invocation or the task that called it, or the reason why there is none.
CloseRun(path) ==
  LET owner   == RunOwner(path)
      task    == RunTask(path)
      output  == DesignatedOutput(path)
      outcome == settled[SettledKey(path, output)].outcome
      reached == IF outcome = "normal" THEN "succeeded" ELSE outcome
      key     == TaskResultKey(owner, task, 0)
  IN  /\ Running
      /\ path # Root
      /\ Open(path)
      /\ AllSettled(path)
      /\ IsSettled(path, output)
      /\ outcome = "normal" => ResultsOf(path, output) # {}
      /\ runs' = [runs EXCEPT ![path].complete = TRUE]
      /\ \/ /\ task = None
            /\ invocations' = SetInvocation(owner, reached)
            /\ IF outcome = "normal" THEN AddResult(Returned(owner), {}) ELSE UNCHANGED results
            /\ UNCHANGED <<executions, taskResults>>
         \/ /\ task # None
            /\ executions' = SetTask(owner, task, reached)
            /\ IF outcome = "normal"
               THEN /\ key \notin DOMAIN taskResults
                    /\ taskResults' = Put(taskResults, key, "pending")
               ELSE UNCHANGED taskResults
            /\ UNCHANGED <<invocations, results>>
      /\ UNCHANGED <<main, status, started, cancelled, calls, deliveries, settled, failures>>

\* A mutation of ConcludeRunning: skipped takes precedence over failed.
ConcludeRunningSkipFirst ==
  LET skips == \A name \in Endpoints(WorkflowOf(Root)) :
                 settled[SettledKey(Root, name)].outcome = "skipped"
  IN  /\ Running
      /\ AllSettled(Root)
      /\ runs' = [runs EXCEPT ![Root].complete = TRUE]
      /\ status' = IF skips THEN "skipped" ELSE IF failures # <<>> THEN "failed" ELSE "succeeded"
      /\ UNCHANGED <<main, started, cancelled, invocations, calls, executions, results, taskResults,
                     deliveries, settled, failures>>

\* The end of an execution that was not stopped.
ConcludeRunning ==
  LET skips == \A name \in Endpoints(WorkflowOf(Root)) :
                 settled[SettledKey(Root, name)].outcome = "skipped"
  IN  /\ Running
      /\ AllSettled(Root)
      /\ runs' = [runs EXCEPT ![Root].complete = TRUE]
      /\ status' = IF failures # <<>> THEN "failed" ELSE IF skips THEN "skipped" ELSE "succeeded"
      /\ UNCHANGED <<main, started, cancelled, invocations, calls, executions, results, taskResults,
                     deliveries, settled, failures>>

\* The end of an execution that was stopped, once every call has ended.
ConcludeStopping ==
  /\ started
  /\ status = "stopping"
  /\ \A c \in DOMAIN calls : CallEnded(calls[c].status)
  /\ invocations' = [i \in DOMAIN invocations |->
       IF invocations[i].status = "active" THEN [invocations[i] EXCEPT !.status = "cancelled"]
                                           ELSE invocations[i]]
  /\ executions' = MapTasks(DropUnstarted(executions), {"active"}, "cancelled")
  /\ status' = IF failures # <<>> THEN "failed" ELSE "cancelled"
  /\ UNCHANGED <<main, started, cancelled, runs, calls, results, taskResults, deliveries, settled,
                 failures>>

-----------------------------------------------------------------------------
(* Reports of the user's callbacks *)

CallReturned(call) ==
  /\ Running
  /\ ~IsStream(call)
  /\ calls[call].status = "running"
  /\ BodyOf(call).type # "branch"
  /\ Accept(call, 0, None)
  /\ calls' = SetCall(call, "returned")
  /\ SettleOwner(call, "succeeded")
  /\ UNCHANGED <<main, status, started, cancelled, runs, deliveries, settled, failures>>

Arms(call) == IF BodyOf(call).type = "branch" THEN BodyOf(call).arms ELSE {}

Judged(call, arm) ==
  /\ Running
  /\ calls[call].status = "running"
  /\ call.task = None
  /\ arm \in Arms(call)
  /\ Accept(call, 0, arm)
  /\ calls' = SetCall(call, "returned")
  /\ invocations' = [invocations EXCEPT ![call.owner] = [status |-> "succeeded", arm |-> arm]]
  /\ UNCHANGED <<main, status, started, cancelled, runs, executions, deliveries, settled, failures>>

Yielded(call) ==
  /\ Running
  /\ IsStream(call)
  /\ calls[call].status = "fetching"
  /\ calls[call].yields < MaxYields
  /\ Accept(call, calls[call].yields, None)
  /\ calls' = [calls EXCEPT ![call] = [status |-> "running", yields |-> @.yields + 1]]
  /\ UNCHANGED <<main, status, started, cancelled, runs, invocations, executions, deliveries, settled,
                 failures>>

Ended(call) ==
  /\ Running
  /\ IsStream(call)
  /\ calls[call].status = "fetching"
  /\ calls' = SetCall(call, "returned")
  /\ SettleOwner(call, "succeeded")
  /\ UNCHANGED <<main, status, started, cancelled, runs, results, taskResults, deliveries, settled, failures>>

CallFailed(call) ==
  /\ "failed" \in Faults
  /\ Running
  /\ calls[call].status \in Live
  /\ FailCall(call, "failed", "error")

Terminated(call) ==
  /\ started
  /\ status \in {"running", "stopping"}
  /\ calls[call].status = "cancelling"
  /\ CallCancelled(call)

-----------------------------------------------------------------------------
(* The environment *)

CallTimedOut(call) ==
  /\ "callTimeout" \in Faults
  /\ Running
  /\ calls[call].status \in Live
  /\ "call" \in SpecOf(call).timeouts
  /\ FailCall(call, "cancelling", "timeout")

ElementTimedOut(call) ==
  /\ "elementTimeout" \in Faults
  /\ Running
  /\ calls[call].status = "fetching"
  /\ "element" \in SpecOf(call).timeouts
  /\ FailCall(call, "cancelling", "timeout")

Lost(call) ==
  /\ "lost" \in Faults
  /\ started
  /\ status \in {"running", "stopping"}
  /\ \/ calls[call].status \in Live /\ FailCall(call, "lost", "lost")
     \/ calls[call].status = "cancelling" /\ CallCancelled(call)

Cancel ==
  /\ "cancel" \in Faults
  /\ started
  /\ \/ status = "running" /\ Stop(calls, executions)
     \/ status = "stopping" /\ UNCHANGED <<status, calls, executions>>
  /\ cancelled' = TRUE
  /\ UNCHANGED <<main, started, runs, invocations, results, taskResults, deliveries, settled, failures>>

-----------------------------------------------------------------------------
(* The specification *)

Init ==
  /\ main \in Mains
  /\ status = "running"
  /\ started = FALSE
  /\ cancelled = FALSE
  /\ runs = <<>>
  /\ invocations = <<>>
  /\ calls = <<>>
  /\ executions = <<>>
  /\ results = <<>>
  /\ taskResults = <<>>
  /\ deliveries = <<>>
  /\ settled = <<>>
  /\ failures = <<>>

Control ==
  \/ Start
  \/ \E path \in DOMAIN runs : \E name \in Placements(WorkflowOf(path)) :
       \/ \E trigger \in Triggers(path, name) : Invoke(path, name, trigger)
       \/ Settle(path, name)
  \/ \E path \in DOMAIN runs : CloseRun(path)
  \/ \E r \in DOMAIN results : \E i \in Edges(WorkflowOf(r.run)) : Deliver(r.run, i, r.label)
  \/ \E e \in DOMAIN executions : \E t \in DOMAIN executions[e].tasks : TaskInput(e, t) \/ BeginTask(e, t)
  \/ \E r \in DOMAIN taskResults : TaskOutput(r)
  \/ \E e \in DOMAIN executions : CloseExecution(e)
  \/ \E c \in DOMAIN calls : Fetch(c)
  \/ ConcludeRunning
  \/ ConcludeStopping

Report(call) ==
  \/ CallReturned(call)
  \/ \E arm \in Arms(call) : Judged(call, arm)
  \/ Yielded(call)
  \/ Ended(call)
  \/ Terminated(call)

Environment ==
  \/ \E c \in DOMAIN calls : CallFailed(c) \/ CallTimedOut(c) \/ ElementTimedOut(c) \/ Lost(c)
  \/ \E r \in DOMAIN results : \E i \in Edges(WorkflowOf(r.run)) : TransformFailed(r.run, i, r.label)
  \/ \E e \in DOMAIN executions : \E t \in DOMAIN executions[e].tasks : TaskInputFailed(e, t)
  \/ \E r \in DOMAIN taskResults : TaskOutputFailed(r)
  \/ Cancel

\* The execution is over: nothing happens any more.
Done == status \in Terminal /\ UNCHANGED vars

Next ==
  \/ Control
  \/ \E c \in DOMAIN calls : Report(c)
  \/ Environment
  \/ Done

Spec == Init /\ [][Next]_vars

\* The driver's loop takes control operations as long as there is one and
\* otherwise waits for a callback, and every callback eventually reports.
FairSpec ==
  /\ Spec
  /\ WF_vars(Control)
  /\ WF_vars(\E c \in DOMAIN calls : Report(c))
=============================================================================
