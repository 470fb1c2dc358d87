------------------------- MODULE MachineProperties --------------------------
(***************************************************************************)
(* What an execution promises: properties of Machine, checked by MCMachine *)
(* on small definitions and proved, some of them, in MachineProofs.        *)
(***************************************************************************)
EXTENDS Machine

CallStatuses == Live \cup {"cancelling", "returned", "failed", "lost", "cancelled"}
InvocationStatuses == {"active", "succeeded", "skipped", "failed", "upstreamFailed", "cancelled"}
TaskStatuses == InvocationStatuses \cup {"pending", "ready", "notStarted"}
Outcomes == {"normal", "skipped", "failed", "upstreamFailed"}

\* The tables of invocations, calls and executions.  The arm of an invocation
\* may be any name; a concurrency has some tasks, OwnersExist says which.
InvocationsOK(table) ==
  \A k \in DOMAIN table : table[k] \in [status: InvocationStatuses, arm: {table[k].arm}]
CallsOK(table) ==
  \A c \in DOMAIN table : table[c] \in [status: CallStatuses, yields: Nat]
ExecutionsOK(table) ==
  \A e \in DOMAIN table :
    table[e] \in [tasks: [DOMAIN table[e].tasks -> TaskStatuses], complete: BOOLEAN]

IsSequence(s) == s \in Seq({s[n] : n \in DOMAIN s})

\* Every field of the state holds a value of its type in model-types.ts.
TypeOK ==
  /\ main \in DOMAIN WorkflowTable
  /\ status \in Statuses
  /\ started \in BOOLEAN
  /\ cancelled \in BOOLEAN
  /\ \A path \in DOMAIN runs :
       /\ IsSequence(path)
       /\ runs[path] \in [workflow: DOMAIN WorkflowTable, complete: BOOLEAN]
  /\ InvocationsOK(invocations)
  /\ CallsOK(calls)
  /\ ExecutionsOK(executions)
  /\ \A r \in DOMAIN taskResults : taskResults[r] \in {"pending", "value", "failed"}
  /\ \A d \in DOMAIN deliveries : deliveries[d] \in {"value", "trigger", "failed"}
  /\ \A s \in DOMAIN settled : settled[s].outcome \in Outcomes
  /\ IsSequence(failures)
  /\ \A n \in DOMAIN failures : failures[n].cause \in {"error", "timeout", "lost", "transform"}

-----------------------------------------------------------------------------
(* Owners *)

\* What owns a call or a called workflow: an invocation of a placement, or a
\* task of a concurrency.
OwnerExists(owner, task) ==
  /\ owner \in DOMAIN invocations
  /\ task # None => owner \in DOMAIN executions /\ task \in DOMAIN executions[owner].tasks

InvocationOwned(k) ==
  /\ k = InvocationKey(k.run, k.placement, k.trigger)
  /\ k.run \in DOMAIN runs
  /\ k.placement \in Placements(WorkflowOf(k.run))
ExecutionOwned(e) ==
  /\ e \in DOMAIN invocations
  /\ ConcurrencyOf(e).type = "concurrency"
  /\ DOMAIN executions[e].tasks = DOMAIN ConcurrencyOf(e).tasks
CallOwned(c) ==
  /\ c = CallKey(c.owner, c.task)
  /\ OwnerExists(c.owner, c.task)
  /\ BodyOf(c).type \in (IF c.task = None THEN {"function", "branch"} ELSE {"function"})
RunOwned(path) ==
  LET call == CallKey(RunOwner(path), RunTask(path))
  IN  /\ path = Child(call.owner, call.task)
      /\ OwnerExists(call.owner, call.task)
      /\ BodyOf(call).type = "subworkflow"
      /\ BodyOf(call).workflow = runs[path].workflow

\* Looking up the owner of anything never fails (the code would reject the
\* operation with an UNKNOWN code, at a callback's report for good), and
\* what is looked up is of the right kind: a called workflow runs exactly the
\* workflow that its caller's node or task names.
OwnersExist ==
  /\ started <=> Root \in DOMAIN runs
  /\ \A k \in DOMAIN invocations : InvocationOwned(k)
  /\ \A e \in DOMAIN executions : ExecutionOwned(e)
  /\ \A c \in DOMAIN calls : CallOwned(c)
  /\ \A path \in DOMAIN runs \ {Root} : RunOwned(path)

-----------------------------------------------------------------------------
(* Limits *)

\* Tasks that are occupying the concurrency: their call has not ended,
\* perhaps because user code still runs after a timeout, or the workflow
\* they call has not.
Occupied(execution) ==
  {t \in DOMAIN executions[execution].tasks :
    \/ /\ CallKey(execution, t) \in DOMAIN calls
       /\ ~CallEnded(calls[CallKey(execution, t)].status)
    \/ /\ Child(execution, t) \in DOMAIN runs
       /\ ~runs[Child(execution, t)].complete}

\* A concurrency never has more tasks in flight than its limit, although the
\* slots it counts (slotsHeld) look at the status of a task and at calls
\* being cancelled only.
SlotLimit ==
  \A e \in DOMAIN executions : Cardinality(Occupied(e)) <= ConcurrencyOf(e).limit

-----------------------------------------------------------------------------
(* Results and the calls they come from *)

\* The indices of the results that were accepted from a call.
Accepted(call) ==
  IF call.task = None
  THEN {n \in 0..MaxYields : CallResult(call, n) \in DOMAIN results}
  ELSE {n \in 0..MaxYields : TaskResultKey(call.owner, call.task, n) \in DOMAIN taskResults}

\* The results of a Stream call are numbered without gaps by the elements it
\* yielded, and any other call has one result exactly if it returned: a late
\* answer of a call that timed out, was lost or was cancelled leaves none.
ResultsMatchCalls ==
  \A c \in DOMAIN calls :
    Accepted(c) = IF IsStream(c) THEN 0..(calls[c].yields - 1)
                  ELSE IF calls[c].status = "returned" THEN {0} ELSE {}

\* The value of waitStream and merge collects exactly the values delivered
\* to it, and that of a list concurrency the transformed results of its
\* output tasks: nothing that arrives is left out, then or later.
ListsExact ==
  \A r \in DOMAIN results :
    LET name == r.label.placement
        owner == InvocationKey(r.run, name, r.label.trigger)
    IN  CASE r.label.kind = "aggregate" ->
               results[r].list = {d.source : d \in {x \in DOMAIN deliveries :
                 /\ x.run = r.run
                 /\ x.connection \in Incoming(WorkflowOf(r.run), name)
                 /\ deliveries[x] = "value"}}
          [] r.label.kind = "list" ->
               results[r].list = {TaskOutputResult(t).label : t \in {x \in DOMAIN taskResults :
                 x.execution = owner /\ taskResults[x] = "value"}}
          [] OTHER -> TRUE

\* A placement or arm that settles normally and is Single has one result; one
\* that settles otherwise has none.  This is why closeRun never misses the
\* result of a designated output.
OutcomesMatchResults ==
  \A s \in DOMAIN settled :
    LET all  == ResultsOf(s.run, s.placement)
        one  == KindOf(s.run, s.placement) = "single"
        of(arm) == {r \in all : results[r].arm = arm}
    IN  /\ settled[s].outcome = "normal" => (one => Cardinality(all) = 1)
        /\ settled[s].outcome # "normal" => all = {}
        /\ \A arm \in DOMAIN settled[s].arms :
             /\ settled[s].arms[arm] = "normal" => (one => Cardinality(of(arm)) = 1)
             /\ settled[s].arms[arm] # "normal" => of(arm) = {}

-----------------------------------------------------------------------------
(* End of input *)

\* Settling a placement closes it: it gets no delivery, invocation or result
\* any more, and no invocation of it changes.
SettledFinal ==
  [][\A s \in DOMAIN settled :
       /\ settled'[s] = settled[s]
       /\ ResultsOf(s.run, s.placement)' = ResultsOf(s.run, s.placement)
       /\ InvocationsOf(s.run, s.placement)' = InvocationsOf(s.run, s.placement)
       /\ \A k \in InvocationsOf(s.run, s.placement) : invocations'[k] = invocations[k]
       /\ \A i \in Incoming(WorkflowOf(s.run), s.placement) :
            DeliveriesOn(s.run, i)' = DeliveriesOn(s.run, i)]_vars

\* When a run completes every result was delivered on every connection that
\* carries it, and every delivery invoked its target or is in its aggregate.
AllConsumed ==
  \A path \in {p \in DOMAIN runs : runs[p].complete} :
    \A i \in Edges(WorkflowOf(path)) :
      LET c == Edge(WorkflowOf(path), i)
      IN  /\ \A r \in Eligible(path, c) : IsDelivered(path, i, r.label)
          /\ \A d \in DeliveriesOn(path, i) :
               deliveries[d] # "failed" =>
                 IF PlacementOf(path, c.target).type \in {"waitStream", "merge"}
                 THEN d.source \in results[AggregateResult(path, c.target)].list
                 ELSE InvocationKey(path, c.target, <<d.source>>) \in DOMAIN invocations

\* The run at path, or one called from inside it.
Within(path, outer) == Len(path) >= Len(outer) /\ SubSeq(path, 1, Len(outer)) = outer

\* A run that is complete has nothing in flight, at any depth of calls.
CompleteRunsQuiet ==
  \A path \in {p \in DOMAIN runs : runs[p].complete} :
    /\ \A p \in DOMAIN runs : Within(p, path) => runs[p].complete
    /\ \A c \in DOMAIN calls : Within(c.owner.run, path) => CallEnded(calls[c].status)
    /\ \A k \in DOMAIN invocations : Within(k.run, path) => invocations[k].status # "active"
    /\ \A e \in DOMAIN executions : Within(e.run, path) => executions[e].complete

\* A run only completes once nothing in it or below it can still happen.
CompleteRunsDone == AllConsumed /\ CompleteRunsQuiet

-----------------------------------------------------------------------------
(* Failures *)

FailedCalls ==
  {c \in DOMAIN calls :
    \/ calls[c].status \in {"failed", "lost"}
    \/ calls[c].status \in {"cancelling", "cancelled"} /\ OwnerStatus(c) = "failed"}
FailedDeliveries == {d \in DOMAIN deliveries : deliveries[d] = "failed"}
FailedOutputs == {r \in DOMAIN taskResults : taskResults[r] = "failed"}
FailedInputs(execution) ==
  {t \in DOMAIN executions[execution].tasks :
    /\ executions[execution].tasks[t] = "failed"
    /\ CallKey(execution, t) \notin DOMAIN calls
    /\ Child(execution, t) \notin DOMAIN runs}

\* Every failure is recorded exactly once, where it happened: a call that
\* timed out is not counted again when its user code ends or is lost, and
\* what is cancelled because of a stop is not counted at all.
FailuresRecordedOnce ==
  LET recorded(owner, task) ==
        \E n \in DOMAIN failures : \E cause \in {"error", "timeout", "lost", "transform"} :
          failures[n] = FailureAt(owner, task, cause)
      inputs == UNION {{CallKey(e, t) : t \in FailedInputs(e)} : e \in DOMAIN executions}
  IN  /\ Len(failures) = Cardinality(FailedCalls) + Cardinality(FailedDeliveries)
                         + Cardinality(FailedOutputs) + Cardinality(inputs)
      /\ \A c \in FailedCalls \cup inputs : recorded(c.owner, c.task)
      /\ \A d \in FailedDeliveries :
           recorded(SettledKey(d.run, Edge(WorkflowOf(d.run), d.connection).target), None)
      /\ \A r \in FailedOutputs : recorded(r.execution, r.task)

\* A placement is skipped only if nothing of its own failed, and if it failed
\* there is a failure at it or inside what it calls; if it lacks input because
\* of a failure, that failure is at a placement it depends on.
OutcomesHaveCauses ==
  \A s \in DOMAIN settled :
    LET own    == \E n \in DOMAIN failures :
                    failures[n].run = s.run /\ failures[n].placement = s.placement /\ failures[n].task = None
        callees == {Child(k, None) : k \in InvocationsOf(s.run, s.placement)}
        inside == \E p \in callees : \E n \in DOMAIN failures : Within(failures[n].run, p)
        above  == \E i \in Incoming(WorkflowOf(s.run), s.placement) :
                    LET source == SettledKey(s.run, Edge(WorkflowOf(s.run), i).source)
                    IN  source \in DOMAIN settled /\ settled[source].outcome \in {"failed", "upstreamFailed"}
    IN  /\ settled[s].outcome = "skipped" => ~own
        /\ settled[s].outcome = "failed" => own \/ inside
        /\ settled[s].outcome = "upstreamFailed" => above \/ inside

PolicyAt(failure) ==
  LET node == PlacementOf(failure.run, failure.placement)
  IN  IF failure.task = None THEN node.policy ELSE node.tasks[failure.task].policy

\* An execution stops exactly if it is cancelled or something with the stop
\* policy failed, and the status it ends with is what its parts did.
StatusSound ==
  LET stopper == \E n \in DOMAIN failures : PolicyAt(failures[n]) = "stop"
      ended == status \in {"succeeded", "skipped"}
  IN  /\ status \in {"running", "succeeded", "skipped"} => ~cancelled /\ ~stopper
      /\ status \in {"stopping", "cancelled"} => cancelled \/ stopper
      /\ status = "failed" => failures # <<>>
      /\ status \in {"succeeded", "skipped", "cancelled"} => failures = <<>>
      /\ ended => /\ \A c \in DOMAIN calls : calls[c].status = "returned"
                  /\ \A k \in DOMAIN invocations : invocations[k].status \in {"succeeded", "skipped"}
                  /\ \A s \in DOMAIN settled : settled[s].outcome \in {"normal", "skipped"}
      /\ status = "skipped" => \A name \in Endpoints(WorkflowOf(Root)) : ResultsOf(Root, name) = {}
      /\ status \in Terminal => /\ \A c \in DOMAIN calls : CallEnded(calls[c].status)
                                /\ \A k \in DOMAIN invocations : invocations[k].status # "active"

\* What a placement settles with, and what the execution ends with, is what
\* the results and failures say: its own, those before it and those inside it.
OutcomesSound == OutcomesMatchResults /\ OutcomesHaveCauses /\ StatusSound

\* A step of an execution that is stopping or has ended.
StoppedStep ==
  status # "running" =>
    /\ UNCHANGED <<runs, results, taskResults, deliveries, settled, failures>>
    /\ DOMAIN invocations' = DOMAIN invocations
    /\ DOMAIN executions' = DOMAIN executions
    /\ DOMAIN calls' = DOMAIN calls
    /\ \A c \in DOMAIN calls : CallEnded(calls[c].status) => calls'[c] = calls[c]
    /\ status' # "running"

\* Once an execution is stopping nothing new is started, accepted, delivered,
\* settled or recorded as a failure, and no call is revived.
NothingAfterStop == [][StoppedStep]_vars

-----------------------------------------------------------------------------
(* What the driver sees *)

\* The table of calls without the workflow: of each whether it is a Stream,
\* its status and its elements.
CallsView ==
  [c \in DOMAIN calls |->
    [stream |-> IsStream(c), status |-> calls[c].status, yields |-> calls[c].yields]]

-----------------------------------------------------------------------------
(* Progress *)

\* Every execution ends: no wait of one part for another is circular, and
\* every end of input arrives.  (That the driver never finds itself without a
\* control operation to take and without a callback to wait for, where it
\* would throw StuckError, is that Machine has no deadlock.)
Termination == <>(status \in Terminal)
=============================================================================
