-------------------------------- MODULE View --------------------------------
(***************************************************************************)
(* The state of an execution and the queries on it, after machine-view.ts  *)
(* and the key functions of identity.ts.                                   *)
(*                                                                         *)
(* Every table of the state is a function from keys to the fields that     *)
(* change.  A key is the provenance of its entry, a record: the code       *)
(* encodes the same parts in a string.  The fields of an entry that never  *)
(* change (owner, policy, timeout, input...) are read off its key and the  *)
(* definition.  A payload is opaque; the value of an aggregate is the set  *)
(* of the elements it collects.                                            *)
(***************************************************************************)
EXTENDS Definition

VARIABLES
  main,         \* the main workflow of the definition being executed
  status,       \* of the execution, see Statuses
  started,      \* the start operation was accepted
  cancelled,    \* a cancel operation was accepted
  runs,         \* path -> [workflow, complete]
  invocations,  \* invocation -> [status, arm]
  calls,        \* call -> [status, yields]
  executions,   \* invocation of a concurrency -> [tasks: name -> status, complete]
  results,      \* result -> [arm, list]
  taskResults,  \* result of a task -> state of its output transform
  deliveries,   \* delivery -> outcome of the transform
  settled,      \* [run, placement] -> [outcome, arms]
  failures      \* the sequence of recorded failures

vars == <<main, status, started, cancelled, runs, invocations, calls, executions,
          results, taskResults, deliveries, settled, failures>>

-----------------------------------------------------------------------------
(* Keys *)

Root == <<>>

\* trigger: <<>>, or the label of the result that triggers the invocation.
InvocationKey(path, name, trigger) == [run |-> path, placement |-> name, trigger |-> trigger]
CallKey(owner, task) == [owner |-> owner, task |-> task]
\* A label names a result inside its run; index counts the elements of a
\* call from 0.
Label(kind, owner, task, index) ==
  [kind |-> kind, placement |-> owner.placement, trigger |-> owner.trigger, task |-> task, index |-> index]
ResultKey(path, label) == [run |-> path, label |-> label]
CallResult(call, index) ==
  ResultKey(call.owner.run, Label("result", call.owner, call.task, index))
TaskOutputResult(r) == ResultKey(r.execution.run, Label("output", r.execution, r.task, r.index))
ListResult(execution) == ResultKey(execution.run, Label("list", execution, None, 0))
Returned(invocation) == ResultKey(invocation.run, Label("return", invocation, None, 0))
AggregateResult(path, name) ==
  ResultKey(path, Label("aggregate", InvocationKey(path, name, <<>>), None, 0))
TaskResultKey(execution, task, index) == [execution |-> execution, task |-> task, index |-> index]
DeliveryKey(path, i, source) == [run |-> path, connection |-> i, source |-> source]
SettledKey(path, name) == [run |-> path, placement |-> name]

\* The run of the workflow that an invocation, or a task of it, calls.
Child(owner, task) ==
  Append(owner.run, [placement |-> owner.placement, trigger |-> owner.trigger, task |-> task])
RunOwner(path) ==
  LET frame == path[Len(path)]
  IN  InvocationKey(SubSeq(path, 1, Len(path) - 1), frame.placement, frame.trigger)
RunTask(path) == path[Len(path)].task

-----------------------------------------------------------------------------
(* Lookups *)

Statuses == {"running", "stopping", "succeeded", "failed", "cancelled", "skipped"}
Terminal == Statuses \ {"running", "stopping"}
Live == {"running", "fetching"}
CallEnded(s) == s \notin Live \cup {"cancelling"}

WorkflowOf(path) == WorkflowTable[runs[path].workflow]
KindOf(path, name) == Kinds[runs[path].workflow][name]
PlacementOf(path, name) == Node(WorkflowOf(path), name)
ConcurrencyOf(execution) == PlacementOf(execution.run, execution.placement)
TaskSpec(execution, task) == ConcurrencyOf(execution).tasks[task]
\* The node or task a call runs: its function or judge, policy and timeouts.
BodyOf(call) ==
  LET node == PlacementOf(call.owner.run, call.owner.placement)
  IN  IF call.task = None THEN node ELSE node.tasks[call.task].body
SpecOf(call) ==
  LET node == PlacementOf(call.owner.run, call.owner.placement)
  IN  IF call.task = None THEN node ELSE node.tasks[call.task]
IsStream(call) == BodyOf(call).type = "function" /\ FunctionTable[BodyOf(call).function].stream

InvocationsOf(path, name) == {i \in DOMAIN invocations : i.run = path /\ i.placement = name}
ResultsOf(path, name) == {r \in DOMAIN results : r.run = path /\ r.label.placement = name}
IsSettled(path, name) == SettledKey(path, name) \in DOMAIN settled
AllSettled(path) == \A name \in Placements(WorkflowOf(path)) : IsSettled(path, name)
IsDelivered(path, i, source) == DeliveryKey(path, i, source) \in DOMAIN deliveries
DeliveriesOn(path, i) == {d \in DOMAIN deliveries : d.run = path /\ d.connection = i}

-----------------------------------------------------------------------------
(* What has ended *)

InvocationEnded(invocation) ==
  /\ invocations[invocation].status # "active"
  /\ CallKey(invocation, None) \in DOMAIN calls => CallEnded(calls[CallKey(invocation, None)].status)
  /\ Child(invocation, None) \in DOMAIN runs => runs[Child(invocation, None)].complete
  /\ invocation \in DOMAIN executions => executions[invocation].complete

\* A mutation of HoldsSlot: a call being cancelled no longer counts.
HoldsSlotWhileActive(execution, task) == executions[execution].tasks[task] = "active"

HoldsSlot(execution, task) ==
  \/ executions[execution].tasks[task] = "active"
  \/ /\ CallKey(execution, task) \in DOMAIN calls
     /\ calls[CallKey(execution, task)].status = "cancelling"

SlotsHeld(execution) ==
  Cardinality({task \in DOMAIN executions[execution].tasks : HoldsSlot(execution, task)})

\* A mutation of TaskEnded: a task that failed has ended, whatever its call does.
TaskEndedByStatus(execution, task) ==
  executions[execution].tasks[task] \notin {"pending", "ready", "active"}

TaskEnded(execution, task) ==
  /\ executions[execution].tasks[task] \notin {"pending", "ready", "active"}
  /\ ~HoldsSlot(execution, task)
  /\ Child(execution, task) \in DOMAIN runs => runs[Child(execution, task)].complete

-----------------------------------------------------------------------------
(* Inputs of a placement *)

\* The results that a connection carries.
Eligible(path, c) == {r \in ResultsOf(path, c.source) : c.arm = None \/ results[r].arm = c.arm}

\* A mutation of ArmOutcome: the arms of a branch are not told apart.
ArmOutcomeOfPlacement(s, arm) == s.outcome

ArmOutcome(s, arm) == IF arm \in DOMAIN s.arms THEN s.arms[arm] ELSE s.outcome

\* How a placement gets its input: not at all, from the workflow's caller,
\* by the connection `index` from a Single or a Stream placement, or, for a
\* merge, by all of its connections.
Shape(path, name) ==
  LET w        == WorkflowOf(path)
      incoming == Incoming(w, name)
      only     == CHOOSE i \in incoming : TRUE
  IN  CASE Node(w, name).type = "merge" -> [kind |-> "merge", index |-> 0]
        [] Node(w, name).type # "merge" /\ w.entry = name -> [kind |-> "entry", index |-> 0]
        [] Node(w, name).type # "merge" /\ w.entry # name /\ incoming = {} -> [kind |-> "none", index |-> 0]
        [] OTHER -> [kind |-> KindOf(path, Edge(w, only).source), index |-> only]

\* What a connection from a Single placement has brought.
ResolveSingle(path, i) ==
  LET c      == Edge(WorkflowOf(path), i)
      found  == DeliveriesOn(path, i)
      first  == CHOOSE d \in found : TRUE
      source == SettledKey(path, c.source)
      unresolved(kind) == [kind |-> kind, trigger |-> <<>>]
  IN  CASE found # {} /\ deliveries[first] = "failed" -> unresolved("transformFailed")
        [] found # {} /\ deliveries[first] # "failed" -> [kind |-> "value", trigger |-> <<first.source>>]
        [] found = {} /\ source \notin DOMAIN settled -> unresolved("pending")
        [] found = {} /\ source \in DOMAIN settled ->
             unresolved(CASE ArmOutcome(settled[source], c.arm) = "normal"  -> "pending"
                          [] ArmOutcome(settled[source], c.arm) = "skipped" -> "skipped"
                          [] OTHER                                          -> "failure")

\* A mutation of StreamEnded: the stream ends as soon as its source settles.
StreamEndedAtSource(path, i) == IsSettled(path, Edge(WorkflowOf(path), i).source)

\* A connection from a Stream placement has brought everything it will.
StreamEnded(path, i) ==
  LET c == Edge(WorkflowOf(path), i)
  IN  /\ IsSettled(path, c.source)
      /\ \A r \in Eligible(path, c) : IsDelivered(path, i, r.label)

StreamOutcome(path, i) ==
  LET c == Edge(WorkflowOf(path), i)
  IN  ArmOutcome(settled[SettledKey(path, c.source)], c.arm)

\* The triggers for which a placement may be invoked.
Triggers(path, name) ==
  LET shape == Shape(path, name)
  IN  CASE shape.kind \in {"none", "entry"} -> {<<>>}
        [] shape.kind = "single" ->
             {r.trigger : r \in {x \in {ResolveSingle(path, shape.index)} : x.kind = "value"}}
        [] shape.kind = "stream" ->
             {<<d.source>> : d \in {x \in DeliveriesOn(path, shape.index) : deliveries[x] # "failed"}}
        [] OTHER -> {}

-----------------------------------------------------------------------------
(* Settlement: the outcome of a placement all of whose work has ended.     *)
(* Each operator is the set of settlements that are due, {} or one: an     *)
(* outcome, the outcome of each arm, and the elements of an aggregate as a *)
(* sequence of at most one set.                                            *)

Settle1(outcome) == {[outcome |-> outcome, arms |-> <<>>, list |-> <<>>]}
SettleArms(outcome, arms) == {[outcome |-> outcome, arms |-> arms, list |-> <<>>]}
Aggregate(members) == {[outcome |-> "normal", arms |-> <<>>, list |-> <<members>>]}

\* A mutation of InvocationOutcome: the status is passed through.
InvocationOutcomeRaw(kind, s) == IF kind = "stream" THEN "normal" ELSE s

InvocationOutcome(kind, s) ==
  CASE s = "succeeded" -> "normal"
    [] s = "skipped" -> "skipped"
    [] s = "upstreamFailed" -> IF kind = "stream" THEN "normal" ELSE "upstreamFailed"
    [] OTHER -> IF kind = "stream" THEN "normal" ELSE "failed"

\* A mutation of MissingOutcome: a placement without input counts as skipped.
MissingOutcomeSkipped(kind, reason) == "skipped"

MissingOutcome(kind, reason) ==
  IF kind = "stream" /\ reason # "skipped" THEN "normal" ELSE reason

\* Every delivery on connection i that carries something was invoked.
Triggered(path, name, i) ==
  \A d \in DeliveriesOn(path, i) :
    deliveries[d] = "failed" \/ InvocationKey(path, name, <<d.source>>) \in DOMAIN invocations

NoOwnFailure(path, name, i) ==
  /\ \A d \in DeliveriesOn(path, i) : deliveries[d] # "failed"
  /\ \A k \in InvocationsOf(path, name) : invocations[k].status \notin {"failed", "cancelled"}

\* A mutation of WaitStreamSettlement: failed deliveries are collected too.
WaitStreamCollectsFailed(path, i) ==
  IF ~StreamEnded(path, i) THEN {}
  ELSE IF StreamOutcome(path, i) = "skipped" THEN Settle1("skipped")
  ELSE Aggregate({d.source : d \in DeliveriesOn(path, i)})

WaitStreamSettlement(path, i) ==
  LET values == {d \in DeliveriesOn(path, i) : deliveries[d] = "value"}
  IN  IF ~StreamEnded(path, i) THEN {}
      ELSE IF StreamOutcome(path, i) = "skipped" THEN Settle1("skipped")
      ELSE Aggregate({d.source : d \in values})

MergeSettlement(path, name) ==
  LET merged == {ResolveSingle(path, i) : i \in Incoming(WorkflowOf(path), name)}
      values == {r \in merged : r.kind = "value"}
  IN  IF \E r \in merged : r.kind = "pending" THEN {}
      ELSE IF \A r \in merged : r.kind = "skipped" THEN Settle1("skipped")
      ELSE Aggregate({r.trigger[1] : r \in values})

BranchSettlement(path, name, shape) ==
  LET arms == PlacementOf(path, name).arms
      every(outcome) == SettleArms(outcome, [arm \in arms |-> outcome])
      by(trigger) ==
        LET key == InvocationKey(path, name, trigger)
            inv == invocations[key]
        IN  CASE key \notin DOMAIN invocations -> {}
              [] key \in DOMAIN invocations /\ inv.status = "succeeded" ->
                   SettleArms("normal", [arm \in arms |-> IF inv.arm = arm THEN "normal" ELSE "skipped"])
              [] key \in DOMAIN invocations /\ inv.status \in {"skipped", "upstreamFailed"} -> every(inv.status)
              [] OTHER -> every("failed")
      input  == ResolveSingle(path, shape.index)
      chosen == {results[r].arm : r \in ResultsOf(path, name)}
      untaken(arm) == chosen # {} /\ arm \notin chosen /\ NoOwnFailure(path, name, shape.index)
  IN  CASE shape.kind = "entry" -> by(<<>>)
        [] shape.kind = "single" ->
            (CASE input.kind = "pending"         -> {}
               [] input.kind = "value"           -> by(input.trigger)
               [] input.kind = "transformFailed" -> every("failed")
               [] input.kind = "skipped"         -> every("skipped")
               [] input.kind = "failure"         -> every("upstreamFailed"))
        [] shape.kind = "stream" ->
             IF ~(StreamEnded(path, shape.index) /\ Triggered(path, name, shape.index)) THEN {}
             ELSE IF StreamOutcome(path, shape.index) = "skipped" THEN every("skipped")
             ELSE SettleArms("normal", [arm \in arms |-> IF untaken(arm) THEN "skipped" ELSE "normal"])
        [] OTHER -> {}

WorkSettlement(path, name, shape) ==
  LET kind == KindOf(path, name)
      by(trigger) ==
        {[outcome |-> InvocationOutcome(kind, invocations[k].status), arms |-> <<>>, list |-> <<>>] :
           k \in {InvocationKey(path, name, trigger)} \cap DOMAIN invocations}
      input == ResolveSingle(path, shape.index)
      own   == InvocationsOf(path, name)
      skips == /\ own # {}
               /\ \A k \in own : invocations[k].status = "skipped"
               /\ NoOwnFailure(path, name, shape.index)
  IN  CASE shape.kind \in {"none", "entry"} -> by(<<>>)
        [] shape.kind = "single" ->
            (CASE input.kind = "pending"         -> {}
               [] input.kind = "value"           -> by(input.trigger)
               [] input.kind = "transformFailed" -> Settle1(MissingOutcome(kind, "failed"))
               [] input.kind = "skipped"         -> Settle1("skipped")
               [] input.kind = "failure"         -> Settle1(MissingOutcome(kind, "upstreamFailed")))
        [] shape.kind = "stream" ->
             IF ~(StreamEnded(path, shape.index) /\ Triggered(path, name, shape.index)) THEN {}
             ELSE Settle1(IF StreamOutcome(path, shape.index) = "skipped" \/ skips THEN "skipped" ELSE "normal")
        [] OTHER -> {}

SettleOutcome(path, name) ==
  LET type  == PlacementOf(path, name).type
      shape == Shape(path, name)
  IN  IF \E k \in InvocationsOf(path, name) : ~InvocationEnded(k) THEN {}
      ELSE CASE type = "waitStream" -> WaitStreamSettlement(path, shape.index)
             [] type = "merge" -> MergeSettlement(path, name)
             [] type = "branch" -> BranchSettlement(path, name, shape)
             [] OTHER -> WorkSettlement(path, name, shape)

\* The placement of a called workflow whose result is the call's result.
DesignatedOutput(path) ==
  LET owner == RunOwner(path)
      node  == PlacementOf(owner.run, owner.placement)
  IN  IF RunTask(path) = None THEN node.output ELSE node.tasks[RunTask(path)].body.output
=============================================================================
