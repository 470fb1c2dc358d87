-------------------------------- MODULE Kit ---------------------------------
(***************************************************************************)
(* What the UI kit reads off the state of an execution and its records     *)
(* (ui-kit/src/lib: status.ts, runtime-index.ts, records.ts, values.ts).   *)
(* The kit is given the state as JSON and looks everything up by           *)
(* identifier; here, by the keys of the tables.  The tables have no        *)
(* order, so the ordinals of runs and the order of lists are left out.     *)
(***************************************************************************)
EXTENDS Machine

CONSTANTS KitRuns, KitDepth, KitSegments  \* RUNTIME_LIMITS

ASSUME KitAssumption == KitRuns \in Nat /\ KitDepth \in Nat /\ KitSegments \in Nat

-----------------------------------------------------------------------------
(* The tree of runs *)

\* A mutation of OwnerKnown: only an execution that is still open owns runs.
OwnerKnownOpen(path) ==
  IF RunTask(path) = None THEN RunOwner(path) \in DOMAIN invocations
  ELSE RunOwner(path) \in DOMAIN executions /\ ~executions[RunOwner(path)].complete

OwnerKnown(path) ==
  IF RunTask(path) = None
  THEN RunOwner(path) \in DOMAIN invocations
  ELSE /\ RunOwner(path) \in DOMAIN executions
       /\ RunTask(path) \in DOMAIN executions[RunOwner(path)].tasks

\* The runs at each depth below the root.
Levels ==
  LET level[n \in 0..KitDepth + 1] ==
        IF n = 0 THEN {Root} \cap DOMAIN runs
        ELSE {path \in DOMAIN runs \ {Root} : RunOwner(path).run \in level[n - 1]}
  IN  level

\* What runTree asks of a state, which it refuses otherwise: known owners,
\* executions that match their invocations, no cycle, and its own budgets.
TreeReads ==
  /\ Cardinality(DOMAIN runs) <= KitRuns
  /\ \A path \in DOMAIN runs : Len(path) <= KitSegments
  /\ \A k \in DOMAIN invocations : k.run \in DOMAIN runs
  /\ \A e \in DOMAIN executions : e \in DOMAIN invocations
  /\ \A path \in DOMAIN runs \ {Root} : OwnerKnown(path)
  /\ Levels[KitDepth + 1] = {}
  /\ UNION {Levels[n] : n \in 0..KitDepth} = DOMAIN runs

-----------------------------------------------------------------------------
(* The phase of a placement in one run *)

OwnedBy(owner, path, name) == owner.run = path /\ owner.placement = name

\* A mutation of RunningCalls: only a call that returned is over.
RunningCallsUnreturned(path, name) ==
  {c \in DOMAIN calls : OwnedBy(c.owner, path, name) /\ calls[c].status # "returned"}

RunningCalls(path, name) ==
  {c \in DOMAIN calls : OwnedBy(c.owner, path, name) /\ ~CallEnded(calls[c].status)}

Busy(path, name) ==
  \/ RunningCalls(path, name) # {}
  \/ \E k \in InvocationsOf(path, name) : invocations[k].status = "active"
  \/ \E e \in DOMAIN executions :
       /\ OwnedBy(e, path, name)
       /\ \/ ~executions[e].complete
          \/ \E t \in DOMAIN executions[e].tasks : executions[e].tasks[t] \in {"pending", "ready", "active"}
  \/ \E p \in DOMAIN runs \ {Root} : ~runs[p].complete /\ OwnedBy(RunOwner(p), path, name)

Phase(path, name) ==
  CASE IsSettled(path, name) -> "settled"
    [] ~IsSettled(path, name) /\ Busy(path, name) -> "active"
    [] ~IsSettled(path, name) /\ ~Busy(path, name) ->
         IF InvocationsOf(path, name) = {} THEN "idle" ELSE "waiting"

-----------------------------------------------------------------------------
(* Where a result came from, and what a list holds *)

\* The producer that the engine records with a result.
Producer(r) ==
  LET owner == InvocationKey(r.run, r.label.placement, r.label.trigger)
  IN  CASE r.label.kind = "result" -> CallKey(owner, r.label.task)
        [] r.label.kind = "aggregate" -> SettledKey(r.run, r.label.placement)
        [] OTHER -> owner

\* The first table that knows the producer.
ResultSource(r) ==
  IF Producer(r) \in DOMAIN calls THEN "call"
  ELSE IF Producer(r) \in DOMAIN executions THEN "execution"
  ELSE IF Producer(r) \in DOMAIN invocations THEN "invocation"
  ELSE "aggregate"

SourceInvocation(r) == IF Producer(r) \in DOMAIN calls THEN Producer(r).owner ELSE Producer(r)

\* The members of a list that the engine built, found without its payload.
\* The kit takes the first delivery of each connection of a merge.
Members(r) ==
  LET name == r.label.placement
      node == PlacementOf(r.run, name)
      delivered(i) == {d.source : d \in {x \in DeliveriesOn(r.run, i) : deliveries[x] = "value"}}
      first(found) == IF found = {} THEN {} ELSE {CHOOSE x \in found : TRUE}
      incoming == Incoming(WorkflowOf(r.run), name)
  IN  CASE node.type = "waitStream" -> UNION {delivered(i) : i \in incoming}
        [] node.type = "merge" -> UNION {first(delivered(i)) : i \in incoming}
        [] OTHER -> {TaskOutputResult(t).label : t \in {x \in DOMAIN taskResults :
             /\ x.execution = Producer(r)
             /\ node.tasks[x.task].included
             /\ taskResults[x] = "value"}}

IsList(r) ==
  LET node == PlacementOf(r.run, r.label.placement)
  IN  \/ node.type \in {"waitStream", "merge"}
      \/ node.type = "concurrency" /\ node.output = "list"

-----------------------------------------------------------------------------
(* Operations as the records hold them *)

CallOps ==
  [type : {"fetch", "ended", "failed", "lost", "terminated", "returned", "yielded"}, call : DOMAIN calls]
  \cup [type : {"timedOut"}, call : DOMAIN calls, element : BOOLEAN]
  \cup (UNION {[type : {"judged"}, call : {c}, arm : Arms(c)] : c \in DOMAIN calls})

TaskOps ==
  (UNION {[type : {"taskInput", "taskInputFailed", "beginTask"}, execution : {e}, task : DOMAIN executions[e].tasks] :
            e \in DOMAIN executions})
  \cup {[type |-> t, execution |-> r.execution, task |-> r.task, index |-> r.index] :
           t \in {"taskOutput", "taskOutputFailed"}, r \in DOMAIN taskResults}

RunOps ==
  (UNION {UNION {[type : {"invoke"}, run : {p}, placement : {n}, trigger : Triggers(p, n)] \cup
                 {[type |-> "settle", run |-> p, placement |-> n]} :
                   n \in Placements(WorkflowOf(p))} : p \in DOMAIN runs})
  \cup {[type |-> "closeRun", run |-> p] : p \in DOMAIN runs \ {Root}}
  \cup (UNION {[type : {"deliver", "transformFailed"}, run : {r.run}, connection : Edges(WorkflowOf(r.run)),
                source : {r.label}] : r \in DOMAIN results})

Ops ==
  CallOps \cup TaskOps \cup RunOps
  \cup {[type |-> "closeExecution", execution |-> e] : e \in DOMAIN executions}
  \cup {[type |-> t] : t \in {"start", "cancel", "conclude"}}

Does(op) ==
  CASE op.type = "start"            -> Start
    [] op.type = "invoke"           -> Invoke(op.run, op.placement, op.trigger)
    [] op.type = "fetch"            -> Fetch(op.call)
    [] op.type = "returned"         -> CallReturned(op.call)
    [] op.type = "judged"           -> Judged(op.call, op.arm)
    [] op.type = "yielded"          -> Yielded(op.call)
    [] op.type = "ended"            -> Ended(op.call)
    [] op.type = "failed"           -> CallFailed(op.call)
    [] op.type = "timedOut"         -> IF op.element THEN ElementTimedOut(op.call) ELSE CallTimedOut(op.call)
    [] op.type = "lost"             -> Lost(op.call)
    [] op.type = "terminated"       -> Terminated(op.call)
    [] op.type = "deliver"          -> Deliver(op.run, op.connection, op.source)
    [] op.type = "transformFailed"  -> TransformFailed(op.run, op.connection, op.source)
    [] op.type = "taskInput"        -> TaskInput(op.execution, op.task)
    [] op.type = "taskInputFailed"  -> TaskInputFailed(op.execution, op.task)
    [] op.type = "beginTask"        -> BeginTask(op.execution, op.task)
    [] op.type = "taskOutput"       -> TaskOutput(TaskResultKey(op.execution, op.task, op.index))
    [] op.type = "taskOutputFailed" -> TaskOutputFailed(TaskResultKey(op.execution, op.task, op.index))
    [] op.type = "settle"           -> Settle(op.run, op.placement)
    [] op.type = "closeExecution"   -> CloseExecution(op.execution)
    [] op.type = "closeRun"         -> CloseRun(op.run)
    [] op.type = "cancel"           -> Cancel
    [] op.type = "conclude"         -> ConcludeRunning \/ ConcludeStopping

-----------------------------------------------------------------------------
(* What an operation is about *)

About(run, placement, task) == [run |-> run, placement |-> placement, task |-> task]
Unrelated == About(Root, None, None)

\* A mutation of OwnerRelation: the task of a call is left out.
OwnerRelationWhole(owner, task) == About(owner.run, owner.placement, None)

OwnerRelation(owner, task) == About(owner.run, owner.placement, task)

Relation(op) ==
  CASE op.type = "start" -> About(Root, WorkflowTable[main].entry, None)
    [] op.type \in {"invoke", "settle"} -> About(op.run, op.placement, None)
    [] op.type \in {"deliver", "transformFailed"} ->
         About(op.run, Edge(WorkflowOf(op.run), op.connection).target, None)
    [] op.type \in {"taskInput", "taskInputFailed", "beginTask", "taskOutput", "taskOutputFailed"} ->
         IF op.execution \in DOMAIN executions THEN OwnerRelation(op.execution, op.task) ELSE Unrelated
    [] op.type = "closeExecution" ->
         IF op.execution \in DOMAIN executions THEN OwnerRelation(op.execution, None) ELSE Unrelated
    [] op.type = "closeRun" ->
         IF OwnerKnown(op.run) THEN OwnerRelation(RunOwner(op.run), RunTask(op.run)) ELSE Unrelated
    [] op.type \in {"cancel", "conclude"} -> Unrelated
    [] OTHER -> IF op.call \in DOMAIN calls THEN OwnerRelation(op.call.owner, op.call.task) ELSE Unrelated
=============================================================================
