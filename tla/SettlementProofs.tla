-------------------------- MODULE SettlementProofs --------------------------
(***************************************************************************)
(* Settlement: what is settled stays as it is (SettledFinal), its results  *)
(* are those that its outcome promises (OutcomesMatchResults), the lists   *)
(* that are passed on hold exactly what was collected (ListsExact), and a  *)
(* run that is complete has nothing left to do, at any depth of calls      *)
(* (CompleteRunsDone).                                                     *)
(*                                                                         *)
(* The invariant is IInv. Beside the types, the owners, the answers and    *)
(* Life it keeps Books: every entry of a table comes from where the code   *)
(* makes it (EntriesOwned), whatever succeeded has its result              *)
(* (EndsExplained), a placement with a Single output has one result at     *)
(* most (SinglesHaveOne), a placement that is settled got all the input it *)
(* can get and used all of it (Sealed), so that nothing is added to it,    *)
(* and a run that is complete is settled. Sealed is what makes it          *)
(* inductive: the end of input of a placement follows from the settlements *)
(* before it, which are final by the same invariant.                       *)
(*                                                                         *)
(* Failures and outcomes: what is recorded as a failure, what a placement  *)
(* settles with because of it, what the execution ends with                *)
(* (FailuresRecordedOnce, OutcomesSound), and what the driver sees of all  *)
(* this: the machine implements the specification of calls                 *)
(* (ImplementsCalls).                                                      *)
(*                                                                         *)
(* Every step records nothing and adds nothing that failed, or records one *)
(* failure and adds the one call, delivery, output or input of a task that *)
(* failed there (StepFails). So the failures are counted (FailureBooks),   *)
(* each is blamed on something that failed (Sources), and what a placement *)
(* settles with is caused by a failure of its own, of the workflow it      *)
(* calls or of a placement before it (WellCaused). While the execution     *)
(* runs only calls that failed are cancelled (Undisturbed): this is why an *)
(* execution without a failure in it ends with all its calls returned.     *)
(***************************************************************************)
EXTENDS MachineProofs, CallsRefinement

-----------------------------------------------------------------------------
(* Where every entry of the tables comes from *)

\* The invocation, and the result of a task, that a result is from.
InvocationOf(r) == InvocationKey(r.run, r.label.placement, r.label.trigger)
TaskResultOf(r) == TaskResultKey(InvocationOf(r), r.label.task, r.label.index)

\* A value of a call of the placement.
OfCall(r) ==
  /\ r.label.kind = "result"
  /\ r.label.task = None
  /\ r.label.index \in 0..MaxYields
  /\ r = CallResult(CallOf(r), r.label.index)
  /\ CallOf(r) \in DOMAIN calls
  /\ ConcurrencyOf(InvocationOf(r)).type = "branch" => results[r].arm = invocations[InvocationOf(r)].arm
\* A transformed result of a task, passed on at once.
OfTask(r) ==
  /\ r.label.kind = "output"
  /\ TaskResultOf(r) \in DOMAIN taskResults
  /\ taskResults[TaskResultOf(r)] = "value"
  /\ ConcurrencyOf(InvocationOf(r)).output # "list"
\* The list of a concurrency that is complete.
OfExecution(r) ==
  /\ r.label.kind = "list"
  /\ r = ListResult(InvocationOf(r))
  /\ InvocationOf(r) \in DOMAIN executions
  /\ executions[InvocationOf(r)].complete
  /\ invocations[InvocationOf(r)].status = "succeeded"
\* The value of a called workflow.
OfRun(r) ==
  /\ r.label.kind = "return"
  /\ r = Returned(InvocationOf(r))
  /\ InvocationOf(r) \in DOMAIN invocations
  /\ invocations[InvocationOf(r)].status = "succeeded"
  /\ Child(InvocationOf(r), None) \in DOMAIN runs
\* What a waitStream or a merge collected.
OfInputs(r) ==
  /\ r.label.kind = "aggregate"
  /\ r = AggregateResult(r.run, r.label.placement)
  /\ r.run \in DOMAIN runs
  /\ r.label.placement \in Placements(WorkflowOf(r.run))
  /\ PlacementOf(r.run, r.label.placement).type \in {"waitStream", "merge"}
  /\ IsSettled(r.run, r.label.placement)

ResultOwned(r) == OfCall(r) \/ OfTask(r) \/ OfExecution(r) \/ OfRun(r) \/ OfInputs(r)

TaskResultOwned(r) ==
  /\ r = TaskResultKey(r.execution, r.task, r.index)
  /\ r.execution \in DOMAIN executions
  /\ r.task \in DOMAIN executions[r.execution].tasks
  /\ taskResults[r] # "pending" => TaskSpec(r.execution, r.task).included
  /\ executions[r.execution].complete /\ TaskSpec(r.execution, r.task).included => taskResults[r] # "pending"
  /\ Child(r.execution, r.task) \in DOMAIN runs => executions[r.execution].tasks[r.task] = "succeeded"

DeliveryOwned(d) ==
  LET c == Edge(WorkflowOf(d.run), d.connection)
  IN  /\ d = DeliveryKey(d.run, d.connection, d.source)
      /\ d.run \in DOMAIN runs
      /\ d.connection \in Edges(WorkflowOf(d.run))
      /\ ResultKey(d.run, d.source) \in Eligible(d.run, c)
      /\ deliveries[d] \in (IF c.discard THEN {"trigger"} ELSE {"value", "failed"})

\* An invocation was triggered by a delivery that carries something, or by
\* nothing where there is none.
InvocationTriggered(k) ==
  LET shape == Shape(k.run, k.placement)
  IN  \/ shape.kind \in {"none", "entry"} /\ k.trigger = <<>>
      \/ /\ shape.kind \in {"single", "stream"}
         /\ \E d \in DeliveriesOn(k.run, shape.index) : deliveries[d] # "failed" /\ k.trigger = <<d.source>>

SettlementOwned(s) ==
  LET node == PlacementOf(s.run, s.placement)
  IN  /\ s = SettledKey(s.run, s.placement)
      /\ s.run \in DOMAIN runs
      /\ s.placement \in Placements(WorkflowOf(s.run))
      /\ DOMAIN settled[s].arms = IF node.type = "branch" THEN node.arms ELSE {}

EntriesOwned ==
  /\ \A r \in DOMAIN results : ResultOwned(r)
  /\ \A r \in DOMAIN taskResults : TaskResultOwned(r)
  /\ \A d \in DOMAIN deliveries : DeliveryOwned(d)
  /\ \A k \in DOMAIN invocations : InvocationTriggered(k)
  /\ \A s \in DOMAIN settled : SettlementOwned(s)

\* An invocation that succeeded has its result (those of calls are counted,
\* those of others are here), and a concurrency that was skipped has only
\* skipped tasks in its output.
HasResult(k) ==
  /\ ConcurrencyOf(k).type = "subworkflow" => Returned(k) \in DOMAIN results
  /\ ConcurrencyOf(k).type = "concurrency" /\ ConcurrencyOf(k).output = "list" => ListResult(k) \in DOMAIN results
AllSkipped(k) ==
  k \in DOMAIN executions =>
    \A t \in DOMAIN executions[k].tasks : TaskSpec(k, t).included => executions[k].tasks[t] = "skipped"
Explained(k) ==
  /\ invocations[k].status = "succeeded" => HasResult(k)
  /\ invocations[k].status = "skipped" => AllSkipped(k)
EndsExplained == \A k \in DOMAIN invocations : Explained(k)

CompleteIsSettled == \A p \in DOMAIN runs : runs[p].complete => AllSettled(p)

\* A Single placement has at most one result.
OneResult(path, name) == \A r1, r2 \in ResultsOf(path, name) : r1 = r2
SinglesHaveOne ==
  \A p \in DOMAIN runs : \A name \in Placements(WorkflowOf(p)) : KindOf(p, name) = "single" => OneResult(p, name)

\* Connection i has brought everything that its source has, and the source
\* will have no more.
Drained(path, i) ==
  LET c == Edge(WorkflowOf(path), i)
  IN  /\ \A r \in Eligible(path, c) : IsDelivered(path, i, r.label)
      /\ \/ IsSettled(path, c.source)
         \/ KindOf(path, c.source) = "single" /\ DeliveriesOn(path, i) # {}

Collecting == {"waitStream", "merge"}

\* Nothing of a placement is going on, and nothing more can begin.
Exhausted(path, name) ==
  /\ \A k \in InvocationsOf(path, name) : InvocationEnded(k)
  /\ \A i \in Incoming(WorkflowOf(path), name) : Drained(path, i)
  /\ PlacementOf(path, name).type \notin Collecting =>
       /\ \A i \in Incoming(WorkflowOf(path), name) : Triggered(path, name, i)
       /\ Incoming(WorkflowOf(path), name) = {} => InvocationKey(path, name, <<>>) \in DOMAIN invocations

\* What arrived at a placement that collects is in its aggregate.
CollectedAll(path, name) ==
  PlacementOf(path, name).type \in Collecting =>
    \/ AggregateResult(path, name) \in DOMAIN results
    \/ \A i \in Incoming(WorkflowOf(path), name) : DeliveriesOn(path, i) = {}

Sealed == \A s \in DOMAIN settled : Exhausted(s.run, s.placement) /\ CollectedAll(s.run, s.placement)

-----------------------------------------------------------------------------
(* How a placement gets its input *)

\* The workflow of a run is valid and has the kinds derived for it.
LEMMA RunsAreValid ==
  ASSUME TypeOK, NEW path \in DOMAIN runs
  PROVE  LET id == runs[path].workflow
         IN  /\ id \in DOMAIN WorkflowTable
             /\ WorkflowOf(path) = WorkflowTable[id]
             /\ \A name : KindOf(path, name) = Kinds[id][name] /\ PlacementOf(path, name) = Node(WorkflowTable[id], name)
BY DEF TypeOK, WorkflowOf, KindOf, PlacementOf

\* What a placement may be, and how it gets its input.
LEMMA ShapesAre ==
  ASSUME TypeOK, NEW path \in DOMAIN runs, NEW name \in Placements(WorkflowOf(path))
  PROVE  LET type == PlacementOf(path, name).type
             kind == KindOf(path, name)
             incoming == Incoming(WorkflowOf(path), name)
             shape == Shape(path, name)
         IN  /\ type \in NodeTypes /\ kind \in {"single", "stream"}
             /\ type = "merge" => /\ shape.kind = "merge"
                                  /\ \A i \in incoming : KindOf(path, Edge(WorkflowOf(path), i).source) = "single"
             /\ type # "merge" /\ incoming = {} => shape.kind \in {"none", "entry"}
             /\ type # "merge" /\ incoming # {} =>
                  /\ incoming = {shape.index}
                  /\ shape.kind = KindOf(path, Edge(WorkflowOf(path), shape.index).source)
                  /\ shape.kind \in {"single", "stream"}
             /\ type = "waitStream" => incoming # {} /\ shape.kind = "stream"
             /\ type = "branch" => shape.kind # "none" /\ (shape.kind = "stream" <=> kind = "stream")
             /\ kind = "single" /\ type \notin Collecting => shape.kind # "stream"
             /\ \A i \in Edges(WorkflowOf(path)) : Edge(WorkflowOf(path), i).source \in Placements(WorkflowOf(path))
<1> DEFINE id == runs[path].workflow
           w == WorkflowTable[id]
           type == PlacementOf(path, name).type
           kind == KindOf(path, name)
           incoming == Incoming(w, name)
           shape == Shape(path, name)
           input == InputKind(w, name, Kinds[id])
<1>1. /\ id \in DOMAIN WorkflowTable /\ WorkflowOf(path) = w /\ name \in Placements(w)
      /\ \A n : KindOf(path, n) = Kinds[id][n] /\ PlacementOf(path, n) = Node(w, n)
  BY RunsAreValid
<1>2. /\ type # "merge" => incoming = {} \/ \E i : incoming = {i}
      /\ type = "merge" => \A i \in incoming : Kinds[id][Edge(w, i).source] = "single"
      /\ w.entry = name => incoming = {} /\ type # "merge"
      /\ incoming = {} => input = IF w.entry = name THEN "single" ELSE "none"
      /\ \A i : incoming = {i} => input = Kinds[id][Edge(w, i).source]
  BY <1>1, InputIsValid
<1>3. /\ type \in NodeTypes /\ kind \in {"single", "stream"}
      /\ type = "waitStream" => input = "stream" /\ kind = "single"
      /\ type = "branch" => input = kind
      /\ kind = "single" /\ type \notin Collecting => input # "stream"
  BY <1>1, OutputIsValid DEF Collecting
<1>4. /\ \A i \in Edges(w) : Edge(w, i).source \in Placements(w)
      /\ \A n \in Placements(w) : Kinds[id][n] \in {"single", "stream"}
  BY <1>1, WorkflowIsValid DEF ValidConnection
<1>5. type = "merge" => shape.kind = "merge"
  BY <1>1 DEF Shape
<1>6. ASSUME type # "merge", incoming = {}
      PROVE  shape.kind = IF w.entry = name THEN "entry" ELSE "none"
  BY <1>1, <1>6 DEF Shape
<1>7. ASSUME type # "merge", incoming # {}
      PROVE  /\ incoming = {shape.index}
             /\ shape.kind = KindOf(path, Edge(w, shape.index).source)
             /\ shape.kind = input
             /\ shape.kind \in {"single", "stream"}
  <2>1. PICK i : incoming = {i}
    BY <1>2, <1>7
  <2>2. w.entry # name
    BY <1>2, <1>7
  <2>3. (CHOOSE j \in incoming : TRUE) = i
    BY <2>1
  <2>4. shape = [kind |-> KindOf(path, Edge(w, i).source), index |-> i]
    <3> HIDE DEF incoming
    <3> QED
    BY <1>1, <1>7, <2>2, <2>3 DEF Shape, incoming
  <2>5. i \in Edges(w)
    BY <2>1 DEF Incoming
  <2> QED
    BY <1>1, <1>2, <1>4, <2>1, <2>4, <2>5
<1> HIDE DEF id, w, type, kind, incoming, shape, input
<1>8. type = "waitStream" => incoming # {} /\ shape.kind = "stream"
  BY <1>2, <1>3, <1>7
<1>9. type = "branch" => shape.kind # "none" /\ (shape.kind = "stream" <=> kind = "stream")
  BY <1>2, <1>3, <1>6, <1>7
<1>10. kind = "single" /\ type \notin Collecting => shape.kind # "stream"
  BY <1>2, <1>3, <1>5, <1>6, <1>7 DEF Collecting
<1> QED
  BY <1>1, <1>2, <1>3, <1>4, <1>5, <1>6, <1>7, <1>8, <1>9, <1>10 DEF id, w, type, kind, incoming, shape, input

-----------------------------------------------------------------------------
(* What a step does to the tables *)

\* What the tables hold stays, but for the output of a task.
TablesGrow ==
  /\ \A r \in DOMAIN results : r \in DOMAIN results' /\ results'[r] = results[r]
  /\ \A r \in DOMAIN taskResults :
       /\ r \in DOMAIN taskResults'
       /\ \/ taskResults'[r] = taskResults[r]
          \/ taskResults[r] = "pending" /\ TaskSpec(r.execution, r.task).included
  /\ \A d \in DOMAIN deliveries : d \in DOMAIN deliveries' /\ deliveries'[d] = deliveries[d]
  /\ \A s \in DOMAIN settled : s \in DOMAIN settled' /\ settled'[s] = settled[s]

\* The list of a concurrency holds the values of its output.
ListOf(k) == {TaskOutputResult(t).label : t \in {x \in DOMAIN taskResults : x.execution = k /\ taskResults[x] = "value"}}
ListedExactly(r) == r.label.kind = "list" => results[r].list = ListOf(InvocationOf(r))

\* Every entry that a step adds is one that the tables allow.
NewResults ==
  \A r \in DOMAIN results' \ DOMAIN results :
    ResultOwned(r)' /\ ListedExactly(r)' /\ ~IsSettled(r.run, r.label.placement)
NewTaskResults ==
  \A r \in DOMAIN taskResults' \ DOMAIN taskResults : taskResults'[r] = "pending" /\ TaskResultOwned(r)'
NewDeliveries ==
  \A d \in DOMAIN deliveries' \ DOMAIN deliveries :
    DeliveryOwned(d)' /\ ResultKey(d.run, d.source) \in Eligible(d.run, Edge(WorkflowOf(d.run), d.connection))
NewInvocations ==
  \A k \in DOMAIN invocations' \ DOMAIN invocations :
    /\ k.run \in DOMAIN runs
    /\ k.placement \in Placements(WorkflowOf(k.run))
    /\ k.trigger \in Triggers(k.run, k.placement)
    /\ PlacementOf(k.run, k.placement).type \notin Collecting
NewSettlements ==
  \A s \in DOMAIN settled' \ DOMAIN settled :
    /\ s = SettledKey(s.run, s.placement)
    /\ s.run \in DOMAIN runs
    /\ s.placement \in Placements(WorkflowOf(s.run))
    /\ Settle(s.run, s.placement)
NewEnds ==
  /\ \A k \in DOMAIN invocations' :
       Explained(k)' \/ (k \in DOMAIN invocations /\ invocations'[k].status = invocations[k].status)
  /\ \A e \in DOMAIN executions' : executions'[e].complete =>
       \/ e \in DOMAIN executions /\ executions[e].complete
       \/ \A r \in DOMAIN taskResults' :
            r.execution = e /\ TaskSpec(e, r.task).included => taskResults'[r] # "pending"
  /\ \A p \in DOMAIN runs' : runs'[p].complete => p \in DOMAIN runs /\ (runs[p].complete \/ AllSettled(p))

\* A step of an execution: it adds to few tables at a time.
Ledger ==
  /\ TablesGrow
  /\ NewResults /\ NewTaskResults /\ NewDeliveries /\ NewInvocations /\ NewSettlements /\ NewEnds
  /\ results' = results \/ (DOMAIN invocations' = DOMAIN invocations /\ deliveries' = deliveries)

\* What is looked up in a run stays the same.
LEMMA LookupsSame ==
  ASSUME TypeOK, Grows, NEW path \in DOMAIN runs
  PROVE  /\ path \in DOMAIN runs'
         /\ WorkflowOf(path)' = WorkflowOf(path)
         /\ \A name : /\ KindOf(path, name)' = KindOf(path, name)
                      /\ PlacementOf(path, name)' = PlacementOf(path, name)
                      /\ Shape(path, name)' = Shape(path, name)
<1>1. path \in DOMAIN runs' /\ runs'[path].workflow = runs[path].workflow
  BY DEF Grows
<1>2. WorkflowOf(path)' = WorkflowOf(path) /\ \A name : KindOf(path, name)' = KindOf(path, name)
  BY <1>1 DEF WorkflowOf, KindOf
<1>3. \A name : PlacementOf(path, name)' = PlacementOf(path, name)
  BY <1>2 DEF PlacementOf
<1>4. ASSUME NEW name
      PROVE  Shape(path, name)' = Shape(path, name)
  BY <1>2 DEF Shape
<1> QED
  BY <1>1, <1>2, <1>3, <1>4

-----------------------------------------------------------------------------
(* Where entries come from stays so *)

\* Every invocation is in a run, at a placement.
LEMMA InvocationsAreIn ==
  ASSUME OwnersExist, NEW k \in DOMAIN invocations
  PROVE  /\ k = InvocationKey(k.run, k.placement, k.trigger)
         /\ k.run \in DOMAIN runs
         /\ k.placement \in Placements(WorkflowOf(k.run))
         /\ ConcurrencyOf(k) = PlacementOf(k.run, k.placement)
BY DEF OwnersExist, InvocationOwned, ConcurrencyOf

\* Where a result came from stays there.
LEMMA ResultsStayOwned ==
  ASSUME TypeOK, OwnersExist, Grows, Counted, Life, Kept, TablesGrow, EntriesOwned, NEW r \in DOMAIN results
  PROVE  ResultOwned(r)'
<1> DEFINE k == InvocationOf(r)
<1>1. OwnersDiffer
  BY TypesTellOwners
<1>2. ResultOwned(r) /\ results'[r] = results[r]
  BY DEF EntriesOwned, TablesGrow
<1>3. ASSUME k \in DOMAIN invocations
      PROVE  k \in DOMAIN invocations' /\ ConcurrencyOf(k)' = ConcurrencyOf(k)
  BY <1>3, InvocationsAreIn, LookupsStay DEF Grows
<1>4. ASSUME OfCall(r)
      PROVE  OfCall(r)'
  <2> DEFINE c == CallOf(r)
  <2>1. c.owner = k /\ c.task = None
    BY <1>4 DEF OfCall, CallOf, CallKey, InvocationOf
  <2>2. c \in DOMAIN calls /\ c \in DOMAIN calls' /\ k \in DOMAIN invocations
    BY <1>1, <1>4, <2>1 DEF OfCall, Kept, OwnersDiffer
  <2>3. ASSUME ConcurrencyOf(k).type = "branch"
        PROVE  invocations'[k] = invocations[k]
    <3>1. ~IsStream(c)
      BY <2>1, <2>3 DEF IsStream, BodyOf, ConcurrencyOf
    <3>2. Has(c, r.label.index) /\ r.label.index \in 0..MaxYields
      BY <1>4, <2>1 DEF OfCall, Has
    <3>3. calls[c].status = "returned"
      BY <2>2, <3>1, <3>2 DEF Counted, Answered
    <3>4. invocations[k].status = "succeeded"
      BY <2>1, <2>2, <3>3 DEF Life, CallLife, OwnerStatus, OwnerMay, Live
    <3> QED
      BY <2>2, <3>4 DEF Kept
  <2> QED
    BY <1>2, <1>3, <1>4, <2>2, <2>3 DEF OfCall
<1>5. ASSUME OfTask(r)
      PROVE  OfTask(r)'
  <2> DEFINE t == TaskResultOf(r)
  <2>1. t \in DOMAIN taskResults /\ taskResults[t] = "value" /\ t.execution = k
    BY <1>5 DEF OfTask, TaskResultOf, TaskResultKey
  <2>2. TaskResultOwned(t)
    BY <2>1 DEF EntriesOwned
  <2>3. k \in DOMAIN invocations
    BY <1>1, <2>1, <2>2 DEF TaskResultOwned, OwnersDiffer
  <2>4. t \in DOMAIN taskResults' /\ taskResults'[t] = "value"
    BY <2>1 DEF TablesGrow
  <2> QED
    BY <1>3, <1>5, <2>3, <2>4 DEF OfTask
<1>6. ASSUME OfExecution(r)
      PROVE  OfExecution(r)'
  <2>1. k \in DOMAIN invocations
    BY <1>1, <1>6 DEF OfExecution, OwnersDiffer
  <2> QED
    BY <1>6, <2>1 DEF OfExecution, Kept
<1>7. ASSUME OfRun(r)
      PROVE  OfRun(r)'
  BY <1>7 DEF OfRun, Kept
<1>8. ASSUME OfInputs(r)
      PROVE  OfInputs(r)'
  BY <1>8, LookupsSame DEF OfInputs, TablesGrow, IsSettled
<1> QED
  BY <1>2, <1>4, <1>5, <1>6, <1>7, <1>8 DEF ResultOwned

\* Where the result of a task came from stays there.
LEMMA TaskResultsStayOwned ==
  ASSUME TypeOK, OwnersExist, TypeOK', OwnersExist', Grows, Sourced, Life, Kept, TablesGrow, NewEnds, EntriesOwned,
         NEW r \in DOMAIN taskResults
  PROVE  TaskResultOwned(r)'
<1> DEFINE e == r.execution
           t == r.task
           call == CallKey(e, t)
           child == Child(e, t)
<1>1. OwnersDiffer /\ OwnersDiffer'
  BY TypesTellOwners, PTL
<1>2. TaskResultOwned(r)
  BY DEF EntriesOwned
<1>3. /\ e \in DOMAIN executions /\ e \in DOMAIN executions' /\ e \in DOMAIN invocations
      /\ t \in DOMAIN executions[e].tasks /\ t # None
      /\ DOMAIN executions'[e].tasks = DOMAIN executions[e].tasks
  BY <1>1, <1>2 DEF TaskResultOwned, OwnersDiffer, Kept
<1>4. TaskSpec(e, t)' = TaskSpec(e, t)
  BY <1>3, InvocationsAreIn, LookupsStay DEF TaskSpec
<1>5. r \in DOMAIN taskResults'
  BY DEF TablesGrow
<1>6. taskResults'[r] # "pending" => TaskSpec(e, t).included
  BY <1>2 DEF TaskResultOwned, TablesGrow
<1>7. ASSUME executions'[e].complete, TaskSpec(e, t).included
      PROVE  taskResults'[r] # "pending"
  <2>1. CASE executions[e].complete
    BY <1>2, <1>7, <2>1 DEF TaskResultOwned, TablesGrow
  <2>2. CASE ~executions[e].complete
    BY <1>3, <1>4, <1>5, <1>7, <2>2 DEF NewEnds
  <2> QED
    BY <2>1, <2>2
<1>8. ASSUME child \in DOMAIN runs'
      PROVE  executions'[e].tasks[t] = "succeeded"
  <2>1. call.owner = e /\ call.task = t
    BY DEF CallKey
  <2>2. child # Root /\ RunOwner(child) = e /\ RunTask(child) = t
    BY <1>1, <1>3 DEF OwnersDiffer
  <2>3. CallerOf(child) = call
    BY <2>2 DEF CallerOf
  <2>4. call \notin DOMAIN calls'
    BY <1>1, <1>8, <2>2, <2>3 DEF OwnersDiffer
  <2>5. child \in DOMAIN runs
    BY <2>4 DEF Sourced, Kept
  <2>6. executions[e].tasks[t] = "succeeded"
    BY <1>2, <2>5 DEF TaskResultOwned
  <2> QED
    BY <1>3, <2>6 DEF Kept, Unstarted
<1> QED
  BY <1>2, <1>3, <1>4, <1>6, <1>7, <1>8 DEF TaskResultOwned

\* Where a delivery came from stays there.
LEMMA DeliveriesStayOwned ==
  ASSUME TypeOK, Grows, TablesGrow, EntriesOwned, NEW d \in DOMAIN deliveries
  PROVE  DeliveryOwned(d)'
<1>1. DeliveryOwned(d) /\ deliveries'[d] = deliveries[d]
  BY DEF EntriesOwned, TablesGrow
<1>2. d.run \in DOMAIN runs /\ d.run \in DOMAIN runs' /\ WorkflowOf(d.run)' = WorkflowOf(d.run)
  BY <1>1, LookupsSame DEF DeliveryOwned
<1>3. \A c : Eligible(d.run, c) \subseteq Eligible(d.run, c)'
  BY DEF Eligible, ResultsOf, TablesGrow
<1> QED
  BY <1>1, <1>2, <1>3 DEF DeliveryOwned

\* A placement is invoked with nothing, or with what a connection brought.
LEMMA TriggersAreDelivered ==
  ASSUME NEW path, NEW name, NEW trigger \in Triggers(path, name)
  PROVE  LET shape == Shape(path, name)
         IN  \/ shape.kind \in {"none", "entry"} /\ trigger = <<>>
             \/ /\ shape.kind \in {"single", "stream"}
                /\ \E d \in DeliveriesOn(path, shape.index) : deliveries[d] # "failed" /\ trigger = <<d.source>>
<1> DEFINE shape == Shape(path, name)
           found == DeliveriesOn(path, shape.index)
           first == CHOOSE d \in found : TRUE
<1>1. CASE shape.kind \in {"none", "entry"}
  BY <1>1 DEF Triggers
<1>2. CASE shape.kind = "single"
  <2>1. ResolveSingle(path, shape.index).kind = "value" /\ trigger = ResolveSingle(path, shape.index).trigger
    BY <1>2 DEF Triggers
  <2>2. found # {} /\ deliveries[first] # "failed"
    BY <2>1 DEF ResolveSingle
  <2>3. trigger = <<first.source>>
    BY <2>1, <2>2 DEF ResolveSingle
  <2> QED
    BY <1>2, <2>2, <2>3
<1>3. CASE shape.kind = "stream"
  BY <1>3 DEF Triggers
<1>4. CASE shape.kind \notin {"none", "entry", "single", "stream"}
  BY <1>4 DEF Triggers
<1> QED
  BY <1>1, <1>2, <1>3, <1>4

\* What triggered an invocation stays there.
LEMMA InvocationsStayTriggered ==
  ASSUME TypeOK, OwnersExist, Grows, TablesGrow, NewInvocations, EntriesOwned, NEW k \in DOMAIN invocations'
  PROVE  InvocationTriggered(k)'
<1> DEFINE shape == Shape(k.run, k.placement)
<1>1. /\ k.run \in DOMAIN runs
      /\ \/ shape.kind \in {"none", "entry"} /\ k.trigger = <<>>
         \/ /\ shape.kind \in {"single", "stream"}
            /\ \E d \in DeliveriesOn(k.run, shape.index) : deliveries[d] # "failed" /\ k.trigger = <<d.source>>
  <2>1. CASE k \in DOMAIN invocations
    BY <2>1, InvocationsAreIn DEF EntriesOwned, InvocationTriggered
  <2>2. CASE k \notin DOMAIN invocations
    <3>1. k.run \in DOMAIN runs /\ k.trigger \in Triggers(k.run, k.placement)
      BY <2>2 DEF NewInvocations
    <3> HIDE DEF shape
    <3> QED
      BY <3>1, TriggersAreDelivered DEF shape
  <2> QED
    BY <2>1, <2>2
<1>2. shape' = shape
  BY <1>1, LookupsSame
<1>3. \A d \in DeliveriesOn(k.run, shape.index) :
        d \in DeliveriesOn(k.run, shape.index)' /\ deliveries'[d] = deliveries[d]
  BY <1>2 DEF DeliveriesOn, TablesGrow
<1> HIDE DEF shape
<1> QED
  BY <1>1, <1>2, <1>3 DEF InvocationTriggered, shape

\* The arms that settle are those of the branch.
LEMMA SettledArms ==
  ASSUME NEW path, NEW name
  PROVE  \A s \in SettleOutcome(path, name) :
           DOMAIN s.arms = IF PlacementOf(path, name).type = "branch" THEN PlacementOf(path, name).arms ELSE {}
<1> DEFINE shape == Shape(path, name)
<1> HIDE DEF shape
<1>1. \A s \in WaitStreamSettlement(path, shape.index) : DOMAIN s.arms = {}
  BY DEF WaitStreamSettlement, Settle1, Aggregate
<1>2. \A s \in MergeSettlement(path, name) : DOMAIN s.arms = {}
  BY DEF MergeSettlement, Settle1, Aggregate
<1>3. \A s \in BranchSettlement(path, name, shape) : DOMAIN s.arms = PlacementOf(path, name).arms
  BY ResolutionKinds DEF BranchSettlement, SettleArms
<1>4. \A s \in WorkSettlement(path, name, shape) : DOMAIN s.arms = {}
  BY ResolutionKinds DEF WorkSettlement, Settle1
<1> QED
  BY <1>1, <1>2, <1>3, <1>4 DEF SettleOutcome, shape

\* What is settled is a placement, with its arms.
LEMMA SettlementsStayOwned ==
  ASSUME TypeOK, Grows, TablesGrow, NewSettlements, EntriesOwned, NEW s \in DOMAIN settled'
  PROVE  SettlementOwned(s)'
<1>1. CASE s \in DOMAIN settled
  <2>1. SettlementOwned(s) /\ settled'[s] = settled[s]
    BY <1>1 DEF EntriesOwned, TablesGrow
  <2> QED
    BY <2>1, LookupsSame DEF SettlementOwned
<1>2. CASE s \notin DOMAIN settled
  <2>1. /\ s = SettledKey(s.run, s.placement)
        /\ s.run \in DOMAIN runs
        /\ s.placement \in Placements(WorkflowOf(s.run))
        /\ Settle(s.run, s.placement)
    BY <1>2 DEF NewSettlements
  <2>2. \E o \in SettleOutcome(s.run, s.placement) : settled'[s].arms = o.arms
    BY <2>1 DEF Settle, Put
  <2> QED
    BY <2>1, <2>2, LookupsSame, SettledArms DEF SettlementOwned
<1> QED
  BY <1>1, <1>2

\* Every entry of the tables stays where it came from.
LEMMA EntriesStayOwned ==
  ASSUME TypeOK, OwnersExist, TypeOK', OwnersExist', Grows, Counted, Sourced, Life, Kept, Ledger, EntriesOwned
  PROVE  EntriesOwned'
<1>1. \A r \in DOMAIN results' : ResultOwned(r)'
  BY ResultsStayOwned DEF Ledger, NewResults
<1>2. \A r \in DOMAIN taskResults' : TaskResultOwned(r)'
  BY TaskResultsStayOwned DEF Ledger, NewTaskResults
<1>3. \A d \in DOMAIN deliveries' : DeliveryOwned(d)'
  BY DeliveriesStayOwned DEF Ledger, NewDeliveries
<1>4. \A k \in DOMAIN invocations' : InvocationTriggered(k)'
  BY InvocationsStayTriggered DEF Ledger
<1>5. \A s \in DOMAIN settled' : SettlementOwned(s)'
  BY SettlementsStayOwned DEF Ledger
<1> QED
  BY <1>1, <1>2, <1>3, <1>4, <1>5 DEF EntriesOwned

\* How an invocation ended stays explained.
LEMMA EndsStayExplained ==
  ASSUME TypeOK, OwnersExist, Grows, Kept, Ledger, EndsExplained
  PROVE  EndsExplained'
<1> SUFFICES ASSUME NEW k \in DOMAIN invocations, invocations'[k].status = invocations[k].status, Explained(k)
             PROVE  Explained(k)'
  BY DEF Ledger, NewEnds, EndsExplained
<1>1. ConcurrencyOf(k)' = ConcurrencyOf(k) /\ \A t : TaskSpec(k, t)' = TaskSpec(k, t)
  BY InvocationsAreIn, LookupsStay DEF TaskSpec
<1>2. HasResult(k) => HasResult(k)'
  BY <1>1 DEF HasResult, Ledger, TablesGrow
<1>3. k \in DOMAIN executions' => k \in DOMAIN executions
  BY DEF Kept
<1>4. AllSkipped(k) => AllSkipped(k)'
  BY <1>1, <1>3 DEF AllSkipped, Kept, Unstarted
<1> QED
  BY <1>2, <1>4 DEF Explained

-----------------------------------------------------------------------------
(* Results of a placement *)

\* A connection from a Single placement brings one delivery at most.
LEMMA SingleDelivery ==
  ASSUME TypeOK, EntriesOwned, SinglesHaveOne, NEW path \in DOMAIN runs, NEW i \in Edges(WorkflowOf(path)),
         KindOf(path, Edge(WorkflowOf(path), i).source) = "single"
  PROVE  \A d1, d2 \in DeliveriesOn(path, i) : d1 = d2
<1> DEFINE source == Edge(WorkflowOf(path), i).source
<1>1. source \in Placements(WorkflowOf(path))
  <2>1. \E name : name \in Placements(WorkflowOf(path))
    BY RunsAreValid, WorkflowIsValid DEF ValidConnection
  <2> QED
    BY <2>1, ShapesAre
<1>2. OneResult(path, source)
  BY <1>1 DEF SinglesHaveOne
<1>3. ASSUME NEW d \in DeliveriesOn(path, i)
      PROVE  d = DeliveryKey(path, i, d.source) /\ ResultKey(path, d.source) \in ResultsOf(path, source)
  BY <1>3 DEF DeliveriesOn, EntriesOwned, DeliveryOwned, Eligible
<1>4. \A x, y : ResultKey(path, x) = ResultKey(path, y) => x = y
  BY DEF ResultKey
<1> QED
  BY <1>2, <1>3, <1>4 DEF OneResult

\* A placement that is not given a Stream is invoked once at most.
LEMMA SingleInvocation ==
  ASSUME TypeOK, OwnersExist, EntriesOwned, SinglesHaveOne,
         NEW path \in DOMAIN runs, NEW name \in Placements(WorkflowOf(path)), Shape(path, name).kind # "stream"
  PROVE  \A k1, k2 \in InvocationsOf(path, name) : k1 = k2
<1> DEFINE shape == Shape(path, name)
           source == Edge(WorkflowOf(path), shape.index).source
<1>1. \A k \in InvocationsOf(path, name) : k = InvocationKey(path, name, k.trigger) /\ InvocationTriggered(k)
  BY InvocationsAreIn DEF InvocationsOf, EntriesOwned
<1>2. CASE shape.kind = "single"
  <2>1. PlacementOf(path, name).type # "merge" /\ Incoming(WorkflowOf(path), name) # {}
    BY <1>2, ShapesAre
  <2>2. shape.index \in Edges(WorkflowOf(path)) /\ KindOf(path, source) = "single"
    BY <1>2, <2>1, ShapesAre DEF Incoming
  <2>3. \A d1, d2 \in DeliveriesOn(path, shape.index) : d1 = d2
    BY <2>2, SingleDelivery
  <2>4. \A k \in InvocationsOf(path, name) : \E d \in DeliveriesOn(path, shape.index) : k.trigger = <<d.source>>
    BY <1>1, <1>2 DEF InvocationTriggered, InvocationsOf
  <2> QED
    BY <1>1, <2>3, <2>4
<1>3. CASE shape.kind # "single"
  BY <1>1, <1>3 DEF InvocationTriggered, InvocationsOf
<1> QED
  BY <1>2, <1>3

\* What the results of a placement are.
LEMMA ResultsAreOf ==
  ASSUME TypeOK, OwnersExist, EntriesOwned, NEW path, NEW name, NEW r \in ResultsOf(path, name)
  PROVE  LET type == PlacementOf(path, name).type
             k == InvocationOf(r)
         IN  /\ type \in Collecting => OfInputs(r)
             /\ type \notin Collecting => k \in InvocationsOf(path, name)
             /\ type \in {"function", "branch"} => OfCall(r) /\ CallOf(r) = CallKey(k, None)
             /\ type = "subworkflow" => OfRun(r)
             /\ type = "concurrency" => OfTask(r) \/ OfExecution(r)
<1> DEFINE k == InvocationOf(r)
           type == PlacementOf(path, name).type
<1>1. OwnersDiffer
  BY TypesTellOwners
<1>2. r \in DOMAIN results /\ r.run = path /\ r.label.placement = name /\ ResultOwned(r)
  BY DEF ResultsOf, EntriesOwned
<1>3. k.run = path /\ k.placement = name
  BY <1>2 DEF InvocationOf, InvocationKey
<1>4. ConcurrencyOf(k) = PlacementOf(path, name)
  BY <1>3 DEF ConcurrencyOf
<1>5. k \in DOMAIN invocations => k \in InvocationsOf(path, name)
  BY <1>3 DEF InvocationsOf
<1>6. ASSUME OfCall(r)
      PROVE  type \in {"function", "branch"} /\ k \in DOMAIN invocations /\ CallOf(r) = CallKey(k, None)
  <2>1. CallOf(r) = CallKey(k, None)
    BY <1>6 DEF OfCall, CallOf, InvocationOf
  <2>2. CallOf(r).owner = k /\ CallOf(r).task = None
    BY <2>1 DEF CallKey
  <2>3. CallOwned(CallOf(r))
    BY <1>6 DEF OfCall, OwnersExist
  <2> QED
    BY <1>4, <2>1, <2>2, <2>3 DEF CallOwned, OwnerExists, BodyOf, ConcurrencyOf
<1>7. ASSUME OfTask(r) \/ OfExecution(r)
      PROVE  type = "concurrency" /\ k \in DOMAIN invocations
  <2>1. k \in DOMAIN executions
    <3>1. CASE OfTask(r)
      <4>1. TaskResultOf(r) \in DOMAIN taskResults /\ TaskResultOf(r).execution = k
        BY <3>1 DEF OfTask, TaskResultOf, TaskResultKey
      <4> QED
        BY <4>1 DEF EntriesOwned, TaskResultOwned
    <3>2. CASE OfExecution(r)
      BY <3>2 DEF OfExecution
    <3> QED
      BY <1>7, <3>1, <3>2
  <2> QED
    BY <1>4, <2>1 DEF OwnersExist, ExecutionOwned
<1>8. ASSUME OfRun(r)
      PROVE  type = "subworkflow" /\ k \in DOMAIN invocations
  <2>1. k \in DOMAIN invocations /\ Child(k, None) \in DOMAIN runs
    BY <1>8 DEF OfRun
  <2>2. Child(k, None) # Root /\ RunOwner(Child(k, None)) = k /\ RunTask(Child(k, None)) = None
    BY <1>1, <2>1 DEF OwnersDiffer
  <2>3. BodyOf(CallKey(k, None)).type = "subworkflow"
    BY <2>1, <2>2 DEF OwnersExist, RunOwned
  <2> QED
    BY <1>4, <2>1, <2>3 DEF BodyOf, CallKey, ConcurrencyOf
<1>9. ASSUME OfInputs(r)
      PROVE  type \in Collecting
  BY <1>2, <1>9 DEF OfInputs, Collecting
<1> HIDE DEF type, k
<1>10. type \in Collecting => OfInputs(r)
  BY <1>2, <1>6, <1>7, <1>8 DEF ResultOwned, Collecting
<1>11. type \notin Collecting => k \in DOMAIN invocations
  BY <1>2, <1>6, <1>7, <1>8, <1>9 DEF ResultOwned
<1>12. type \in {"function", "branch"} => OfCall(r) /\ CallOf(r) = CallKey(k, None)
  BY <1>2, <1>6, <1>7, <1>8, <1>9 DEF ResultOwned, Collecting
<1>13. type = "subworkflow" => OfRun(r)
  BY <1>2, <1>6, <1>7, <1>8, <1>9 DEF ResultOwned, Collecting
<1>14. type = "concurrency" => OfTask(r) \/ OfExecution(r)
  BY <1>2, <1>6, <1>7, <1>8, <1>9 DEF ResultOwned, Collecting
<1> QED
  BY <1>5, <1>10, <1>11, <1>12, <1>13, <1>14 DEF type, k

\* The only value of a call that is no Stream is the first.
LEMMA CallHasOne ==
  ASSUME TypeOK, OwnersExist, Counted, NEW r \in DOMAIN results, OfCall(r), ~IsStream(CallOf(r))
  PROVE  r.label.index = 0 /\ calls[CallOf(r)].status = "returned"
<1>1. CallOf(r).task = None
  BY DEF OfCall, CallOf, CallKey
<1>2. Has(CallOf(r), r.label.index) /\ r.label.index \in 0..MaxYields /\ CallOf(r) \in DOMAIN calls
  BY <1>1 DEF OfCall, Has
<1> QED
  BY <1>2 DEF Counted, Answered

\* A call of a Single placement is no Stream.
LEMMA SingleCalls ==
  ASSUME TypeOK, OwnersExist, NEW k \in DOMAIN invocations, KindOf(k.run, k.placement) = "single"
  PROVE  ~IsStream(CallKey(k, None))
<1>1. k.run \in DOMAIN runs /\ k.placement \in Placements(WorkflowOf(k.run))
  BY InvocationsAreIn
<1>2. PlacementOf(k.run, k.placement).type = "function" =>
        ~FunctionTable[PlacementOf(k.run, k.placement).function].stream
  BY <1>1, RunsAreValid, OutputIsValid
<1> QED
  BY <1>2 DEF IsStream, BodyOf, CallKey

\* An invocation of a Single placement has one result at most.
LEMMA InvocationHasOne ==
  ASSUME TypeOK, OwnersExist, Counted, EntriesOwned,
         NEW path \in DOMAIN runs, NEW name \in Placements(WorkflowOf(path)), KindOf(path, name) = "single",
         PlacementOf(path, name).type \notin Collecting,
         NEW r1 \in ResultsOf(path, name), NEW r2 \in ResultsOf(path, name), InvocationOf(r1) = InvocationOf(r2)
  PROVE  r1 = r2
<1> DEFINE k == InvocationOf(r1)
           type == PlacementOf(path, name).type
<1>1. k \in DOMAIN invocations /\ k.run = path /\ k.placement = name
  BY ResultsAreOf DEF InvocationsOf
<1>2. r1 \in DOMAIN results /\ r2 \in DOMAIN results
  BY DEF ResultsOf
<1>3. ConcurrencyOf(k) = PlacementOf(path, name)
  BY <1>1 DEF ConcurrencyOf
<1>4. type \in {"function", "branch", "subworkflow", "concurrency"}
  BY ShapesAre DEF NodeTypes, Collecting
<1>5. CASE type \in {"function", "branch"}
  <2>1. /\ OfCall(r1) /\ OfCall(r2)
        /\ CallOf(r1) = CallKey(k, None) /\ CallOf(r2) = CallKey(k, None)
    BY <1>5, ResultsAreOf
  <2>2. ~IsStream(CallKey(k, None))
    BY <1>1, SingleCalls
  <2>3. r1.label.index = 0 /\ r2.label.index = 0
    BY <1>2, <2>1, <2>2, CallHasOne
  <2> QED
    BY <2>1, <2>3 DEF OfCall
<1>6. CASE type = "subworkflow"
  <2>1. OfRun(r1) /\ OfRun(r2)
    BY <1>6, ResultsAreOf
  <2> QED
    BY <2>1 DEF OfRun
<1>7. CASE type = "concurrency"
  <2>1. PlacementOf(path, name).output = "list"
    BY <1>7, RunsAreValid, OutputIsValid
  <2>2. (OfTask(r1) \/ OfExecution(r1)) /\ (OfTask(r2) \/ OfExecution(r2))
    BY <1>7, ResultsAreOf
  <2>3. OfExecution(r1) /\ OfExecution(r2)
    BY <1>3, <2>1, <2>2 DEF OfTask
  <2> QED
    BY <2>3 DEF OfExecution
<1> QED
  BY <1>4, <1>5, <1>6, <1>7

\* A placement with a Single output that is invoked once at most has one
\* result at most.
InvokedOnce(path, name) ==
  PlacementOf(path, name).type \notin Collecting => \A k1, k2 \in InvocationsOf(path, name) : k1 = k2
OnceGivesOne ==
  \A path \in DOMAIN runs : \A name \in Placements(WorkflowOf(path)) :
    KindOf(path, name) = "single" /\ InvokedOnce(path, name) => OneResult(path, name)

\* Single placements that were invoked once at most have one result at most.
LEMMA OneInvocationOneResult == TypeOK /\ OwnersExist /\ Counted /\ EntriesOwned => OnceGivesOne
<1> SUFFICES ASSUME TypeOK, OwnersExist, Counted, EntriesOwned,
                    NEW path \in DOMAIN runs, NEW name \in Placements(WorkflowOf(path)), KindOf(path, name) = "single",
                    InvokedOnce(path, name),
                    NEW r1 \in ResultsOf(path, name), NEW r2 \in ResultsOf(path, name)
             PROVE  r1 = r2
  BY DEF OneResult, OnceGivesOne
<1>1. CASE PlacementOf(path, name).type \in Collecting
  <2>1. OfInputs(r1) /\ OfInputs(r2)
    BY <1>1, ResultsAreOf
  <2> QED
    BY <2>1 DEF OfInputs, ResultsOf
<1>2. CASE PlacementOf(path, name).type \notin Collecting
  <2>1. InvocationOf(r1) = InvocationOf(r2)
    BY <1>2, ResultsAreOf DEF InvokedOnce
  <2> QED
    BY <1>2, <2>1, InvocationHasOne
<1> QED
  BY <1>1, <1>2

\* Every result is in a run, at a placement.
LEMMA ResultsAreIn ==
  ASSUME TypeOK, OwnersExist, EntriesOwned, NEW r \in DOMAIN results
  PROVE  r.run \in DOMAIN runs /\ r.label.placement \in Placements(WorkflowOf(r.run))
<1>1. r \in ResultsOf(r.run, r.label.placement)
  BY DEF ResultsOf
<1>2. CASE PlacementOf(r.run, r.label.placement).type \in Collecting
  BY <1>1, <1>2, ResultsAreOf DEF OfInputs
<1>3. CASE PlacementOf(r.run, r.label.placement).type \notin Collecting
  <2>1. InvocationOf(r) \in InvocationsOf(r.run, r.label.placement)
    BY <1>1, <1>3, ResultsAreOf
  <2> QED
    BY <2>1, InvocationsAreIn DEF InvocationsOf
<1> QED
  BY <1>2, <1>3

\* A Single placement stays with one result at most.
LEMMA SinglesStayOne ==
  ASSUME TypeOK, OwnersExist, EntriesOwned, TypeOK', OwnersExist', Counted', EntriesOwned', Grows, Ledger, SinglesHaveOne
  PROVE  SinglesHaveOne'
<1> SUFFICES ASSUME NEW path \in DOMAIN runs', NEW name \in Placements(WorkflowOf(path))',
                    KindOf(path, name)' = "single"
             PROVE  OneResult(path, name)'
  BY DEF SinglesHaveOne
<1>1. CASE results' = results /\ path \notin DOMAIN runs
  <2>1. ResultsOf(path, name)' = {}
    BY <1>1, ResultsAreIn DEF ResultsOf
  <2> QED
    BY <2>1 DEF OneResult
<1>2. CASE results' = results /\ path \in DOMAIN runs
  <2>1. KindOf(path, name) = "single" /\ name \in Placements(WorkflowOf(path))
    BY <1>2, LookupsSame
  <2>2. ResultsOf(path, name)' = ResultsOf(path, name)
    BY <1>2 DEF ResultsOf
  <2> QED
    BY <1>2, <2>1, <2>2 DEF OneResult, SinglesHaveOne
<1>3. CASE results' # results
  <2>1. DOMAIN invocations' = DOMAIN invocations
    BY <1>3 DEF Ledger
  <2>2. InvocationsOf(path, name)' = InvocationsOf(path, name)
    BY <2>1 DEF InvocationsOf
  <2>3. ASSUME PlacementOf(path, name)'.type \notin Collecting
        PROVE  \A k1, k2 \in InvocationsOf(path, name) : k1 = k2
    <3>1. CASE path \notin DOMAIN runs
      BY <3>1, InvocationsAreIn DEF InvocationsOf
    <3>2. CASE path \in DOMAIN runs
      <4>1. /\ KindOf(path, name) = "single" /\ name \in Placements(WorkflowOf(path))
            /\ PlacementOf(path, name).type \notin Collecting
        BY <2>3, <3>2, LookupsSame
      <4>2. Shape(path, name).kind # "stream"
        BY <3>2, <4>1, ShapesAre
      <4> QED
        BY <3>2, <4>1, <4>2, SingleInvocation
    <3> QED
      BY <3>1, <3>2
  <2>4. OnceGivesOne'
    BY OneInvocationOneResult, PTL
  <2>5. InvokedOnce(path, name)'
    BY <2>2, <2>3 DEF InvokedOnce
  <2> QED
    BY <2>4, <2>5 DEF OnceGivesOne
<1> QED
  BY <1>1, <1>2, <1>3

-----------------------------------------------------------------------------
(* What is exhausted stays so *)

\* A connection that has brought everything brings nothing more.
LEMMA DrainedStays ==
  ASSUME TypeOK, Grows, EntriesOwned, SinglesHaveOne', Ledger,
         NEW path \in DOMAIN runs, NEW i \in Edges(WorkflowOf(path)), Drained(path, i)
  PROVE  /\ Drained(path, i)'
         /\ DeliveriesOn(path, i)' = DeliveriesOn(path, i)
         /\ \A d \in DeliveriesOn(path, i) : deliveries'[d] = deliveries[d]
<1> PICK c : c = Edge(WorkflowOf(path), i)
  OBVIOUS
<1>1. /\ path \in DOMAIN runs' /\ WorkflowOf(path)' = WorkflowOf(path) /\ \A n : KindOf(path, n)' = KindOf(path, n)
      /\ c = Edge(WorkflowOf(path)', i)
  BY LookupsSame
<1>2. c.source \in Placements(WorkflowOf(path))
  <2>1. \E name : name \in Placements(WorkflowOf(path))
    BY RunsAreValid, WorkflowIsValid DEF ValidConnection
  <2> QED
    BY <2>1, ShapesAre
<1>3. ResultsOf(path, c.source)' = ResultsOf(path, c.source)
  <2>1. ResultsOf(path, c.source) \subseteq ResultsOf(path, c.source)'
    BY DEF ResultsOf, Ledger, TablesGrow
  <2>2. ASSUME NEW r \in ResultsOf(path, c.source)', r \notin DOMAIN results
        PROVE  FALSE
    <3>1. ~IsSettled(path, c.source)
      BY <2>2 DEF ResultsOf, Ledger, NewResults
    <3>2. KindOf(path, c.source) = "single" /\ DeliveriesOn(path, i) # {}
      BY <3>1 DEF Drained
    <3>3. PICK d \in DeliveriesOn(path, i) : TRUE
      BY <3>2
    <3>4. ResultKey(path, d.source) \in ResultsOf(path, c.source)
      BY DEF DeliveriesOn, EntriesOwned, DeliveryOwned, Eligible
    <3>5. OneResult(path, c.source)'
      BY <1>1, <1>2, <3>2 DEF SinglesHaveOne
    <3>6. ResultKey(path, d.source) = r
      BY <2>1, <2>2, <3>4, <3>5 DEF OneResult
    <3> QED
      BY <2>2, <3>4, <3>6 DEF ResultsOf
  <2> QED
    BY <2>1, <2>2 DEF ResultsOf
<1>4. Eligible(path, c)' = Eligible(path, c)
  <2>1. \A r \in ResultsOf(path, c.source) : results'[r] = results[r]
    BY DEF ResultsOf, Ledger, TablesGrow
  <2> QED
    BY <1>1, <1>3, <2>1 DEF Eligible
<1>5. \A x : IsDelivered(path, i, x) => IsDelivered(path, i, x)'
  BY DEF IsDelivered, Ledger, TablesGrow
<1>6. DeliveriesOn(path, i) \subseteq DeliveriesOn(path, i)' /\ \A d \in DeliveriesOn(path, i) : deliveries'[d] = deliveries[d]
  BY DEF DeliveriesOn, Ledger, TablesGrow
<1>7. ASSUME NEW d \in DeliveriesOn(path, i)', d \notin DOMAIN deliveries
      PROVE  FALSE
  <2>1. d.run = path /\ d.connection = i /\ d \in DOMAIN deliveries'
    BY <1>7 DEF DeliveriesOn
  <2>2. ResultKey(path, d.source) \in Eligible(path, c) /\ d = DeliveryKey(path, i, d.source)
    BY <1>7, <2>1 DEF Ledger, NewDeliveries, DeliveryOwned
  <2>3. ResultKey(path, d.source).label = d.source
    BY DEF ResultKey
  <2>4. IsDelivered(path, i, d.source)
    BY <2>2, <2>3 DEF Drained
  <2> QED
    BY <1>7, <2>2, <2>4 DEF IsDelivered
<1>8. DeliveriesOn(path, i)' = DeliveriesOn(path, i)
  BY <1>6, <1>7 DEF DeliveriesOn
<1>9. IsSettled(path, c.source) => IsSettled(path, c.source)'
  BY DEF IsSettled, Ledger, TablesGrow
<1> QED
  BY <1>1, <1>4, <1>5, <1>6, <1>8, <1>9 DEF Drained

\* Nothing more can trigger an invocation of an exhausted placement.
LEMMA NothingToInvoke ==
  ASSUME TypeOK, NEW path \in DOMAIN runs, NEW name \in Placements(WorkflowOf(path)), Exhausted(path, name),
         PlacementOf(path, name).type \notin Collecting, NEW trigger \in Triggers(path, name)
  PROVE  InvocationKey(path, name, trigger) \in DOMAIN invocations
<1> DEFINE shape == Shape(path, name)
           incoming == Incoming(WorkflowOf(path), name)
<1>1. \/ shape.kind \in {"none", "entry"} /\ trigger = <<>>
      \/ /\ shape.kind \in {"single", "stream"}
         /\ \E d \in DeliveriesOn(path, shape.index) : deliveries[d] # "failed" /\ trigger = <<d.source>>
  BY TriggersAreDelivered
<1>2. /\ incoming = {} => shape.kind \in {"none", "entry"}
      /\ incoming # {} => incoming = {shape.index} /\ shape.kind \in {"single", "stream"}
  BY ShapesAre DEF Collecting
<1> HIDE DEF shape, incoming
<1>3. CASE incoming = {}
  BY <1>1, <1>2, <1>3 DEF Exhausted, incoming
<1>4. CASE incoming # {}
  <2>1. Triggered(path, name, shape.index)
    BY <1>2, <1>4 DEF Exhausted, incoming
  <2> QED
    BY <1>1, <1>2, <1>4, <2>1 DEF Triggered
<1> QED
  BY <1>3, <1>4

\* An exhausted placement stays as it is.
LEMMA ExhaustedStays ==
  ASSUME TypeOK, OwnersExist, OwnersExist', Grows, Kept, EntriesOwned, SinglesHaveOne', Ledger,
         NEW path \in DOMAIN runs, NEW name \in Placements(WorkflowOf(path)), Exhausted(path, name)
  PROVE  /\ Exhausted(path, name)'
         /\ InvocationsOf(path, name)' = InvocationsOf(path, name)
         /\ \A k \in InvocationsOf(path, name) : invocations'[k] = invocations[k]
         /\ \A i \in Incoming(WorkflowOf(path), name) :
              /\ DeliveriesOn(path, i)' = DeliveriesOn(path, i)
              /\ \A d \in DeliveriesOn(path, i) : deliveries'[d] = deliveries[d]
<1> DEFINE incoming == Incoming(WorkflowOf(path), name)
           type == PlacementOf(path, name).type
<1>1. OwnersDiffer
  BY TypesTellOwners
<1>2. path \in DOMAIN runs' /\ WorkflowOf(path)' = WorkflowOf(path) /\ PlacementOf(path, name)' = PlacementOf(path, name)
  BY LookupsSame
<1>3. \A k \in InvocationsOf(path, name) : k \in DOMAIN invocations'
  BY DEF InvocationsOf, Kept
<1>4. ASSUME NEW k \in InvocationsOf(path, name)', k \notin DOMAIN invocations
      PROVE  FALSE
  <2>1. k.run = path /\ k.placement = name /\ k \in DOMAIN invocations'
    BY <1>4 DEF InvocationsOf
  <2>2. k.trigger \in Triggers(path, name) /\ type \notin Collecting
    BY <1>4, <2>1 DEF Ledger, NewInvocations
  <2>3. k = InvocationKey(path, name, k.trigger)
    BY <2>1 DEF OwnersExist, InvocationOwned
  <2> QED
    BY <1>4, <2>2, <2>3, NothingToInvoke
<1>5. InvocationsOf(path, name)' = InvocationsOf(path, name)
  BY <1>3, <1>4 DEF InvocationsOf
<1>6. \A k \in InvocationsOf(path, name) : invocations'[k] = invocations[k] /\ InvocationEnded(k)'
  BY <1>1, EndedInvocationStays DEF InvocationsOf, Exhausted
<1>7. \A i \in incoming : i \in Edges(WorkflowOf(path)) /\ Drained(path, i)
  BY DEF Incoming, Exhausted
<1>8. ASSUME NEW i \in incoming
      PROVE  /\ Drained(path, i)'
             /\ DeliveriesOn(path, i)' = DeliveriesOn(path, i)
             /\ \A d \in DeliveriesOn(path, i) : deliveries'[d] = deliveries[d]
  BY <1>7, DrainedStays
<1>9. ASSUME NEW i \in incoming, Triggered(path, name, i)
      PROVE  Triggered(path, name, i)'
  BY <1>8, <1>9 DEF Triggered, Kept
<1>10. incoming' = incoming
  BY <1>2
<1> HIDE DEF incoming
<1>11. Exhausted(path, name)'
  BY <1>2, <1>5, <1>6, <1>8, <1>9, <1>10 DEF Exhausted, incoming, Kept
<1> QED
  BY <1>5, <1>6, <1>8, <1>11 DEF incoming

\* The results of a placement that is settled stay the same.
LEMMA SettledResultsStay ==
  ASSUME Ledger, NEW path, NEW name, IsSettled(path, name)
  PROVE  /\ ResultsOf(path, name)' = ResultsOf(path, name)
         /\ \A r \in ResultsOf(path, name) : results'[r] = results[r]
BY DEF ResultsOf, Ledger, TablesGrow, NewResults

\* One step of SettledFinal.
LEMMA SettledStep ==
  ASSUME TypeOK, OwnersExist, OwnersExist', Grows, Kept, EntriesOwned, SinglesHaveOne', Ledger, Sealed,
         NEW s \in DOMAIN settled
  PROVE  /\ settled'[s] = settled[s]
         /\ ResultsOf(s.run, s.placement)' = ResultsOf(s.run, s.placement)
         /\ InvocationsOf(s.run, s.placement)' = InvocationsOf(s.run, s.placement)
         /\ \A k \in InvocationsOf(s.run, s.placement) : invocations'[k] = invocations[k]
         /\ \A i \in Incoming(WorkflowOf(s.run), s.placement) :
              DeliveriesOn(s.run, i)' = DeliveriesOn(s.run, i)
<1>1. SettlementOwned(s)
  BY DEF EntriesOwned
<1>2. s.run \in DOMAIN runs /\ s.placement \in Placements(WorkflowOf(s.run)) /\ IsSettled(s.run, s.placement)
  BY <1>1 DEF SettlementOwned, IsSettled
<1>3. Exhausted(s.run, s.placement)
  BY DEF Sealed
<1>4. settled'[s] = settled[s]
  BY DEF Ledger, TablesGrow
<1> QED
  BY <1>2, <1>3, <1>4, SettledResultsStay, ExhaustedStays

-----------------------------------------------------------------------------
(* What a placement settles with: the results of its invocations *)

\* An invocation that was skipped, or that did not succeed and could have one
\* result only, has none.
LEMMA NoResultUnlessSucceeded ==
  ASSUME TypeOK, OwnersExist, Counted, Sourced, Life, EntriesOwned, EndsExplained,
         NEW path \in DOMAIN runs, NEW name \in Placements(WorkflowOf(path)),
         PlacementOf(path, name).type \notin Collecting, NEW r \in ResultsOf(path, name),
         LET s == invocations[InvocationOf(r)].status
         IN  s = "skipped" \/ (s # "succeeded" /\ KindOf(path, name) = "single")
  PROVE  FALSE
<1> DEFINE k == InvocationOf(r)
           type == PlacementOf(path, name).type
           s == invocations[k].status
<1>1. k \in DOMAIN invocations /\ k.run = path /\ k.placement = name
  BY ResultsAreOf DEF InvocationsOf
<1>2. r \in DOMAIN results /\ ConcurrencyOf(k) = PlacementOf(path, name)
  BY <1>1 DEF ResultsOf, ConcurrencyOf
<1>3. type \in {"function", "branch", "subworkflow", "concurrency"}
  BY ShapesAre DEF NodeTypes, Collecting
<1>4. CASE type \in {"function", "branch"}
  <2> DEFINE c == CallKey(k, None)
  <2>1. OfCall(r) /\ CallOf(r) = c /\ c \in DOMAIN calls
    BY <1>4, ResultsAreOf DEF OfCall
  <2>2. s \in OwnerMay(calls[c].status)
    BY <2>1 DEF Life, CallLife, OwnerStatus, CallKey
  <2>3. s # "skipped"
    BY <2>2 DEF OwnerMay
  <2>4. KindOf(path, name) = "single" => calls[c].status = "returned"
    BY <1>1, <1>2, <2>1, SingleCalls, CallHasOne
  <2> QED
    BY <2>2, <2>3, <2>4 DEF OwnerMay, Live
<1>5. CASE type = "subworkflow"
  BY <1>5, ResultsAreOf DEF OfRun
<1>6. CASE type = "concurrency"
  <2>1. OfTask(r)
    <3>1. OfTask(r) \/ OfExecution(r)
      BY <1>6, ResultsAreOf
    <3> QED
      BY <3>1 DEF OfExecution
  <2>2. KindOf(path, name) = "single" => ConcurrencyOf(k).output = "list"
    BY <1>2, <1>6, RunsAreValid, OutputIsValid
  <2>3. s = "skipped"
    BY <2>1, <2>2 DEF OfTask
  <2> DEFINE x == TaskResultOf(r)
             t == x.task
  <2>4. x \in DOMAIN taskResults /\ taskResults[x] = "value" /\ x.execution = k
    BY <2>1 DEF OfTask, TaskResultOf, TaskResultKey
  <2>5. TaskResultOwned(x)
    BY <2>4 DEF EntriesOwned
  <2>6. /\ k \in DOMAIN executions /\ t \in DOMAIN executions[k].tasks /\ t # None
        /\ TaskSpec(k, t).included
        /\ Child(k, t) \in DOMAIN runs => executions[k].tasks[t] = "succeeded"
    BY <2>4, <2>5, TypesTellOwners DEF TaskResultOwned, OwnersDiffer
  <2>7. executions[k].tasks[t] = "skipped"
    BY <1>1, <2>3, <2>6 DEF EndsExplained, Explained, AllSkipped
  <2>8. CallKey(k, t) \in DOMAIN calls
    BY <2>4, <2>6, <2>7 DEF Sourced
  <2>9. executions[k].tasks[t] \in OwnerMay(calls[CallKey(k, t)].status)
    BY <2>6, <2>8 DEF Life, CallLife, OwnerStatus, CallKey
  <2> QED
    BY <2>7, <2>9 DEF OwnerMay
<1> QED
  BY <1>3, <1>4, <1>5, <1>6

\* An invocation that succeeded, and can have one result only, has it.
LEMMA ResultIfSucceeded ==
  ASSUME TypeOK, OwnersExist, Counted, Life, EndsExplained, NEW k \in DOMAIN invocations, InvocationEnded(k),
         invocations[k].status = "succeeded", KindOf(k.run, k.placement) = "single"
  PROVE  \E r \in ResultsOf(k.run, k.placement) : InvocationOf(r) = k
<1>1. /\ k = InvocationKey(k.run, k.placement, k.trigger)
      /\ k.run \in DOMAIN runs /\ k.placement \in Placements(WorkflowOf(k.run))
      /\ ConcurrencyOf(k) = PlacementOf(k.run, k.placement)
  BY InvocationsAreIn
<1> DEFINE type == ConcurrencyOf(k).type
           c == CallKey(k, None)
<1>2. Provided(k)
  BY DEF Life
<1>3. Explained(k)
  BY DEF EndsExplained
<1>4. CASE type \in {"function", "branch"}
  <2>1. c \in DOMAIN calls
    BY <1>2, <1>4 DEF Provided
  <2>2. CallEnded(calls[c].status)
    BY <2>1 DEF InvocationEnded
  <2>3. "succeeded" \in OwnerMay(calls[c].status)
    BY <2>1 DEF Life, CallLife, OwnerStatus, CallKey
  <2>4. calls[c].status = "returned"
    BY <2>2, <2>3 DEF OwnerMay, CallEnded
  <2>5. ~IsStream(c)
    BY SingleCalls
  <2>6. 0 \in 0..MaxYields
    BY MachineAssumption
  <2>7. Has(c, 0)
    BY <2>1, <2>4, <2>5, <2>6 DEF Counted, Answered
  <2>8. CallResult(c, 0) \in DOMAIN results
    BY <2>7 DEF Has, CallKey
  <2>9. /\ CallResult(c, 0).run = k.run /\ CallResult(c, 0).label.placement = k.placement
        /\ CallResult(c, 0).label.trigger = k.trigger
    BY DEF CallResult, ResultKey, Label, CallKey
  <2> QED
    BY <1>1, <2>8, <2>9 DEF ResultsOf, InvocationOf
<1>5. CASE type = "subworkflow"
  <2>1. Returned(k) \in DOMAIN results
    BY <1>3, <1>5 DEF Explained, HasResult
  <2>2. Returned(k).run = k.run /\ Returned(k).label.placement = k.placement /\ Returned(k).label.trigger = k.trigger
    BY DEF Returned, ResultKey, Label
  <2> QED
    BY <1>1, <2>1, <2>2 DEF ResultsOf, InvocationOf
<1>6. CASE type = "concurrency"
  <2>1. ConcurrencyOf(k).output = "list"
    BY <1>1, <1>6, RunsAreValid, OutputIsValid
  <2>2. ListResult(k) \in DOMAIN results
    BY <1>3, <1>6, <2>1 DEF Explained, HasResult
  <2>3. ListResult(k).run = k.run /\ ListResult(k).label.placement = k.placement /\ ListResult(k).label.trigger = k.trigger
    BY DEF ListResult, ResultKey, Label
  <2> QED
    BY <1>1, <2>2, <2>3 DEF ResultsOf, InvocationOf
<1> QED
  BY <1>2, <1>4, <1>5, <1>6 DEF Provided

\* The result of an invocation of a branch is at the arm it chose.
LEMMA BranchResult ==
  ASSUME TypeOK, OwnersExist, EntriesOwned,
         NEW path, NEW name, PlacementOf(path, name).type = "branch", NEW r \in ResultsOf(path, name)
  PROVE  results[r].arm = invocations[InvocationOf(r)].arm
<1>1. OfCall(r) /\ InvocationOf(r) \in InvocationsOf(path, name)
  BY ResultsAreOf DEF Collecting
<1>2. ConcurrencyOf(InvocationOf(r)) = PlacementOf(path, name)
  BY <1>1 DEF InvocationsOf, ConcurrencyOf
<1> QED
  BY <1>1, <1>2 DEF OfCall

-----------------------------------------------------------------------------
(* What a placement settles with: its input *)

\* The outcome and arms o fit the results of the placement.
Fits(path, name, o) ==
  LET all == ResultsOf(path, name)
      one == KindOf(path, name) = "single"
      of(arm) == {r \in all : results[r].arm = arm}
  IN  /\ o.outcome = "normal" => (one => Cardinality(all) = 1)
      /\ o.outcome # "normal" => all = {}
      /\ \A arm \in DOMAIN o.arms :
           /\ o.arms[arm] = "normal" => (one => Cardinality(of(arm)) = 1)
           /\ o.arms[arm] # "normal" => of(arm) = {}
AllFit == \A s \in DOMAIN settled : Fits(s.run, s.placement, settled[s])

\* The results that fit the outcomes are those that the property asks for.
LEMMA FitsMatch == AllFit <=> OutcomesMatchResults
BY DEF AllFit, Fits, OutcomesMatchResults

\* A source that settled without a result brings nothing.
LEMMA NothingFromSource ==
  ASSUME TypeOK, EntriesOwned, AllFit, NEW path \in DOMAIN runs, NEW i \in Edges(WorkflowOf(path)),
         LET c == Edge(WorkflowOf(path), i)
         IN  IsSettled(path, c.source) /\ ArmOutcome(settled[SettledKey(path, c.source)], c.arm) # "normal"
  PROVE  Eligible(path, Edge(WorkflowOf(path), i)) = {} /\ DeliveriesOn(path, i) = {}
<1> PICK c : c = Edge(WorkflowOf(path), i)
  OBVIOUS
<1> PICK s : s = SettledKey(path, c.source)
  OBVIOUS
<1>1. /\ IF PlacementOf(path, c.source).type = "branch" THEN c.arm \in PlacementOf(path, c.source).arms
                                                         ELSE c.arm = None
      /\ PlacementOf(path, c.source).type = "branch" => None \notin PlacementOf(path, c.source).arms
  BY RunsAreValid, WorkflowIsValid, OutputIsValid DEF ValidConnection
<1>2. s \in DOMAIN settled /\ s.run = path /\ s.placement = c.source
  BY DEF IsSettled, SettledKey
<1>3. DOMAIN settled[s].arms = IF PlacementOf(path, c.source).type = "branch"
                               THEN PlacementOf(path, c.source).arms ELSE {}
  BY <1>2 DEF EntriesOwned, SettlementOwned
<1>4. Fits(path, c.source, settled[s])
  BY <1>2 DEF AllFit
<1>5. Eligible(path, c) = {}
  <2>1. CASE c.arm \in DOMAIN settled[s].arms
    <3>1. settled[s].arms[c.arm] # "normal"
      BY <2>1 DEF ArmOutcome
    <3>2. c.arm # None
      BY <1>1, <1>3, <2>1
    <3> QED
      BY <1>4, <2>1, <3>1, <3>2 DEF Fits, Eligible
  <2>2. CASE c.arm \notin DOMAIN settled[s].arms
    <3>1. settled[s].outcome # "normal"
      BY <2>2 DEF ArmOutcome
    <3> QED
      BY <1>4, <3>1 DEF Fits, Eligible
  <2> QED
    BY <2>1, <2>2
<1>6. DeliveriesOn(path, i) = {}
  BY <1>5 DEF DeliveriesOn, EntriesOwned, DeliveryOwned
<1> QED
  BY <1>5, <1>6

\* What it means that a Single connection is resolved.
LEMMA SingleResolved ==
  ASSUME TypeOK, EntriesOwned, SinglesHaveOne, AllFit, NEW path \in DOMAIN runs, NEW i \in Edges(WorkflowOf(path)),
         KindOf(path, Edge(WorkflowOf(path), i).source) = "single"
  PROVE  LET x == ResolveSingle(path, i)
             found == DeliveriesOn(path, i)
         IN  /\ x.kind # "pending" => Drained(path, i)
             /\ x.kind = "value" => \E d : found = {d} /\ deliveries[d] # "failed" /\ x.trigger = <<d.source>>
             /\ x.kind = "transformFailed" => \E d : found = {d} /\ deliveries[d] = "failed"
             /\ x.kind \in {"skipped", "failure"} => found = {}
<1> PICK c : c = Edge(WorkflowOf(path), i)
  OBVIOUS
<1> DEFINE x == ResolveSingle(path, i)
           found == DeliveriesOn(path, i)
           first == CHOOSE d \in found : TRUE
           source == SettledKey(path, c.source)
<1>1. CASE found # {}
  <2>1. first \in found /\ found = {first}
    BY <1>1, SingleDelivery
  <2>2. x.kind = (IF deliveries[first] = "failed" THEN "transformFailed" ELSE "value")
    BY <1>1 DEF ResolveSingle
  <2>3. deliveries[first] # "failed" => x.trigger = <<first.source>>
    BY <1>1 DEF ResolveSingle
  <2>4. c.source \in Placements(WorkflowOf(path))
    BY RunsAreValid, WorkflowIsValid DEF ValidConnection
  <2>5. OneResult(path, c.source)
    BY <2>4 DEF SinglesHaveOne
  <2>6. first = DeliveryKey(path, i, first.source) /\ ResultKey(path, first.source) \in ResultsOf(path, c.source)
    BY <2>1 DEF DeliveriesOn, EntriesOwned, DeliveryOwned, Eligible
  <2>7. \A r \in Eligible(path, c) : IsDelivered(path, i, r.label)
    <3> TAKE r \in Eligible(path, c)
    <3>1. r = ResultKey(path, first.source)
      BY <2>5, <2>6 DEF OneResult, Eligible
    <3> QED
      BY <2>1, <2>6, <3>1 DEF IsDelivered, DeliveriesOn, ResultKey
  <2>8. Drained(path, i)
    BY <1>1, <2>7 DEF Drained
  <2> HIDE DEF first, x, found
  <2> QED
    BY <2>1, <2>2, <2>3, <2>8 DEF x, found
<1>2. CASE found = {} /\ source \notin DOMAIN settled
  BY <1>2 DEF ResolveSingle
<1>3. CASE found = {} /\ source \in DOMAIN settled
  <2>1. x.kind = CASE ArmOutcome(settled[source], c.arm) = "normal"  -> "pending"
                   [] ArmOutcome(settled[source], c.arm) = "skipped" -> "skipped"
                   [] OTHER                                          -> "failure"
    BY <1>3 DEF ResolveSingle
  <2>2. x.kind \in {"pending", "skipped", "failure"}
    BY <2>1
  <2>3. ASSUME x.kind # "pending"
        PROVE  Drained(path, i)
    <3>1. ArmOutcome(settled[source], c.arm) # "normal"
      BY <2>1, <2>3
    <3>2. Eligible(path, c) = {}
      BY <1>3, <3>1, NothingFromSource DEF IsSettled
    <3> QED
      BY <1>3, <3>2 DEF Drained, IsSettled
  <2> HIDE DEF x
  <2> QED
    BY <1>3, <2>2, <2>3 DEF x
<1> QED
  BY <1>1, <1>2, <1>3

\* What has been due so far: everything in the state but what is settled.
Accounts ==
  /\ TypeOK /\ OwnersExist /\ Counted /\ Sourced /\ Life
  /\ EntriesOwned /\ EndsExplained /\ SinglesHaveOne /\ AllFit

\* Every invocation of the placement has ended.
AllEnded(path, name) == \A k \in InvocationsOf(path, name) : InvocationEnded(k)

\* The input of a placement is used up.
UsedUp(path, name) ==
  LET shape == Shape(path, name)
      input == ResolveSingle(path, shape.index)
  IN  \/ shape.kind \in {"none", "entry"} /\ InvocationKey(path, name, <<>>) \in DOMAIN invocations
      \/ /\ shape.kind = "single"
         /\ input.kind # "pending"
         /\ input.kind = "value" => InvocationKey(path, name, input.trigger) \in DOMAIN invocations
      \/ shape.kind = "stream" /\ StreamEnded(path, shape.index) /\ Triggered(path, name, shape.index)

\* A placement whose input is used up and whose work has ended is exhausted.
LEMMA UsedUpIsExhausted ==
  ASSUME Accounts, NEW path \in DOMAIN runs, NEW name \in Placements(WorkflowOf(path)),
         PlacementOf(path, name).type \notin Collecting, AllEnded(path, name), UsedUp(path, name)
  PROVE  Exhausted(path, name)
<1> PICK shape : shape = Shape(path, name)
  OBVIOUS
<1> DEFINE incoming == Incoming(WorkflowOf(path), name)
           input == ResolveSingle(path, shape.index)
<1>1. /\ incoming = {} => shape.kind \in {"none", "entry"}
      /\ incoming # {} => /\ incoming = {shape.index}
                          /\ shape.kind = KindOf(path, Edge(WorkflowOf(path), shape.index).source)
                          /\ shape.kind \in {"single", "stream"}
  BY ShapesAre DEF Accounts, Collecting
<1>2. CASE incoming = {}
  BY <1>1, <1>2 DEF UsedUp, Exhausted, AllEnded
<1>3. CASE incoming # {} /\ shape.kind = "single"
  <2>1. shape.index \in Edges(WorkflowOf(path))
    BY <1>1, <1>3 DEF Incoming
  <2>2. input.kind # "pending" /\ (input.kind = "value" => InvocationKey(path, name, input.trigger) \in DOMAIN invocations)
    BY <1>3 DEF UsedUp
  <2>3. /\ Drained(path, shape.index)
        /\ input.kind = "value" =>
             \E d : DeliveriesOn(path, shape.index) = {d} /\ deliveries[d] # "failed" /\ input.trigger = <<d.source>>
        /\ input.kind = "transformFailed" => \E d : DeliveriesOn(path, shape.index) = {d} /\ deliveries[d] = "failed"
        /\ input.kind \in {"skipped", "failure"} => DeliveriesOn(path, shape.index) = {}
    BY <1>1, <1>3, <2>1, <2>2, SingleResolved DEF Accounts
  <2>4. input.kind \in {"pending", "value", "transformFailed", "skipped", "failure"}
    BY ResolutionKinds
  <2> HIDE DEF input
  <2>5. Triggered(path, name, shape.index)
    BY <2>2, <2>3, <2>4 DEF Triggered
  <2> QED
    BY <1>1, <1>3, <2>3, <2>5 DEF Exhausted, AllEnded
<1>4. CASE incoming # {} /\ shape.kind = "stream"
  <2>1. StreamEnded(path, shape.index) /\ Triggered(path, name, shape.index)
    BY <1>4 DEF UsedUp
  <2>2. Drained(path, shape.index)
    BY <2>1 DEF StreamEnded, Drained
  <2> QED
    BY <1>1, <1>4, <2>1, <2>2 DEF Exhausted, AllEnded
<1> QED
  BY <1>1, <1>2, <1>3, <1>4

\* A placement that was brought nothing has no result.
LEMMA NothingBrought ==
  ASSUME Accounts, NEW path \in DOMAIN runs, NEW name \in Placements(WorkflowOf(path)),
         PlacementOf(path, name).type \notin Collecting,
         LET shape == Shape(path, name)
         IN  /\ shape.kind \in {"single", "stream"}
             /\ \/ \A d \in DeliveriesOn(path, shape.index) : deliveries[d] = "failed"
                \/ /\ shape.kind = "single"
                   /\ ResolveSingle(path, shape.index).kind \in {"transformFailed", "skipped", "failure"}
                \/ /\ shape.kind = "stream"
                   /\ StreamEnded(path, shape.index) /\ StreamOutcome(path, shape.index) = "skipped"
  PROVE  ResultsOf(path, name) = {}
<1> PICK shape : shape = Shape(path, name)
  OBVIOUS
<1>1. /\ shape.index \in Edges(WorkflowOf(path))
      /\ shape.kind = KindOf(path, Edge(WorkflowOf(path), shape.index).source)
  BY ShapesAre DEF Accounts, Collecting, Incoming
<1>2. \A d \in DeliveriesOn(path, shape.index) : deliveries[d] = "failed"
  <2>1. CASE shape.kind = "single" /\ ResolveSingle(path, shape.index).kind \in {"transformFailed", "skipped", "failure"}
    <3> DEFINE input == ResolveSingle(path, shape.index)
    <3>1. /\ input.kind = "transformFailed" => \E d : DeliveriesOn(path, shape.index) = {d} /\ deliveries[d] = "failed"
          /\ input.kind \in {"skipped", "failure"} => DeliveriesOn(path, shape.index) = {}
      BY <1>1, <2>1, SingleResolved DEF Accounts
    <3> HIDE DEF input
    <3>2. input.kind \in {"transformFailed", "skipped", "failure"}
      BY <2>1 DEF input
    <3> QED
      BY <3>1, <3>2
  <2>2. CASE shape.kind = "stream" /\ StreamEnded(path, shape.index) /\ StreamOutcome(path, shape.index) = "skipped"
    BY <1>1, <2>2, NothingFromSource DEF Accounts, StreamEnded, StreamOutcome
  <2> QED
    BY <2>1, <2>2
<1>3. InvocationsOf(path, name) = {}
  <2> SUFFICES ASSUME NEW k \in InvocationsOf(path, name)
               PROVE  FALSE
    OBVIOUS
  <2>1. InvocationTriggered(k) /\ k.run = path /\ k.placement = name
    BY DEF Accounts, EntriesOwned, InvocationsOf
  <2> QED
    BY <1>2, <2>1 DEF InvocationTriggered
<1> QED
  BY <1>3, ResultsAreOf DEF Accounts

\* What settles to nothing fits a placement without results.
LEMMA NothingFits ==
  ASSUME NEW path, NEW name, ResultsOf(path, name) = {}, NEW o, o.outcome # "normal",
         \A arm \in DOMAIN o.arms : o.arms[arm] # "normal"
  PROVE  Fits(path, name, o)
BY DEF Fits

\* The only invocation of a placement and its results.
LEMMA OnlyInvocation ==
  ASSUME Accounts, NEW path \in DOMAIN runs, NEW name \in Placements(WorkflowOf(path)),
         PlacementOf(path, name).type \notin Collecting, AllEnded(path, name), Shape(path, name).kind # "stream",
         NEW trigger, InvocationKey(path, name, trigger) \in DOMAIN invocations
  PROVE  LET k == InvocationKey(path, name, trigger)
             s == invocations[k].status
         IN  /\ s # "active"
             /\ \A r \in ResultsOf(path, name) : InvocationOf(r) = k
             /\ s = "skipped" => ResultsOf(path, name) = {}
             /\ KindOf(path, name) = "single" /\ s # "succeeded" => ResultsOf(path, name) = {}
             /\ KindOf(path, name) = "single" /\ s = "succeeded" =>
                  \E r : ResultsOf(path, name) = {r} /\ Cardinality(ResultsOf(path, name)) = 1
<1> PICK k : k = InvocationKey(path, name, trigger)
  OBVIOUS
<1> DEFINE s == invocations[k].status
<1>1. k \in DOMAIN invocations /\ k.run = path /\ k.placement = name /\ k \in InvocationsOf(path, name)
  BY DEF InvocationKey, InvocationsOf
<1>2. InvocationEnded(k) /\ s # "active"
  BY <1>1 DEF AllEnded, InvocationEnded
<1>3. \A r \in ResultsOf(path, name) : InvocationOf(r) = k
  BY <1>1, SingleInvocation, ResultsAreOf DEF Accounts
<1>4. s = "skipped" => ResultsOf(path, name) = {}
  BY <1>3, NoResultUnlessSucceeded DEF Accounts
<1>5. KindOf(path, name) = "single" /\ s # "succeeded" => ResultsOf(path, name) = {}
  BY <1>3, NoResultUnlessSucceeded DEF Accounts
<1>6. ASSUME KindOf(path, name) = "single", s = "succeeded"
      PROVE  \E r : ResultsOf(path, name) = {r} /\ Cardinality(ResultsOf(path, name)) = 1
  <2>1. PICK r \in ResultsOf(path, name) : InvocationOf(r) = k
    BY <1>1, <1>2, <1>6, ResultIfSucceeded DEF Accounts
  <2>2. OneResult(path, name)
    BY <1>6 DEF Accounts, SinglesHaveOne
  <2>3. ResultsOf(path, name) = {r}
    BY <2>2 DEF OneResult
  <2> QED
    BY <2>3, FS_Singleton
<1> QED
  BY <1>2, <1>3, <1>4, <1>5, <1>6

-----------------------------------------------------------------------------
(* What a placement settles with *)

\* A branch settles once its input is used up, with what it chose.
LEMMA BranchSettles ==
  ASSUME Accounts, NEW path \in DOMAIN runs, NEW name \in Placements(WorkflowOf(path)),
         PlacementOf(path, name).type = "branch", AllEnded(path, name),
         NEW o \in BranchSettlement(path, name, Shape(path, name))
  PROVE  /\ o.list = <<>>
         /\ UsedUp(path, name)
         /\ Fits(path, name, o)
<1> PICK shape : shape = Shape(path, name)
  OBVIOUS
<1> DEFINE arms == PlacementOf(path, name).arms
           key(trigger) == InvocationKey(path, name, trigger)
           every(outcome) == SettleArms(outcome, [arm \in arms |-> outcome])
           by(trigger) ==
             LET inv == invocations[key(trigger)]
             IN  CASE key(trigger) \notin DOMAIN invocations -> {}
                   [] key(trigger) \in DOMAIN invocations /\ inv.status = "succeeded" ->
                        SettleArms("normal", [arm \in arms |-> IF inv.arm = arm THEN "normal" ELSE "skipped"])
                   [] key(trigger) \in DOMAIN invocations /\ inv.status \in {"skipped", "upstreamFailed"} ->
                        every(inv.status)
                   [] OTHER -> every("failed")
           input == ResolveSingle(path, shape.index)
           chosen == {results[r].arm : r \in ResultsOf(path, name)}
           untaken(arm) == chosen # {} /\ arm \notin chosen /\ NoOwnFailure(path, name, shape.index)
           ofArm(arm) == {r \in ResultsOf(path, name) : results[r].arm = arm}
<1>1. /\ PlacementOf(path, name).type \notin Collecting
      /\ shape.kind \in {"entry", "single", "stream"}
      /\ shape.kind = "stream" <=> KindOf(path, name) = "stream"
      /\ KindOf(path, name) \in {"single", "stream"}
  BY ShapesAre DEF Accounts, Collecting
<1>2. ASSUME NEW outcome, o \in every(outcome)
      PROVE  o.list = <<>> /\ o.outcome = outcome /\ \A arm \in DOMAIN o.arms : o.arms[arm] = outcome
  BY <1>2 DEF SettleArms
<1>3. ASSUME NEW trigger, shape.kind # "stream", o \in by(trigger)
      PROVE  o.list = <<>> /\ key(trigger) \in DOMAIN invocations /\ Fits(path, name, o)
  <2> PICK k : k = key(trigger)
    OBVIOUS
  <2> DEFINE inv == invocations[k]
  <2>1. k \in DOMAIN invocations
    BY <1>3
  <2>2. /\ inv.status # "active"
        /\ \A r \in ResultsOf(path, name) : InvocationOf(r) = k
        /\ inv.status # "succeeded" => ResultsOf(path, name) = {}
        /\ inv.status = "succeeded" => \E r : ResultsOf(path, name) = {r} /\ Cardinality(ResultsOf(path, name)) = 1
    BY <1>1, <1>3, <2>1, OnlyInvocation
  <2>3. CASE inv.status = "succeeded"
    <3>1. o \in SettleArms("normal", [arm \in arms |-> IF inv.arm = arm THEN "normal" ELSE "skipped"])
      BY <1>3, <2>1, <2>3
    <3>2. /\ o.list = <<>> /\ o.outcome = "normal"
          /\ \A arm \in DOMAIN o.arms : o.arms[arm] = IF inv.arm = arm THEN "normal" ELSE "skipped"
      BY <3>1 DEF SettleArms
    <3>3. PICK r : ResultsOf(path, name) = {r} /\ Cardinality(ResultsOf(path, name)) = 1
      BY <2>2, <2>3
    <3>4. results[r].arm = inv.arm
      BY <2>2, <3>3, BranchResult DEF Accounts
    <3>5. \A arm : IF inv.arm = arm THEN ofArm(arm) = {r} /\ Cardinality(ofArm(arm)) = 1 ELSE ofArm(arm) = {}
      BY <3>3, <3>4, FS_Singleton
    <3> HIDE DEF inv, ofArm
    <3>6. \A arm \in DOMAIN o.arms :
            /\ o.arms[arm] = "normal" => Cardinality(ofArm(arm)) = 1
            /\ o.arms[arm] # "normal" => ofArm(arm) = {}
      BY <3>2, <3>5
    <3> QED
      BY <2>1, <3>2, <3>3, <3>6 DEF Fits, ofArm
  <2>4. CASE inv.status # "succeeded"
    <3>1. \E outcome \in {"skipped", "upstreamFailed", "failed"} : o \in every(outcome)
      BY <1>3, <2>1, <2>4
    <3> HIDE DEF every
    <3>2. o.list = <<>> /\ o.outcome # "normal" /\ \A arm \in DOMAIN o.arms : o.arms[arm] # "normal"
      BY <1>2, <3>1
    <3> QED
      BY <2>1, <2>2, <2>4, <3>2, NothingFits
  <2> QED
    BY <2>3, <2>4
<1>4. CASE shape.kind = "entry"
  <2>1. o \in by(<<>>)
    BY <1>4 DEF BranchSettlement
  <2> HIDE DEF by
  <2> QED
    BY <1>3, <1>4, <2>1 DEF UsedUp
<1>5. CASE shape.kind = "single"
  <2>1. o \in CASE input.kind = "pending"         -> {}
                [] input.kind = "value"           -> by(input.trigger)
                [] input.kind = "transformFailed" -> every("failed")
                [] input.kind = "skipped"         -> every("skipped")
                [] input.kind = "failure"         -> every("upstreamFailed")
    BY <1>5 DEF BranchSettlement
  <2>2. input.kind \in {"pending", "value", "transformFailed", "skipped", "failure"}
    BY ResolutionKinds
  <2> HIDE DEF by, every, input
  <2>3. CASE input.kind = "value"
    <3>1. o \in by(input.trigger)
      BY <2>1, <2>3
    <3>2. o.list = <<>> /\ key(input.trigger) \in DOMAIN invocations /\ Fits(path, name, o)
      BY <1>3, <1>5, <3>1
    <3> QED
      BY <1>5, <2>3, <3>2 DEF UsedUp, input
  <2>4. CASE input.kind \in {"transformFailed", "skipped", "failure"}
    <3>1. \E outcome \in {"skipped", "upstreamFailed", "failed"} : o \in every(outcome)
      BY <2>1, <2>4
    <3>2. o.list = <<>> /\ o.outcome # "normal" /\ \A arm \in DOMAIN o.arms : o.arms[arm] # "normal"
      BY <1>2, <3>1
    <3>3. ResultsOf(path, name) = {}
      BY <1>1, <1>5, <2>4, NothingBrought DEF input
    <3>4. UsedUp(path, name)
      BY <1>5, <2>4 DEF UsedUp, input
    <3> QED
      BY <3>2, <3>3, <3>4, NothingFits
  <2>5. input.kind # "pending"
    BY <2>1
  <2> QED
    BY <2>2, <2>3, <2>4, <2>5
<1>6. CASE shape.kind = "stream"
  <2>1. o \in IF ~(StreamEnded(path, shape.index) /\ Triggered(path, name, shape.index)) THEN {}
              ELSE IF StreamOutcome(path, shape.index) = "skipped" THEN every("skipped")
              ELSE SettleArms("normal", [arm \in arms |-> IF untaken(arm) THEN "skipped" ELSE "normal"])
    BY <1>6 DEF BranchSettlement
  <2>2. StreamEnded(path, shape.index) /\ Triggered(path, name, shape.index)
    BY <2>1
  <2>3. UsedUp(path, name)
    BY <1>6, <2>2 DEF UsedUp
  <2>4. CASE StreamOutcome(path, shape.index) = "skipped"
    <3>1. o \in every("skipped")
      BY <2>1, <2>4
    <3> HIDE DEF every
    <3>2. o.list = <<>> /\ o.outcome # "normal" /\ \A arm \in DOMAIN o.arms : o.arms[arm] # "normal"
      BY <1>2, <3>1
    <3>3. ResultsOf(path, name) = {}
      BY <1>1, <1>6, <2>2, <2>4, NothingBrought
    <3> QED
      BY <2>3, <3>2, <3>3, NothingFits
  <2>5. CASE StreamOutcome(path, shape.index) # "skipped"
    <3>1. o \in SettleArms("normal", [arm \in arms |-> IF untaken(arm) THEN "skipped" ELSE "normal"])
      BY <2>1, <2>2, <2>5
    <3>2. /\ o.list = <<>> /\ o.outcome = "normal"
          /\ \A arm \in DOMAIN o.arms : o.arms[arm] # "normal" => arm \notin chosen
      <4> HIDE DEF chosen
      <4> QED
        BY <3>1 DEF SettleArms
    <3>3. \A arm : arm \notin chosen => ofArm(arm) = {}
      OBVIOUS
    <3> HIDE DEF chosen, ofArm
    <3>4. \A arm \in DOMAIN o.arms : o.arms[arm] # "normal" => ofArm(arm) = {}
      BY <3>2, <3>3
    <3>5. KindOf(path, name) # "single"
      BY <1>1, <1>6
    <3> QED
      BY <2>3, <3>2, <3>4, <3>5 DEF Fits, ofArm
  <2> QED
    BY <2>4, <2>5
<1> QED
  BY <1>1, <1>4, <1>5, <1>6

\* A placement that does work settles once its input is used up, with what
\* its invocations ended with.
LEMMA WorkSettles ==
  ASSUME Accounts, NEW path \in DOMAIN runs, NEW name \in Placements(WorkflowOf(path)),
         PlacementOf(path, name).type \notin Collecting \cup {"branch"}, AllEnded(path, name),
         NEW o \in WorkSettlement(path, name, Shape(path, name))
  PROVE  /\ o.list = <<>>
         /\ UsedUp(path, name)
         /\ Fits(path, name, o)
<1> PICK shape : shape = Shape(path, name)
  OBVIOUS
<1> DEFINE kind == KindOf(path, name)
           key(trigger) == InvocationKey(path, name, trigger)
           by(trigger) ==
             {[outcome |-> InvocationOutcome(kind, invocations[k].status), arms |-> <<>>, list |-> <<>>] :
                k \in {key(trigger)} \cap DOMAIN invocations}
           input == ResolveSingle(path, shape.index)
           own == InvocationsOf(path, name)
           skips == /\ own # {}
                    /\ \A k \in own : invocations[k].status = "skipped"
                    /\ NoOwnFailure(path, name, shape.index)
<1>1. /\ PlacementOf(path, name).type \notin Collecting
      /\ shape.kind \in {"none", "entry", "single", "stream"}
      /\ kind = "single" => shape.kind # "stream"
      /\ kind \in {"single", "stream"}
  BY ShapesAre DEF Accounts, Collecting
<1>2. ASSUME NEW outcome, o \in Settle1(outcome), outcome # "normal" => ResultsOf(path, name) = {},
             outcome = "normal" => kind = "stream"
      PROVE  o.list = <<>> /\ Fits(path, name, o)
  <2>1. o.list = <<>> /\ o.outcome = outcome /\ DOMAIN o.arms = {}
    BY <1>2 DEF Settle1
  <2> QED
    BY <1>2, <2>1 DEF Fits
<1>3. ASSUME NEW trigger, shape.kind # "stream", o \in by(trigger)
      PROVE  o.list = <<>> /\ key(trigger) \in DOMAIN invocations /\ Fits(path, name, o)
  <2> PICK k : k = key(trigger)
    OBVIOUS
  <2> DEFINE s == invocations[k].status
  <2>1. /\ k \in DOMAIN invocations
        /\ o.outcome = InvocationOutcome(kind, s) /\ DOMAIN o.arms = {} /\ o.list = <<>>
    BY <1>3
  <2>2. /\ s # "active"
        /\ s = "skipped" => ResultsOf(path, name) = {}
        /\ kind = "single" /\ s # "succeeded" => ResultsOf(path, name) = {}
        /\ kind = "single" /\ s = "succeeded" => Cardinality(ResultsOf(path, name)) = 1
    BY <1>1, <1>3, <2>1, OnlyInvocation
  <2> HIDE DEF s, kind
  <2>3. /\ o.outcome = "normal" => kind = "stream" \/ s = "succeeded"
        /\ o.outcome # "normal" => s = "skipped" \/ (kind = "single" /\ s # "succeeded")
    BY <1>1, <2>1 DEF InvocationOutcome
  <2> QED
    BY <1>1, <2>1, <2>2, <2>3 DEF Fits, kind
<1>4. CASE shape.kind \in {"none", "entry"}
  <2>1. o \in by(<<>>)
    BY <1>4 DEF WorkSettlement
  <2> HIDE DEF by
  <2> QED
    BY <1>3, <1>4, <2>1 DEF UsedUp
<1>5. CASE shape.kind = "single"
  <2>1. o \in CASE input.kind = "pending"         -> {}
                [] input.kind = "value"           -> by(input.trigger)
                [] input.kind = "transformFailed" -> Settle1(MissingOutcome(kind, "failed"))
                [] input.kind = "skipped"         -> Settle1("skipped")
                [] input.kind = "failure"         -> Settle1(MissingOutcome(kind, "upstreamFailed"))
    BY <1>5 DEF WorkSettlement
  <2>2. input.kind \in {"pending", "value", "transformFailed", "skipped", "failure"}
    BY ResolutionKinds
  <2> HIDE DEF by, input, kind
  <2>3. CASE input.kind = "value"
    <3>1. o \in by(input.trigger)
      BY <2>1, <2>3
    <3>2. o.list = <<>> /\ key(input.trigger) \in DOMAIN invocations /\ Fits(path, name, o)
      BY <1>3, <1>5, <3>1
    <3> QED
      BY <1>5, <2>3, <3>2 DEF UsedUp, input
  <2>4. CASE input.kind \in {"transformFailed", "skipped", "failure"}
    <3>1. \E outcome : /\ o \in Settle1(outcome)
                       /\ outcome = "normal" => kind = "stream"
      <4>1. \A reason \in {"failed", "upstreamFailed"} : MissingOutcome(kind, reason) = "normal" => kind = "stream"
        BY DEF MissingOutcome
      <4> QED
        BY <2>1, <2>4, <4>1
    <3>2. ResultsOf(path, name) = {}
      BY <1>1, <1>5, <2>4, NothingBrought DEF input
    <3>3. UsedUp(path, name)
      BY <1>5, <2>4 DEF UsedUp, input
    <3> QED
      BY <1>2, <3>1, <3>2, <3>3
  <2>5. input.kind # "pending"
    BY <2>1
  <2> QED
    BY <2>2, <2>3, <2>4, <2>5
<1>6. CASE shape.kind = "stream"
  <2>1. o \in IF ~(StreamEnded(path, shape.index) /\ Triggered(path, name, shape.index)) THEN {}
              ELSE Settle1(IF StreamOutcome(path, shape.index) = "skipped" \/ skips THEN "skipped" ELSE "normal")
    BY <1>6 DEF WorkSettlement
  <2>2. StreamEnded(path, shape.index) /\ Triggered(path, name, shape.index)
    BY <2>1
  <2>3. UsedUp(path, name)
    BY <1>6, <2>2 DEF UsedUp
  <2>4. kind = "stream"
    BY <1>1, <1>6
  <2>5. CASE StreamOutcome(path, shape.index) = "skipped" \/ skips
    <3>1. ResultsOf(path, name) = {}
      <4>1. CASE StreamOutcome(path, shape.index) = "skipped"
        BY <1>1, <1>6, <2>2, <4>1, NothingBrought
      <4>2. CASE skips
        <5>1. \A r \in ResultsOf(path, name) : InvocationOf(r) \in own
          BY <1>1, ResultsAreOf DEF Accounts
        <5>2. \A r \in ResultsOf(path, name) : invocations[InvocationOf(r)].status = "skipped"
          BY <4>2, <5>1
        <5> QED
          BY <1>1, <5>2, NoResultUnlessSucceeded DEF Accounts
      <4> QED
        BY <2>5, <4>1, <4>2
    <3>2. o \in Settle1("skipped")
      BY <2>1, <2>2, <2>5
    <3> QED
      BY <1>2, <2>3, <3>1, <3>2
  <2>6. CASE ~(StreamOutcome(path, shape.index) = "skipped" \/ skips)
    <3>1. o \in Settle1("normal")
      BY <2>1, <2>2, <2>6
    <3> QED
      BY <1>2, <2>3, <2>4, <3>1
  <2> QED
    BY <2>5, <2>6
<1> QED
  BY <1>1, <1>4, <1>5, <1>6

-----------------------------------------------------------------------------
(* What a placement settles with: collections *)

\* What arrived at a placement that collects.
Arrived(path, name) ==
  {d \in DOMAIN deliveries :
    d.run = path /\ d.connection \in Incoming(WorkflowOf(path), name) /\ deliveries[d] = "value"}

\* A settlement of a placement that collects: of nothing, or of everything.
Collects(path, name, o) ==
  /\ \A i \in Incoming(WorkflowOf(path), name) : Drained(path, i)
  /\ \/ /\ o.list = <<>> /\ o.outcome # "normal"
        /\ \A i \in Incoming(WorkflowOf(path), name) : DeliveriesOn(path, i) = {}
     \/ /\ o.list # <<>> /\ o.outcome = "normal"
        /\ o.list[1] = {d.source : d \in Arrived(path, name)}

\* A waitStream settles once its input has ended.
LEMMA WaitStreamSettles ==
  ASSUME Accounts, NEW path \in DOMAIN runs, NEW name \in Placements(WorkflowOf(path)),
         PlacementOf(path, name).type = "waitStream",
         NEW o \in WaitStreamSettlement(path, Shape(path, name).index)
  PROVE  Collects(path, name, o)
<1> PICK i : i = Shape(path, name).index
  OBVIOUS
<1> DEFINE values == {d \in DeliveriesOn(path, i) : deliveries[d] = "value"}
<1>1. Incoming(WorkflowOf(path), name) = {i} /\ i \in Edges(WorkflowOf(path))
  BY ShapesAre DEF Accounts, Incoming
<1>2. StreamEnded(path, i)
  BY DEF WaitStreamSettlement
<1>3. Drained(path, i)
  BY <1>2 DEF StreamEnded, Drained
<1>4. CASE StreamOutcome(path, i) = "skipped"
  <2>1. o.list = <<>> /\ o.outcome # "normal"
    BY <1>2, <1>4 DEF WaitStreamSettlement, Settle1
  <2>2. DeliveriesOn(path, i) = {}
    BY <1>1, <1>2, <1>4, NothingFromSource DEF Accounts, StreamEnded, StreamOutcome
  <2> QED
    BY <1>1, <1>3, <2>1, <2>2 DEF Collects
<1>5. CASE StreamOutcome(path, i) # "skipped"
  <2>1. o \in Aggregate({d.source : d \in values})
    BY <1>2, <1>5 DEF WaitStreamSettlement
  <2>2. values = Arrived(path, name)
    BY <1>1 DEF Arrived, DeliveriesOn
  <2> HIDE DEF values
  <2>3. o.list # <<>> /\ o.outcome = "normal" /\ o.list[1] = {d.source : d \in values}
    BY <2>1 DEF Aggregate
  <2> QED
    BY <1>1, <1>3, <2>2, <2>3 DEF Collects
<1> QED
  BY <1>4, <1>5

\* A merge settles once each of its inputs is resolved.
LEMMA MergeSettles ==
  ASSUME Accounts, NEW path \in DOMAIN runs, NEW name \in Placements(WorkflowOf(path)),
         PlacementOf(path, name).type = "merge",
         NEW o \in MergeSettlement(path, name)
  PROVE  Collects(path, name, o)
<1> PICK incoming : incoming = Incoming(WorkflowOf(path), name)
  OBVIOUS
<1> DEFINE x(i) == ResolveSingle(path, i)
           merged == {x(i) : i \in incoming}
           values == {r \in merged : r.kind = "value"}
           gathered == {r.trigger[1] : r \in values}
<1>1. ASSUME NEW i \in incoming
      PROVE  /\ i \in Edges(WorkflowOf(path))
             /\ KindOf(path, Edge(WorkflowOf(path), i).source) = "single"
             /\ ~Edge(WorkflowOf(path), i).discard
  <2>1. i \in Edges(WorkflowOf(path)) /\ Edge(WorkflowOf(path), i).target = name
    BY DEF Incoming
  <2>2. Edge(WorkflowOf(path), i).discard = ~TakesInput(WorkflowTable, PlacementOf(path, name))
    BY <2>1, RunsAreValid, WorkflowIsValid DEF Accounts, ValidConnection, PlacementOf
  <2>3. TakesInput(WorkflowTable, PlacementOf(path, name))
    BY DEF TakesInput
  <2>4. KindOf(path, Edge(WorkflowOf(path), i).source) = "single"
    BY ShapesAre DEF Accounts
  <2> QED
    BY <2>1, <2>2, <2>3, <2>4
<1>2. ~\E r \in merged : r.kind = "pending"
  BY DEF MergeSettlement
<1>3. ASSUME NEW i \in incoming
      PROVE  /\ Drained(path, i)
             /\ x(i).kind = "value" =>
                  \E d : DeliveriesOn(path, i) = {d} /\ deliveries[d] # "failed" /\ x(i).trigger = <<d.source>>
             /\ x(i).kind = "transformFailed" => \E d : DeliveriesOn(path, i) = {d} /\ deliveries[d] = "failed"
             /\ x(i).kind \in {"skipped", "failure"} => DeliveriesOn(path, i) = {}
             /\ x(i).kind \in {"value", "transformFailed", "skipped", "failure"}
  <2>1. x(i).kind # "pending"
    BY <1>2
  <2>2. x(i).kind \in {"pending", "value", "transformFailed", "skipped", "failure"}
    BY ResolutionKinds
  <2> QED
    BY <1>1, <2>1, <2>2, SingleResolved DEF Accounts
<1>4. CASE \A r \in merged : r.kind = "skipped"
  <2>1. o.list = <<>> /\ o.outcome # "normal"
    BY <1>2, <1>4 DEF MergeSettlement, Settle1
  <2>2. \A i \in incoming : DeliveriesOn(path, i) = {}
    BY <1>3, <1>4
  <2> QED
    BY <1>3, <2>1, <2>2 DEF Collects
<1>5. CASE ~\A r \in merged : r.kind = "skipped"
  <2>1. o \in Aggregate(gathered)
    BY <1>2, <1>5 DEF MergeSettlement
  <2>2. ASSUME NEW v \in gathered
        PROVE  \E d \in Arrived(path, name) : v = d.source
    <3>1. PICK i \in incoming : x(i).kind = "value" /\ v = x(i).trigger[1]
      OBVIOUS
    <3>2. PICK d : DeliveriesOn(path, i) = {d} /\ deliveries[d] # "failed" /\ x(i).trigger = <<d.source>>
      BY <1>3, <3>1
    <3>3. d \in DOMAIN deliveries /\ d.run = path /\ d.connection = i
      BY <3>2 DEF DeliveriesOn
    <3>4. deliveries[d] = "value"
      BY <1>1, <3>2, <3>3 DEF Accounts, EntriesOwned, DeliveryOwned
    <3> QED
      BY <3>1, <3>2, <3>3, <3>4 DEF Arrived
  <2>3. ASSUME NEW d \in Arrived(path, name)
        PROVE  d.source \in gathered
    <3>1. d \in DOMAIN deliveries /\ d.run = path /\ d.connection \in incoming /\ deliveries[d] = "value"
      BY DEF Arrived
    <3> PICK i : i = d.connection
      OBVIOUS
    <3>2. i \in incoming /\ d \in DeliveriesOn(path, i)
      BY <3>1 DEF DeliveriesOn
    <3>3. x(i).kind = "value" /\ x(i).trigger = <<d.source>>
      <4> HIDE DEF x
      <4> QED
        BY <1>3, <3>1, <3>2
    <3>4. x(i) \in values
      BY <3>2, <3>3
    <3>5. x(i).trigger[1] = d.source
      BY <3>3
    <3> HIDE DEF values, x
    <3> QED
      BY <3>4, <3>5
  <2>4. gathered = {d.source : d \in Arrived(path, name)}
    <3> HIDE DEF gathered
    <3> QED
      BY <2>2, <2>3
  <2> HIDE DEF gathered
  <2>5. o.list # <<>> /\ o.outcome = "normal" /\ o.list[1] = gathered
    BY <2>1 DEF Aggregate
  <2> QED
    BY <1>3, <2>4, <2>5 DEF Collects
<1> QED
  BY <1>4, <1>5

\* A placement settles when it is exhausted, and with what its results are.
LEMMA SettlementSeals ==
  ASSUME Accounts, NEW path \in DOMAIN runs, NEW name \in Placements(WorkflowOf(path)),
         NEW o \in SettleOutcome(path, name)
  PROVE  /\ Exhausted(path, name)
         /\ PlacementOf(path, name).type \in Collecting => Collects(path, name, o)
         /\ PlacementOf(path, name).type \notin Collecting => o.list = <<>> /\ Fits(path, name, o)
<1> DEFINE type == PlacementOf(path, name).type
           shape == Shape(path, name)
<1>1. AllEnded(path, name)
  BY DEF SettleOutcome, AllEnded
<1>2. type \in NodeTypes
  BY ShapesAre DEF Accounts
<1>3. CASE type = "waitStream"
  <2>1. o \in WaitStreamSettlement(path, shape.index)
    BY <1>1, <1>3 DEF SettleOutcome, AllEnded
  <2>2. Collects(path, name, o)
    BY <1>3, <2>1, WaitStreamSettles
  <2> QED
    BY <1>1, <1>3, <2>2 DEF Exhausted, AllEnded, Collects, Collecting
<1>4. CASE type = "merge"
  <2>1. o \in MergeSettlement(path, name)
    BY <1>1, <1>4 DEF SettleOutcome, AllEnded
  <2>2. Collects(path, name, o)
    BY <1>4, <2>1, MergeSettles
  <2> QED
    BY <1>1, <1>4, <2>2 DEF Exhausted, AllEnded, Collects, Collecting
<1>5. CASE type = "branch"
  <2>1. o \in BranchSettlement(path, name, shape)
    BY <1>1, <1>5 DEF SettleOutcome, AllEnded
  <2>2. o.list = <<>> /\ UsedUp(path, name) /\ Fits(path, name, o)
    BY <1>1, <1>5, <2>1, BranchSettles
  <2> QED
    BY <1>1, <1>5, <2>2, UsedUpIsExhausted DEF Collecting
<1>6. CASE type \notin {"waitStream", "merge", "branch"}
  <2>1. o \in WorkSettlement(path, name, shape)
    BY <1>1, <1>6 DEF SettleOutcome, AllEnded
  <2>2. o.list = <<>> /\ UsedUp(path, name) /\ Fits(path, name, o)
    BY <1>1, <1>6, <2>1, WorkSettles DEF Collecting
  <2> QED
    BY <1>1, <1>6, <2>2, UsedUpIsExhausted DEF Collecting
<1> QED
  BY <1>3, <1>4, <1>5, <1>6

-----------------------------------------------------------------------------
(* What is settled stays as it should be *)

\* Settling a placement finds it exhausted, and settled it stays so.
LEMMA SealsStay ==
  ASSUME Accounts, OwnersExist', Grows, Kept, SinglesHaveOne', Ledger, Sealed
  PROVE  Sealed'
<1> SUFFICES ASSUME NEW s \in DOMAIN settled'
             PROVE  Exhausted(s.run, s.placement)' /\ CollectedAll(s.run, s.placement)'
  BY DEF Sealed
<1> PICK path, name : path = s.run /\ name = s.placement
  OBVIOUS
<1>1. /\ path \in DOMAIN runs
      /\ name \in Placements(WorkflowOf(path))
      /\ Exhausted(path, name)
      /\ \/ CollectedAll(path, name)
         \/ PlacementOf(path, name).type \in Collecting /\ AggregateResult(path, name) \in DOMAIN results'
  <2>1. CASE s \in DOMAIN settled
    BY <2>1 DEF Sealed, Accounts, EntriesOwned, SettlementOwned
  <2>2. CASE s \notin DOMAIN settled
    <3>1. path \in DOMAIN runs /\ name \in Placements(WorkflowOf(path)) /\ Settle(path, name)
      BY <2>2 DEF Ledger, NewSettlements
    <3>2. PICK o \in SettleOutcome(path, name) :
            IF o.list = <<>> THEN UNCHANGED results ELSE AddResult(AggregateResult(path, name), o.list[1])
      BY <3>1 DEF Settle
    <3>3. Exhausted(path, name) /\ (PlacementOf(path, name).type \in Collecting => Collects(path, name, o))
      BY <3>1, SettlementSeals
    <3>4. o.list # <<>> => AggregateResult(path, name) \in DOMAIN results'
      BY <3>2 DEF AddResult, Put
    <3>5. \/ CollectedAll(path, name)
          \/ PlacementOf(path, name).type \in Collecting /\ AggregateResult(path, name) \in DOMAIN results'
      BY <3>3, <3>4 DEF CollectedAll, Collects
    <3> QED
      BY <3>1, <3>3, <3>5
  <2> QED
    BY <2>1, <2>2
<1>2. WorkflowOf(path)' = WorkflowOf(path) /\ PlacementOf(path, name)' = PlacementOf(path, name)
  BY <1>1, LookupsSame DEF Accounts
<1>3. /\ Exhausted(path, name)'
      /\ \A i \in Incoming(WorkflowOf(path), name) : DeliveriesOn(path, i)' = DeliveriesOn(path, i)
  BY <1>1, ExhaustedStays DEF Accounts
<1>4. AggregateResult(path, name) \in DOMAIN results => AggregateResult(path, name) \in DOMAIN results'
  BY DEF Ledger, TablesGrow
<1>5. CollectedAll(path, name)'
  BY <1>1, <1>2, <1>3, <1>4 DEF CollectedAll
<1> QED
  BY <1>3, <1>5

\* The results of a placement that settles.
LEMMA SettledFits ==
  ASSUME Accounts, Grows, NEW path \in DOMAIN runs, NEW name \in Placements(WorkflowOf(path)), Settle(path, name),
         NEW made, made = settled'[SettledKey(path, name)]
  PROVE  Fits(path, name, made)'
<1>1. PICK o \in SettleOutcome(path, name) :
        /\ made = [outcome |-> o.outcome, arms |-> o.arms]
        /\ IF o.list = <<>> THEN UNCHANGED results ELSE AddResult(AggregateResult(path, name), o.list[1])
  BY DEF Settle, Put
<1>2. /\ PlacementOf(path, name).type \in Collecting => Collects(path, name, o)
      /\ PlacementOf(path, name).type \notin Collecting => o.list = <<>> /\ Fits(path, name, o)
  BY SettlementSeals
<1>3. KindOf(path, name)' = KindOf(path, name)
  BY LookupsSame DEF Accounts
<1>4. made.outcome = o.outcome /\ made.arms = o.arms
  BY <1>1
<1>5. CASE PlacementOf(path, name).type \notin Collecting
  <2>1. results' = results /\ Fits(path, name, o)
    BY <1>1, <1>2, <1>5
  <2>2. ResultsOf(path, name)' = ResultsOf(path, name)
    BY <2>1 DEF ResultsOf
  <2> QED
    BY <1>3, <1>4, <2>1, <2>2 DEF Fits
<1>6. CASE PlacementOf(path, name).type \in Collecting
  <2>1. ResultsOf(path, name) = {}
    <3> SUFFICES ASSUME NEW r \in ResultsOf(path, name)
                 PROVE  FALSE
      OBVIOUS
    <3>1. OfInputs(r) /\ r.run = path /\ r.label.placement = name
      BY <1>6, ResultsAreOf DEF Accounts, ResultsOf
    <3> QED
      BY <3>1 DEF OfInputs, Settle
  <2>2. DOMAIN o.arms = {}
    BY <1>6, SettledArms DEF Collecting
  <2>3. CASE o.list = <<>>
    <3>1. results' = results /\ o.outcome # "normal"
      BY <1>1, <1>2, <1>6, <2>3 DEF Collects
    <3>2. ResultsOf(path, name)' = {}
      BY <2>1, <3>1 DEF ResultsOf
    <3> QED
      BY <1>4, <2>2, <3>1, <3>2 DEF Fits
  <2>4. CASE o.list # <<>>
    <3>1. o.outcome = "normal" /\ DOMAIN results' = DOMAIN results \cup {AggregateResult(path, name)}
      BY <1>1, <1>2, <1>6, <2>4 DEF Collects, AddResult, Put
    <3>2. AggregateResult(path, name).run = path /\ AggregateResult(path, name).label.placement = name
      BY DEF AggregateResult, ResultKey, Label, InvocationKey
    <3>3. ResultsOf(path, name)' = {AggregateResult(path, name)}
      BY <2>1, <3>1, <3>2 DEF ResultsOf
    <3>4. Cardinality(ResultsOf(path, name)') = 1
      BY <3>3, FS_Singleton
    <3> QED
      BY <1>4, <2>2, <3>1, <3>4 DEF Fits
  <2> QED
    BY <2>3, <2>4
<1> QED
  BY <1>5, <1>6

\* The results of every placement that is settled stay what they should be.
LEMMA FitsStay ==
  ASSUME Accounts, Grows, Ledger
  PROVE  AllFit'
<1> SUFFICES ASSUME NEW s \in DOMAIN settled', NEW o, o = settled'[s]
             PROVE  Fits(s.run, s.placement, o)'
  BY DEF AllFit, Fits
<1>1. CASE s \in DOMAIN settled
  <2>1. o = settled[s] /\ Fits(s.run, s.placement, settled[s])
    BY <1>1 DEF Accounts, AllFit, Ledger, TablesGrow
  <2>2. s.run \in DOMAIN runs /\ IsSettled(s.run, s.placement)
    BY <1>1 DEF Accounts, EntriesOwned, SettlementOwned, IsSettled
  <2>3. KindOf(s.run, s.placement)' = KindOf(s.run, s.placement)
    BY <2>2, LookupsSame DEF Accounts
  <2>4. /\ ResultsOf(s.run, s.placement)' = ResultsOf(s.run, s.placement)
        /\ \A r \in ResultsOf(s.run, s.placement) : results'[r] = results[r]
    BY <2>2, SettledResultsStay
  <2>5. \A arm : {r \in ResultsOf(s.run, s.placement) : results'[r].arm = arm}
                   = {r \in ResultsOf(s.run, s.placement) : results[r].arm = arm}
    BY <2>4
  <2> QED
    BY <2>1, <2>3, <2>4, <2>5 DEF Fits
<1>2. CASE s \notin DOMAIN settled
  <2>1. /\ s = SettledKey(s.run, s.placement) /\ s.run \in DOMAIN runs
        /\ s.placement \in Placements(WorkflowOf(s.run)) /\ Settle(s.run, s.placement)
    BY <1>2 DEF Ledger, NewSettlements
  <2> QED
    BY <2>1, SettledFits
<1> QED
  BY <1>1, <1>2

-----------------------------------------------------------------------------
(* What lists collect *)

\* The list of a waitStream or a merge has the values that arrived.
AggregatedExactly(r) ==
  r.label.kind = "aggregate" => results[r].list = {d.source : d \in Arrived(r.run, r.label.placement)}
Lists == \A r \in DOMAIN results : ListedExactly(r) /\ AggregatedExactly(r)

\* That is what ListsExact says.
LEMMA ListsMatch == Lists => ListsExact
BY DEF Lists, ListsExact, ListedExactly, AggregatedExactly, ListOf, Arrived, InvocationOf

\* The list of a concurrency that is complete stays the list of its output.
LEMMA ListStays ==
  ASSUME TypeOK, Ledger, EntriesOwned, EntriesOwned', OwnersExist, Kept,
         NEW e \in DOMAIN executions, executions[e].complete
  PROVE  ListOf(e)' = ListOf(e)
<1> DEFINE old == {x \in DOMAIN taskResults : x.execution = e /\ taskResults[x] = "value"}
           new == {x \in DOMAIN taskResults' : x.execution = e /\ taskResults'[x] = "value"}
<1>1. ASSUME NEW x \in old
      PROVE  x \in new
  BY DEF Ledger, TablesGrow
<1>2. ASSUME NEW x \in new
      PROVE  x \in old
  <2>1. x \in DOMAIN taskResults
    BY DEF Ledger, NewTaskResults
  <2>2. TaskResultOwned(x)
    BY <2>1 DEF EntriesOwned
  <2> QED
    BY <2>1, <2>2 DEF Ledger, TablesGrow, TaskResultOwned
<1>3. old = new
  BY <1>1, <1>2
<1>4. ListOf(e) = {TaskOutputResult(t).label : t \in old}
  BY DEF ListOf
<1>5. ListOf(e)' = {TaskOutputResult(t).label : t \in new}
  BY DEF ListOf
<1> QED
  BY <1>3, <1>4, <1>5

\* What arrived at an exhausted placement is all that ever will.
LEMMA ArrivedStays ==
  ASSUME TypeOK, OwnersExist, OwnersExist', Grows, Kept, EntriesOwned, SinglesHaveOne', Ledger,
         NEW path \in DOMAIN runs, NEW name \in Placements(WorkflowOf(path)), Exhausted(path, name)
  PROVE  Arrived(path, name)' = Arrived(path, name)
<1>1. WorkflowOf(path)' = WorkflowOf(path)
  BY LookupsSame
<1>2. \A i \in Incoming(WorkflowOf(path), name) :
        /\ DeliveriesOn(path, i)' = DeliveriesOn(path, i)
        /\ \A d \in DeliveriesOn(path, i) : deliveries'[d] = deliveries[d]
  BY ExhaustedStays
<1> PICK incoming : incoming = Incoming(WorkflowOf(path), name)
  OBVIOUS
<1>3. \A d : d \in Arrived(path, name) <=> \E i \in incoming : d \in DeliveriesOn(path, i) /\ deliveries[d] = "value"
  BY DEF Arrived, DeliveriesOn
<1>4. \A d : d \in Arrived(path, name)' <=> \E i \in incoming : d \in DeliveriesOn(path, i)' /\ deliveries'[d] = "value"
  BY <1>1 DEF Arrived, DeliveriesOn
<1>5. \A d : d \in Arrived(path, name)' <=> d \in Arrived(path, name)
  BY <1>2, <1>3, <1>4
<1> QED
  BY <1>5 DEF Arrived

\* Lists stay exact.
LEMMA ListsStay ==
  ASSUME Accounts, OwnersExist', Grows, Kept, SinglesHaveOne', EntriesOwned', Ledger, Sealed, Lists
  PROVE  Lists'
<1> SUFFICES ASSUME NEW r \in DOMAIN results'
             PROVE  ListedExactly(r)' /\ AggregatedExactly(r)'
  BY DEF Lists
<1>1. CASE r \in DOMAIN results
  <2>1. results'[r] = results[r] /\ ListedExactly(r) /\ AggregatedExactly(r) /\ ResultOwned(r)
    BY <1>1 DEF Ledger, TablesGrow, Lists, Accounts, EntriesOwned
  <2>2. ASSUME r.label.kind = "list"
        PROVE  ListOf(InvocationOf(r))' = ListOf(InvocationOf(r))
    <3>1. OfExecution(r)
      BY <2>1, <2>2 DEF ResultOwned, OfCall, OfTask, OfExecution, OfRun, OfInputs
    <3> QED
      BY <3>1, ListStays DEF OfExecution, Accounts
  <2>3. ListedExactly(r)'
    BY <2>1, <2>2 DEF ListedExactly
  <2>4. ASSUME r.label.kind = "aggregate"
        PROVE  Arrived(r.run, r.label.placement)' = Arrived(r.run, r.label.placement)
    <3>1. OfInputs(r)
      BY <2>1, <2>4 DEF ResultOwned, OfCall, OfTask, OfExecution, OfRun, OfInputs
    <3>2. Exhausted(r.run, r.label.placement)
      BY <3>1 DEF OfInputs, IsSettled, Sealed, SettledKey
    <3> QED
      BY <3>1, <3>2, ArrivedStays DEF OfInputs, Accounts
  <2>5. AggregatedExactly(r)'
    BY <2>1, <2>4 DEF AggregatedExactly
  <2> QED
    BY <2>3, <2>5
<1>2. CASE r \notin DOMAIN results
  <2>1. ListedExactly(r)' /\ ResultOwned(r)' /\ ~IsSettled(r.run, r.label.placement)
    BY <1>2 DEF Ledger, NewResults
  <2>2. ASSUME r.label.kind = "aggregate"
        PROVE  results'[r].list = {d.source : d \in Arrived(r.run, r.label.placement)'}
    <3> PICK path, name : path = r.run /\ name = r.label.placement
      OBVIOUS
    <3>1. OfInputs(r)'
      BY <2>1, <2>2 DEF ResultOwned, OfCall, OfTask, OfExecution, OfRun, OfInputs
    <3>2. SettledKey(path, name) \in DOMAIN settled' \ DOMAIN settled
      BY <2>1, <3>1 DEF OfInputs, IsSettled
    <3>3. /\ path \in DOMAIN runs /\ name \in Placements(WorkflowOf(path)) /\ Settle(path, name)
      BY <3>2 DEF Ledger, NewSettlements, SettledKey
    <3>4. PlacementOf(path, name).type \in Collecting
      <4>1. PlacementOf(path, name)' = PlacementOf(path, name)
        BY <3>3, LookupsSame DEF Accounts
      <4> QED
        BY <3>1, <4>1 DEF OfInputs, Collecting
    <3>5. PICK o \in SettleOutcome(path, name) :
            IF o.list = <<>> THEN UNCHANGED results ELSE AddResult(AggregateResult(path, name), o.list[1])
      BY <3>3 DEF Settle
    <3>6. Collects(path, name, o)
      BY <3>3, <3>4, SettlementSeals
    <3>7. o.list # <<>>
      BY <1>2, <3>5
    <3>8. r = AggregateResult(path, name)
      BY <3>1 DEF OfInputs
    <3>9. results'[r].list = {d.source : d \in Arrived(path, name)}
      BY <3>5, <3>6, <3>7, <3>8 DEF Collects, AddResult, Put
    <3>10. Arrived(path, name)' = Arrived(path, name)
      <4>1. Incoming(WorkflowOf(path), name)' = Incoming(WorkflowOf(path), name) /\ deliveries' = deliveries
        BY <3>3, LookupsSame DEF Settle, Accounts
      <4> QED
        BY <4>1 DEF Arrived
    <3> QED
      BY <3>9, <3>10
  <2>3. AggregatedExactly(r)'
    BY <2>2 DEF AggregatedExactly
  <2> QED
    BY <2>1, <2>3
<1> QED
  BY <1>1, <1>2

-----------------------------------------------------------------------------
(* Runs complete when all is settled *)

\* A run that is complete has everything settled.
LEMMA CompleteStaySettled ==
  ASSUME TypeOK, Grows, Ledger, CompleteIsSettled
  PROVE  CompleteIsSettled'
<1> SUFFICES ASSUME NEW p \in DOMAIN runs', runs'[p].complete
             PROVE  AllSettled(p)'
  BY DEF CompleteIsSettled
<1>1. p \in DOMAIN runs /\ AllSettled(p)
  BY DEF Ledger, NewEnds, CompleteIsSettled
<1>2. WorkflowOf(p)' = WorkflowOf(p)
  BY <1>1, LookupsSame
<1> QED
  BY <1>1, <1>2 DEF AllSettled, IsSettled, Ledger, TablesGrow

-----------------------------------------------------------------------------
(* What each action does to the tables *)

\* What holds before a step, and what other modules say of it.
Standing ==
  /\ Accounts /\ Sealed
  /\ TypeOK' /\ OwnersExist' /\ Grows /\ Kept

\* No new results, deliveries, invocations or settlements.
NothingNew ==
  /\ UNCHANGED <<results, deliveries, settled>>
  /\ DOMAIN invocations' = DOMAIN invocations

\* A placement whose invocation is going on is not settled.
LEMMA OpenIsUnsettled ==
  ASSUME Accounts, Sealed, NEW k \in DOMAIN invocations, ~InvocationEnded(k)
  PROVE  ~IsSettled(k.run, k.placement)
<1>1. k \in InvocationsOf(k.run, k.placement)
  BY DEF InvocationsOf
<1> QED
  BY <1>1 DEF Sealed, Exhausted, IsSettled, SettledKey

\* A task that is active is in an execution that is not complete.
LEMMA ActiveIsOpen ==
  ASSUME Life, NEW e \in DOMAIN executions, NEW t \in DOMAIN executions[e].tasks, executions[e].tasks[t] = "active"
  PROVE  ~executions[e].complete
BY DEF Life, ExecutionLife, TaskEnded

\* Nothing ends in a step that is steady.
LEMMA SteadyEnds ==
  ASSUME Steady
  PROVE  NewEnds /\ DOMAIN invocations' = DOMAIN invocations
BY DEF Steady, SameTables, SameTasks, NewEnds

\* An event of a call ends the invocation of that call only.
LEMMA CallEventEnds ==
  ASSUME Standing, NEW c \in DOMAIN calls, CallEvent(c)
  PROVE  NewEnds /\ DOMAIN invocations' = DOMAIN invocations
<1>1. OwnersDiffer
  BY TypesTellOwners DEF Standing, Accounts
<1>2. ASSUME NEW k \in DOMAIN invocations, invocations'[k] # invocations[k]
      PROVE  Explained(k)'
  <2>1. c.task = None /\ k = c.owner
    BY <1>2 DEF CallEvent
  <2>2. CallOwned(c) /\ c.owner.run \in DOMAIN runs
    BY DEF Standing, Accounts, OwnersExist, CallOwned, OwnerExists, InvocationOwned
  <2>3. ConcurrencyOf(k).type \in {"function", "branch"}
    BY <2>1, <2>2 DEF CallOwned, BodyOf, ConcurrencyOf
  <2>4. ConcurrencyOf(k)' = ConcurrencyOf(k)
    BY <2>1, <2>2, LookupsStay DEF Standing
  <2>5. invocations'[k].status # "skipped"
    BY <2>1 DEF CallEvent, OwnerStatus, OwnerMay
  <2> QED
    BY <2>3, <2>4, <2>5 DEF Explained, HasResult
<1> QED
  BY <1>2 DEF NewEnds, CallEvent, SameTables, SameTasks

\* A step with nothing new in the tables.
LEMMA NothingNewBooks ==
  ASSUME NothingNew, taskResults' = taskResults, NewEnds
  PROVE  Ledger
BY DEF NothingNew, Ledger, TablesGrow, NewResults, NewTaskResults, NewDeliveries, NewInvocations, NewSettlements

\* A value of a call.
LEMMA AcceptBooks ==
  ASSUME Standing, NEW c \in DOMAIN calls, CallEvent(c), calls[c].status \in Live,
         NEW n \in 0..MaxYields, NEW arm, Accept(c, n, arm), UNCHANGED <<deliveries, settled>>,
         c.task = None /\ BodyOf(c).type = "branch" => invocations'[c.owner].arm = arm
  PROVE  Ledger
<1>1. OwnersDiffer
  BY TypesTellOwners DEF Standing, Accounts
<1>2. NewEnds /\ DOMAIN invocations' = DOMAIN invocations
  BY CallEventEnds
<1>3. /\ c = CallKey(c.owner, c.task) /\ c.owner \in DOMAIN invocations
      /\ c.owner = InvocationKey(c.owner.run, c.owner.placement, c.owner.trigger) /\ c.owner.run \in DOMAIN runs
      /\ DOMAIN calls' = DOMAIN calls /\ runs' = runs
  BY <1>1 DEF OwnersDiffer, CallEvent, SameTables, Standing, Accounts, OwnersExist, InvocationOwned
<1>4. CASE c.task = None
  <2> PICK r : r = CallResult(c, n)
    OBVIOUS
  <2>1. /\ r \notin DOMAIN results /\ taskResults' = taskResults
        /\ results' = Put(results, r, [arm |-> arm, list |-> {}])
    BY <1>4 DEF Accept
  <2>2. /\ r.run = c.owner.run /\ r.label.placement = c.owner.placement /\ r.label.trigger = c.owner.trigger
        /\ r.label.kind = "result" /\ r.label.task = None /\ r.label.index = n
    BY <1>4 DEF CallResult, ResultKey, Label
  <2>3. CallOf(r) = c /\ InvocationOf(r) = c.owner
    BY <1>3, <1>4, <2>2 DEF CallOf, InvocationOf
  <2>4. results'[r].arm = arm
    BY <2>1 DEF Put
  <2>5. ConcurrencyOf(c.owner)' = BodyOf(c)
    BY <1>3, <1>4 DEF BodyOf, ConcurrencyOf, PlacementOf, WorkflowOf
  <2>6. OfCall(r)'
    BY <1>3, <1>4, <2>2, <2>3, <2>4, <2>5 DEF OfCall
  <2>7. ~IsSettled(r.run, r.label.placement)
    <3>1. ~InvocationEnded(c.owner)
      BY <1>3, <1>4 DEF InvocationEnded, CallEnded
    <3> QED
      BY <1>3, <2>2, <3>1, OpenIsUnsettled DEF Standing
  <2>8. NewResults
    BY <2>1, <2>2, <2>6, <2>7 DEF NewResults, ResultOwned, ListedExactly, Put
  <2> QED
    BY <1>2, <2>1, <2>8
    DEF Ledger, TablesGrow, NewTaskResults, NewDeliveries, NewInvocations, NewSettlements, Put
<1>5. CASE c.task # None
  <2> PICK r : r = TaskResultKey(c.owner, c.task, n)
    OBVIOUS
  <2>1. r \notin DOMAIN taskResults /\ taskResults' = Put(taskResults, r, "pending") /\ results' = results
    BY <1>5 DEF Accept
  <2>2. r.execution = c.owner /\ r.task = c.task /\ r = TaskResultKey(r.execution, r.task, r.index)
    BY DEF TaskResultKey
  <2>3. /\ c.owner \in DOMAIN executions /\ c.task \in DOMAIN executions[c.owner].tasks
        /\ c.owner \in DOMAIN executions'
        /\ DOMAIN executions'[c.owner].tasks = DOMAIN executions[c.owner].tasks
        /\ executions'[c.owner].complete = executions[c.owner].complete
    BY <1>1, <1>5 DEF OwnersDiffer, CallEvent, SameTables, SameTasks
  <2>4. executions[c.owner].tasks[c.task] = "active"
    BY <1>5, LiveIsActive DEF OwnerStatus, Standing, Accounts
  <2>5. ~executions'[c.owner].complete
    BY <2>3, <2>4, ActiveIsOpen DEF Standing, Accounts
  <2>6. Child(c.owner, c.task) \notin DOMAIN runs'
    <3>1. /\ RunOwner(Child(c.owner, c.task)) = c.owner /\ RunTask(Child(c.owner, c.task)) = c.task
          /\ Child(c.owner, c.task) # Root
      BY <1>1, <1>3 DEF OwnersDiffer
    <3>2. CallerOf(Child(c.owner, c.task)) = c
      BY <1>3, <3>1 DEF CallerOf
    <3> QED
      BY <1>1, <1>3, <3>1, <3>2 DEF OwnersDiffer
  <2>7. NewTaskResults
    <3> SUFFICES ASSUME NEW x \in DOMAIN taskResults', x \notin DOMAIN taskResults
                 PROVE  taskResults'[x] = "pending" /\ TaskResultOwned(x)'
      BY DEF NewTaskResults
    <3>1. x = r /\ taskResults'[x] = "pending"
      BY <2>1 DEF Put
    <3> QED
      BY <2>2, <2>3, <2>5, <2>6, <3>1 DEF TaskResultOwned
  <2> QED
    BY <1>2, <2>1, <2>7
    DEF Ledger, TablesGrow, NewResults, NewDeliveries, NewInvocations, NewSettlements, Put
<1> QED
  BY <1>4, <1>5

\* Reports of calls, and what the environment does to them.
LEMMA ReportBooks ==
  ASSUME Standing, NEW c \in DOMAIN calls,
         \/ Fetch(c) \/ Report(c)
         \/ CallFailed(c) \/ CallTimedOut(c) \/ ElementTimedOut(c) \/ Lost(c)
  PROVE  Ledger
<1>1. CallEvent(c)
  BY TypesTellOwners, ReportsAreEvents DEF Standing, Accounts, Report
<1>2. NewEnds /\ DOMAIN invocations' = DOMAIN invocations
  BY <1>1, CallEventEnds
<1>3. CASE CallReturned(c)
  BY <1>1, <1>3, MachineAssumption, AcceptBooks DEF CallReturned, Live
<1>4. CASE \E arm \in Arms(c) : Judged(c, arm)
  <2>1. PICK arm \in Arms(c) : Judged(c, arm)
    BY <1>4
  <2>2. c.task = None /\ c.owner \in DOMAIN invocations
    BY <2>1 DEF Judged, Standing, Accounts, OwnersExist, CallOwned, OwnerExists
  <2>3. invocations'[c.owner].arm = arm
    BY <2>1, <2>2 DEF Judged
  <2> QED
    BY <1>1, <2>1, <2>3, MachineAssumption, AcceptBooks DEF Judged, Live
<1>5. CASE Yielded(c)
  <2>1. calls[c].yields \in 0..MaxYields
    BY <1>5, MachineAssumption DEF Yielded, Standing, Accounts, TypeOK, CallsOK
  <2> QED
    BY <1>1, <1>5, <2>1, AcceptBooks DEF Yielded, IsStream, Live
<1>6. ASSUME UNCHANGED <<results, taskResults, deliveries, settled>>
      PROVE  Ledger
  BY <1>2, <1>6, NothingNewBooks DEF NothingNew
<1>7. CASE Fetch(c) \/ Ended(c)
  BY <1>6, <1>7 DEF Fetch, Ended
<1>8. CASE Terminated(c)
  BY <1>6, <1>8 DEF Terminated, CallCancelled
<1>9. CASE CallFailed(c) \/ CallTimedOut(c) \/ ElementTimedOut(c) \/ Lost(c)
  BY <1>6, <1>9 DEF CallFailed, CallTimedOut, ElementTimedOut, Lost, FailCall, CallCancelled
<1> QED
  BY <1>3, <1>4, <1>5, <1>7, <1>8, <1>9 DEF Report

\* The transform of an output of a task.
LEMMA OutputBooks ==
  ASSUME Standing, NEW x \in DOMAIN taskResults, TaskOutput(x) \/ TaskOutputFailed(x)
  PROVE  Ledger
<1> DEFINE e == x.execution
<1>1. OwnersDiffer
  BY TypesTellOwners DEF Standing, Accounts
<1>2. Steady
  <2>1. CASE TaskOutput(x)
    BY <2>1, IdleIsSteady DEF TaskOutput
  <2>2. CASE TaskOutputFailed(x)
    <3>1. UNCHANGED <<runs, invocations>> /\ \E failure, policy : Fail(failure, policy, calls, executions)
      BY <2>2 DEF TaskOutputFailed
    <3>2. ExecutionsOK(executions) /\ SameTasks(executions, executions)
      BY DEF Standing, Accounts, TypeOK, SameTasks
    <3> QED
      BY <3>1, <3>2, FailureIsSteady DEF Standing, Accounts
  <2> QED
    BY <2>1, <2>2
<1>3. NewEnds /\ DOMAIN invocations' = DOMAIN invocations
  BY <1>2, SteadyEnds
<1>4. TaskSpec(e, x.task).included /\ taskResults[x] = "pending" /\ UNCHANGED <<deliveries, settled>>
  BY DEF TaskOutput, TaskOutputFailed, OutputPending
<1>5. /\ DOMAIN taskResults' = DOMAIN taskResults
      /\ \A y \in DOMAIN taskResults \ {x} : taskResults'[y] = taskResults[y]
  BY DEF TaskOutput, TaskOutputFailed
<1>6. CASE results' = results
  BY <1>3, <1>4, <1>5, <1>6
  DEF Ledger, TablesGrow, NewResults, NewTaskResults, NewDeliveries, NewInvocations, NewSettlements
<1>7. CASE TaskOutput(x) /\ ConcurrencyOf(e).output # "list"
  <2> PICK r : r = TaskOutputResult(x)
    OBVIOUS
  <2>1. r \notin DOMAIN results /\ results' = Put(results, r, [arm |-> None, list |-> {}])
    BY <1>7 DEF TaskOutput, AddResult
  <2>2. TaskResultOwned(x) /\ x = TaskResultKey(e, x.task, x.index) /\ e \in DOMAIN executions /\ e \in DOMAIN invocations
    BY <1>1 DEF Standing, Accounts, EntriesOwned, TaskResultOwned, OwnersDiffer
  <2>3. e = InvocationKey(e.run, e.placement, e.trigger)
    BY <1>1, <2>2 DEF OwnersDiffer
  <2>4. /\ r.run = e.run /\ r.label.placement = e.placement /\ r.label.trigger = e.trigger
        /\ r.label.kind = "output" /\ r.label.task = x.task /\ r.label.index = x.index
    BY DEF TaskOutputResult, ResultKey, Label
  <2>5. InvocationOf(r) = e /\ TaskResultOf(r) = x
    BY <2>2, <2>3, <2>4 DEF InvocationOf, TaskResultOf
  <2>6. taskResults'[x] = "value"
    BY <1>7 DEF TaskOutput
  <2>7. ConcurrencyOf(e)' = ConcurrencyOf(e)
    BY <1>2 DEF Steady, SameTables, ConcurrencyOf, PlacementOf, WorkflowOf
  <2>8. OfTask(r)'
    BY <1>5, <1>7, <2>4, <2>5, <2>6, <2>7 DEF OfTask
  <2>9. ~InvocationEnded(e)
    BY <1>4, <2>2 DEF TaskResultOwned, InvocationEnded
  <2>10. ~IsSettled(r.run, r.label.placement)
    BY <2>2, <2>4, <2>9, OpenIsUnsettled DEF Standing
  <2>11. NewResults
    BY <2>1, <2>4, <2>8, <2>10 DEF NewResults, ResultOwned, ListedExactly, Put
  <2> QED
    BY <1>3, <1>4, <1>5, <2>1, <2>11
    DEF Ledger, TablesGrow, NewTaskResults, NewDeliveries, NewInvocations, NewSettlements, Put
<1> QED
  BY <1>6, <1>7 DEF TaskOutput, TaskOutputFailed

\* An execution closes, with its list if it is to have one.
LEMMA CloseExecutionBooks ==
  ASSUME Standing, NEW e \in DOMAIN executions, CloseExecution(e)
  PROVE  Ledger
<1> DEFINE node == ConcurrencyOf(e)
           tasks == executions[e].tasks
           included == {t \in DOMAIN tasks : node.tasks[t].included}
           outputs == {x \in DOMAIN taskResults : x.execution = e /\ x.task \in included}
           values == {TaskOutputResult(x).label : x \in {y \in outputs : taskResults[y] = "value"}}
           skips == \A t \in included : tasks[t] = "skipped"
           r == ListResult(e)
<1>1. /\ OwnersDiffer /\ e \in DOMAIN invocations /\ e = InvocationKey(e.run, e.placement, e.trigger)
      /\ node.type = "concurrency"
  BY TypesTellOwners DEF Standing, Accounts, OwnersDiffer, OwnersExist, ExecutionOwned
<1>2. /\ ~executions[e].complete
      /\ \A x \in outputs : taskResults[x] # "pending"
      /\ executions' = [executions EXCEPT ![e].complete = TRUE]
      /\ invocations' = SetInvocation(e, IF skips THEN "skipped" ELSE "succeeded")
      /\ IF skips \/ node.output = "stream" THEN UNCHANGED results ELSE AddResult(r, values)
      /\ UNCHANGED <<runs, taskResults, deliveries, settled>>
  BY DEF CloseExecution
<1>3. /\ DOMAIN executions' = DOMAIN executions /\ executions'[e].complete /\ executions'[e].tasks = tasks
      /\ \A x \in DOMAIN executions \ {e} : executions'[x] = executions[x]
  BY <1>2 DEF Standing, Accounts, TypeOK, ExecutionsOK
<1>4. /\ DOMAIN invocations' = DOMAIN invocations
      /\ invocations'[e].status = IF skips THEN "skipped" ELSE "succeeded"
      /\ \A k \in DOMAIN invocations \ {e} : invocations'[k] = invocations[k]
  BY <1>1, <1>2 DEF SetInvocation, Standing, Accounts, TypeOK, InvocationsOK
<1>5. \A x \in DOMAIN taskResults : x.execution = e /\ TaskSpec(e, x.task).included => x \in outputs
  BY DEF Standing, Accounts, EntriesOwned, TaskResultOwned, TaskSpec
<1>6. /\ ConcurrencyOf(e)' = node /\ \A t : TaskSpec(e, t)' = TaskSpec(e, t)
      /\ \A t : TaskSpec(e, t) = node.tasks[t]
  BY <1>2 DEF ConcurrencyOf, PlacementOf, WorkflowOf, TaskSpec
<1>7. Explained(e)'
  <2> HIDE DEF values, r
  <2>1. node.output = "list" /\ ~skips => r \in DOMAIN results'
    BY <1>2 DEF AddResult, Put
  <2>2. skips => AllSkipped(e)'
    BY <1>3, <1>6 DEF AllSkipped
  <2> QED
    BY <1>1, <1>4, <1>6, <2>1, <2>2 DEF Explained, HasResult, r
<1>8. NewEnds
  <2> HIDE DEF node, values, skips
  <2>1. \A x \in DOMAIN taskResults' : x.execution = e /\ TaskSpec(e, x.task).included => taskResults'[x] # "pending"
    BY <1>2, <1>5
  <2> HIDE DEF outputs, included
  <2> QED
    BY <1>2, <1>3, <1>4, <1>7, <2>1 DEF NewEnds
<1>9. CASE results' = results
  BY <1>2, <1>4, <1>8, <1>9, NothingNewBooks DEF NothingNew
<1>10. CASE ~skips /\ AddResult(r, values)
  <2>1. r \notin DOMAIN results /\ results' = Put(results, r, [arm |-> None, list |-> values])
    BY <1>10 DEF AddResult
  <2>2. /\ r.run = e.run /\ r.label.placement = e.placement /\ r.label.trigger = e.trigger /\ r.label.kind = "list"
        /\ InvocationOf(r) = e
    BY <1>1 DEF ListResult, ResultKey, Label, InvocationOf
  <2>3. OfExecution(r)'
    BY <1>3, <1>4, <1>10, <2>2 DEF OfExecution
  <2>4. values = ListOf(e)'
    <3> DEFINE new == {y \in DOMAIN taskResults : y.execution = e /\ taskResults[y] = "value"}
               old == {y \in outputs : taskResults[y] = "value"}
    <3>1. \A y \in new : y \in old
      BY <1>5 DEF Standing, Accounts, EntriesOwned, TaskResultOwned
    <3>2. new = old
      BY <3>1
    <3>3. ListOf(e)' = {TaskOutputResult(t).label : t \in new}
      BY <1>2 DEF ListOf
    <3> QED
      BY <3>2, <3>3
  <2> HIDE DEF values, skips, r
  <2>5. ListedExactly(r)'
    <3>1. results'[r].list = values
      BY <2>1 DEF Put
    <3> QED
      BY <2>2, <2>4, <3>1 DEF ListedExactly
  <2>6. ~InvocationEnded(e)
    BY <1>2 DEF InvocationEnded
  <2>7. ~IsSettled(r.run, r.label.placement)
    BY <1>1, <2>2, <2>6, OpenIsUnsettled DEF Standing
  <2>8. NewResults
    BY <2>1, <2>3, <2>5, <2>7 DEF NewResults, ResultOwned, Put
  <2> QED
    BY <1>2, <1>4, <1>8, <2>1, <2>8
    DEF Ledger, TablesGrow, NewTaskResults, NewDeliveries, NewInvocations, NewSettlements, Put
<1> QED
  BY <1>2, <1>9, <1>10

\* A called workflow ends, with the result of the invocation or task that
\* called it if there is one.
LEMMA CloseRunBooks ==
  ASSUME Standing, NEW path \in DOMAIN runs, CloseRun(path)
  PROVE  Ledger
<1> DEFINE owner == RunOwner(path)
           task == RunTask(path)
           me == CallerOf(path)
           outcome == settled[SettledKey(path, DesignatedOutput(path))].outcome
           reached == IF outcome = "normal" THEN "succeeded" ELSE outcome
           r == Returned(owner)
           key == TaskResultKey(owner, task, 0)
<1>1. /\ OwnersDiffer /\ status = "running" /\ path # Root /\ ~runs[path].complete /\ AllSettled(path)
      /\ runs' = [runs EXCEPT ![path].complete = TRUE]
      /\ UNCHANGED <<calls, deliveries, settled>>
      /\ outcome \in Outcomes
  BY TypesTellOwners DEF CloseRun, Running, Open, IsSettled, Standing, Accounts, TypeOK
<1>2. \/ /\ task = None
         /\ invocations' = SetInvocation(owner, reached)
         /\ IF outcome = "normal" THEN AddResult(r, {}) ELSE UNCHANGED results
         /\ UNCHANGED <<executions, taskResults>>
      \/ /\ task # None
         /\ executions' = SetTask(owner, task, reached)
         /\ IF outcome = "normal"
            THEN key \notin DOMAIN taskResults /\ taskResults' = Put(taskResults, key, "pending")
            ELSE UNCHANGED taskResults
         /\ UNCHANGED <<invocations, results>>
  BY DEF CloseRun
<1>3. /\ me.owner = owner /\ me.task = task /\ owner \in DOMAIN invocations
      /\ owner = InvocationKey(owner.run, owner.placement, owner.trigger)
      /\ path = Child(owner, task)
      /\ task = None => owner \notin DOMAIN executions
      /\ task # None => owner \in DOMAIN executions /\ task \in DOMAIN executions[owner].tasks
  BY <1>1 DEF OwnersDiffer, CallerOf, CallKey
<1>4. OwnerStatus(me) = "active"
  BY <1>1 DEF Standing, Accounts, Life, RunLife, OpenWith, Terminal
<1>5. /\ DOMAIN runs' = DOMAIN runs
      /\ \A p \in DOMAIN runs \ {path} : runs'[p] = runs[p]
      /\ \A p \in DOMAIN runs : runs'[p].workflow = runs[p].workflow
  BY <1>1 DEF Standing, Accounts, TypeOK
<1> HIDE DEF owner, task, me, outcome, reached, r, key
<1>6. CASE task = None
  <2>1. /\ invocations' = SetInvocation(owner, reached)
        /\ IF outcome = "normal" THEN AddResult(r, {}) ELSE UNCHANGED results
        /\ UNCHANGED <<executions, taskResults>>
    BY <1>2, <1>6
  <2>2. /\ DOMAIN invocations' = DOMAIN invocations
        /\ invocations'[owner].status = reached
        /\ \A k \in DOMAIN invocations \ {owner} : invocations'[k] = invocations[k]
    BY <1>3, <2>1 DEF SetInvocation, Standing, Accounts, TypeOK, InvocationsOK
  <2>3. reached = "succeeded" <=> outcome = "normal"
    BY <1>1 DEF Outcomes, reached
  <2>4. ConcurrencyOf(owner)' = ConcurrencyOf(owner) /\ ConcurrencyOf(owner).type = "subworkflow"
    <3>1. RunOwned(path)
      BY <1>1 DEF Standing, Accounts, OwnersExist
    <3>2. BodyOf(me).type = "subworkflow"
      BY <3>1 DEF RunOwned, me, CallerOf
    <3>3. owner.run \in DOMAIN runs
      BY <1>3 DEF Standing, Accounts, OwnersExist, InvocationOwned
    <3> QED
      BY <1>3, <1>6, <3>2, <3>3, LookupsStay DEF Standing, BodyOf, ConcurrencyOf
  <2>5. Explained(owner)'
    <3>1. reached = "succeeded" => r \in DOMAIN results'
      BY <2>1, <2>3 DEF AddResult, Put
    <3>2. owner \notin DOMAIN executions'
      BY <1>3, <1>6, <2>1
    <3> QED
      BY <2>2, <2>4, <3>1, <3>2 DEF Explained, HasResult, AllSkipped, r
  <2>6. NewEnds
    BY <1>1, <1>5, <2>1, <2>2, <2>5 DEF NewEnds
  <2>7. CASE results' = results
    BY <1>1, <2>1, <2>2, <2>6, <2>7, NothingNewBooks DEF NothingNew
  <2>8. CASE outcome = "normal" /\ AddResult(r, {})
    <3>1. r \notin DOMAIN results /\ results' = Put(results, r, [arm |-> None, list |-> {}])
      BY <2>8 DEF AddResult
    <3>2. /\ r.run = owner.run /\ r.label.placement = owner.placement /\ r.label.trigger = owner.trigger
          /\ r.label.kind = "return" /\ InvocationOf(r) = owner
      BY <1>3 DEF Returned, ResultKey, Label, InvocationOf, r
    <3>3. OfRun(r)'
      BY <1>3, <1>5, <1>6, <2>2, <2>3, <2>8, <3>2 DEF OfRun, r
    <3>4. ~InvocationEnded(owner)
      BY <1>1, <1>3, <1>6 DEF InvocationEnded
    <3>5. ~IsSettled(r.run, r.label.placement)
      BY <1>3, <3>2, <3>4, OpenIsUnsettled DEF Standing
    <3>6. NewResults
      BY <3>1, <3>2, <3>3, <3>5 DEF NewResults, ResultOwned, ListedExactly, Put
    <3> QED
      BY <1>1, <2>1, <2>2, <2>6, <3>1, <3>6
      DEF Ledger, TablesGrow, NewTaskResults, NewDeliveries, NewInvocations, NewSettlements, Put
  <2> QED
    BY <2>1, <2>7, <2>8
<1>7. CASE task # None
  <2>1. /\ executions' = SetTask(owner, task, reached)
        /\ IF outcome = "normal"
           THEN key \notin DOMAIN taskResults /\ taskResults' = Put(taskResults, key, "pending")
           ELSE UNCHANGED taskResults
        /\ UNCHANGED <<invocations, results>>
    BY <1>2, <1>7
  <2>2. /\ DOMAIN executions' = DOMAIN executions
        /\ \A e \in DOMAIN executions : executions'[e].complete = executions[e].complete
        /\ task \in DOMAIN executions'[owner].tasks
        /\ executions'[owner].tasks[task] = reached
    BY <1>3, <1>7, <2>1 DEF SetTask, Standing, Accounts, TypeOK, ExecutionsOK
  <2>3. NewEnds
    BY <1>1, <1>5, <2>1, <2>2 DEF NewEnds
  <2>4. CASE taskResults' = taskResults
    BY <1>1, <2>1, <2>3, <2>4, NothingNewBooks DEF NothingNew
  <2>5. CASE outcome = "normal" /\ key \notin DOMAIN taskResults /\ taskResults' = Put(taskResults, key, "pending")
    <3>1. ~executions'[owner].complete
      <4>1. executions[owner].tasks[task] = "active"
        BY <1>3, <1>4, <1>7 DEF OwnerStatus
      <4> QED
        BY <1>3, <1>7, <2>2, <4>1, ActiveIsOpen DEF Standing, Accounts
    <3>2. key.execution = owner /\ key.task = task /\ key = TaskResultKey(key.execution, key.task, key.index)
      BY DEF TaskResultKey, key
    <3>3. NewTaskResults
      <4> SUFFICES ASSUME NEW x \in DOMAIN taskResults', x \notin DOMAIN taskResults
                   PROVE  taskResults'[x] = "pending" /\ TaskResultOwned(x)'
        BY DEF NewTaskResults
      <4>1. x = key /\ taskResults'[x] = "pending"
        BY <2>5 DEF Put
      <4>2. reached = "succeeded"
        BY <2>5 DEF reached
      <4> QED
        BY <1>3, <1>7, <2>2, <3>1, <3>2, <4>1, <4>2 DEF TaskResultOwned
    <3> QED
      BY <1>1, <2>1, <2>3, <2>5, <3>3
      DEF Ledger, TablesGrow, NewResults, NewDeliveries, NewInvocations, NewSettlements, Put
  <2> QED
    BY <2>1, <2>4, <2>5
<1> QED
  BY <1>6, <1>7

\* A placement settles, with its aggregate if it has one.
LEMMA SettleBooks ==
  ASSUME Standing, NEW path \in DOMAIN runs, NEW name \in Placements(WorkflowOf(path)), Settle(path, name)
  PROVE  Ledger
<1> PICK s : s = SettledKey(path, name)
  OBVIOUS
<1>1. PICK o \in SettleOutcome(path, name) :
        /\ settled' = Put(settled, s, [outcome |-> o.outcome, arms |-> o.arms])
        /\ IF o.list = <<>> THEN UNCHANGED results ELSE AddResult(AggregateResult(path, name), o.list[1])
  BY DEF Settle
<1>2. /\ s \notin DOMAIN settled
      /\ UNCHANGED <<runs, invocations, calls, executions, taskResults, deliveries>>
  BY DEF Settle, IsSettled
<1>3. s = SettledKey(s.run, s.placement) /\ s.run = path /\ s.placement = name
  BY DEF SettledKey
<1>4. NewEnds
  BY <1>2, IdleIsSteady, SteadyEnds
<1>5. NewSettlements
  BY <1>1, <1>3 DEF NewSettlements, Put
<1>6. CASE results' = results
  BY <1>1, <1>2, <1>4, <1>5, <1>6
  DEF Ledger, TablesGrow, NewResults, NewTaskResults, NewDeliveries, NewInvocations, Put
<1>7. CASE o.list # <<>>
  <2> PICK r : r = AggregateResult(path, name)
    OBVIOUS
  <2> PICK list : list = o.list[1]
    OBVIOUS
  <2>1. r \notin DOMAIN results /\ results' = Put(results, r, [arm |-> None, list |-> list])
    BY <1>1, <1>7 DEF AddResult
  <2>2. r.run = path /\ r.label.placement = name /\ r.label.kind = "aggregate"
    BY DEF AggregateResult, ResultKey, Label, InvocationKey
  <2>3. PlacementOf(path, name).type \in Collecting
    BY <1>7, SettlementSeals DEF Standing
  <2>4. WorkflowOf(path)' = WorkflowOf(path) /\ PlacementOf(path, name)' = PlacementOf(path, name)
    BY LookupsSame DEF Standing, Accounts
  <2>5. s \in DOMAIN settled'
    BY <1>1 DEF Put
  <2>6. OfInputs(r)'
    BY <1>2, <2>2, <2>3, <2>4, <2>5 DEF OfInputs, IsSettled, Collecting
  <2>7. NewResults
    BY <1>2, <2>1, <2>2, <2>6 DEF NewResults, ResultOwned, ListedExactly, IsSettled, Put
  <2> QED
    BY <1>1, <1>2, <1>4, <1>5, <2>1, <2>7
    DEF Ledger, TablesGrow, NewTaskResults, NewDeliveries, NewInvocations, Put
<1> QED
  BY <1>1, <1>6, <1>7

\* A delivery, of a value or of a failure to transform it.
LEMMA DeliverBooks ==
  ASSUME Standing, NEW x \in DOMAIN results, NEW i \in Edges(WorkflowOf(x.run)),
         Deliver(x.run, i, x.label) \/ TransformFailed(x.run, i, x.label)
  PROVE  Ledger
<1> PICK path : path = x.run
  OBVIOUS
<1> PICK d : d = DeliveryKey(path, i, x.label)
  OBVIOUS
<1>1. path \in DOMAIN runs
  BY ResultsAreIn DEF Standing, Accounts
<1>2. /\ ResultKey(path, x.label) \in Eligible(path, Edge(WorkflowOf(path), i))
      /\ d \notin DOMAIN deliveries
      /\ UNCHANGED <<runs, invocations, results, taskResults, settled>>
  BY DEF Deliver, TransformFailed, Deliverable, IsDelivered
<1>3. PICK value : /\ deliveries' = Put(deliveries, d, value)
                   /\ value \in (IF Edge(WorkflowOf(path), i).discard THEN {"trigger"} ELSE {"value", "failed"})
  BY DEF Deliver, TransformFailed
<1>4. d.run = path /\ d.connection = i /\ d.source = x.label /\ d = DeliveryKey(d.run, d.connection, d.source)
  BY DEF DeliveryKey
<1>5. NewEnds
  <2>1. CASE Deliver(x.run, i, x.label)
    BY <2>1, IdleIsSteady, SteadyEnds DEF Deliver
  <2>2. CASE TransformFailed(x.run, i, x.label)
    <3>1. \E failure, policy : Fail(failure, policy, calls, executions)
      BY <2>2 DEF TransformFailed
    <3>2. ExecutionsOK(executions) /\ SameTasks(executions, executions)
      BY DEF Standing, Accounts, TypeOK, SameTasks
    <3>3. Steady
      BY <1>2, <3>1, <3>2, FailureIsSteady DEF Standing, Accounts
    <3> QED
      BY <3>3, SteadyEnds
  <2> QED
    BY <2>1, <2>2
<1>6. NewDeliveries
  <2> SUFFICES ASSUME NEW y \in DOMAIN deliveries', y \notin DOMAIN deliveries
               PROVE  DeliveryOwned(y)' /\ ResultKey(y.run, y.source) \in Eligible(y.run, Edge(WorkflowOf(y.run), y.connection))
    BY DEF NewDeliveries
  <2>1. y = d /\ deliveries'[y] = value
    BY <1>3 DEF Put
  <2>2. WorkflowOf(path)' = WorkflowOf(path) /\ \A c : Eligible(path, c)' = Eligible(path, c)
    BY <1>2 DEF WorkflowOf, Eligible, ResultsOf
  <2> QED
    BY <1>1, <1>2, <1>3, <1>4, <2>1, <2>2 DEF DeliveryOwned
<1> QED
  BY <1>2, <1>3, <1>5, <1>6
  DEF Ledger, TablesGrow, NewResults, NewTaskResults, NewInvocations, NewSettlements, Put

\* An invocation begins.
LEMMA InvokeBooks ==
  ASSUME Standing, NEW path \in DOMAIN runs, NEW name \in Placements(WorkflowOf(path)), NEW trigger,
         Invoke(path, name, trigger)
  PROVE  Ledger
<1> PICK k : k = InvocationKey(path, name, trigger)
  OBVIOUS
<1>1. Begins
  BY TypesTellOwners, InvokeBegins DEF Standing, Accounts
<1>2. /\ trigger \in Triggers(path, name) /\ PlacementOf(path, name).type \notin Collecting
      /\ invocations' = Put(invocations, k, [status |-> "active", arm |-> None])
      /\ UNCHANGED <<results, taskResults, deliveries, settled>>
  BY DEF Invoke, Collecting
<1>3. k.run = path /\ k.placement = name /\ k.trigger = trigger
  BY DEF InvocationKey
<1>4. NewInvocations
  BY <1>2, <1>3 DEF NewInvocations, Put
<1>5. NewEnds
  <2>1. ASSUME NEW x \in DOMAIN invocations', x \notin DOMAIN invocations
        PROVE  Explained(x)'
    BY <1>2, <2>1 DEF Explained, Put
  <2> QED
    BY <1>1, <2>1 DEF Begins, NewEnds
<1> QED
  BY <1>2, <1>4, <1>5 DEF Ledger, TablesGrow, NewResults, NewTaskResults, NewDeliveries, NewSettlements

\* A task begins.
LEMMA BeginTaskBooks ==
  ASSUME Standing, NEW e \in DOMAIN executions, NEW t \in DOMAIN executions[e].tasks, BeginTask(e, t)
  PROVE  Ledger
<1>1. Begins
  BY TypesTellOwners, BeginTaskBegins DEF Standing, Accounts
<1>2. UNCHANGED <<invocations, results, taskResults, deliveries, settled>>
  BY DEF BeginTask
<1>3. NewEnds
  BY <1>1, <1>2 DEF Begins, NewEnds
<1> QED
  BY <1>2, <1>3, NothingNewBooks DEF NothingNew

\* The beginning and the end of an execution.
LEMMA FrameBooks ==
  ASSUME Standing, Start \/ ConcludeRunning \/ ConcludeStopping
  PROVE  Ledger
<1>1. UNCHANGED <<results, taskResults, deliveries, settled>>
  BY DEF Start, ConcludeRunning, ConcludeStopping
<1>2. CASE Start
  BY <1>1, <1>2, NothingNewBooks DEF Start, NothingNew, NewEnds, Put, NewRun
<1>3. CASE ConcludeRunning
  <2>1. /\ AllSettled(Root) /\ UNCHANGED <<invocations, executions>>
        /\ DOMAIN runs' = DOMAIN runs
        /\ \A p \in DOMAIN runs \ {Root} : runs'[p] = runs[p]
    BY <1>3 DEF ConcludeRunning
  <2> QED
    BY <1>1, <2>1, NothingNewBooks DEF NothingNew, NewEnds
<1>4. CASE ConcludeStopping
  <2>1. runs' = runs /\ DOMAIN invocations' = DOMAIN invocations
    BY <1>4 DEF ConcludeStopping
  <2>2. \A k \in DOMAIN invocations : invocations'[k].status = invocations[k].status \/ invocations'[k].status = "cancelled"
    BY <1>4 DEF ConcludeStopping, Standing, Accounts, TypeOK, InvocationsOK
  <2>3. /\ DOMAIN executions' = DOMAIN executions
        /\ \A e \in DOMAIN executions : executions'[e].complete = executions[e].complete
    <3>1. PICK table : table = DropUnstarted(executions)
      OBVIOUS
    <3>2. executions' = MapTasks(table, {"active"}, "cancelled") /\ table = MapTasks(executions, Unstarted, "notStarted")
      BY <1>4, <3>1 DEF ConcludeStopping, DropUnstarted, Unstarted
    <3>3. "cancelled" \in TaskStatuses /\ "notStarted" \in TaskStatuses /\ ExecutionsOK(executions)
      BY DEF Standing, Accounts, TypeOK, TaskStatuses, InvocationStatuses
    <3>4. ExecutionsOK(table) /\ SameTasks(executions, table) /\ \A e \in DOMAIN executions : table[e].complete = executions[e].complete
      BY <3>2, <3>3, MapTasksOK
    <3>5. SameTasks(table, executions') /\ \A e \in DOMAIN table : executions'[e].complete = table[e].complete
      BY <3>2, <3>3, <3>4, MapTasksOK
    <3> QED
      BY <3>4, <3>5 DEF SameTasks
  <2> QED
    BY <1>1, <2>1, <2>2, <2>3, NothingNewBooks DEF NothingNew, NewEnds, Explained
<1> QED
  BY <1>2, <1>3, <1>4

\* A task is given its input, an execution is cancelled, or nothing happens.
LEMMA IdleBooks ==
  ASSUME Standing, NEW e \in DOMAIN executions, NEW t \in DOMAIN executions[e].tasks,
         TaskInput(e, t) \/ TaskInputFailed(e, t)
  PROVE  Ledger
<1>1. Steady
  BY TransformsAreSteady DEF Standing, Accounts
<1>2. UNCHANGED <<results, taskResults, deliveries, settled>>
  BY DEF TaskInput, TaskInputFailed
<1> QED
  BY <1>1, <1>2, SteadyEnds, NothingNewBooks DEF NothingNew

\* Every step does to the tables what the ledger allows.
LEMMA StepBooks ==
  ASSUME Standing, [Next]_vars
  PROVE  Ledger
<1>1. ASSUME Steady, UNCHANGED <<results, taskResults, deliveries, settled>>
      PROVE  Ledger
  BY <1>1, SteadyEnds, NothingNewBooks DEF NothingNew
<1>2. CASE Control
  BY <1>2, FrameBooks, InvokeBooks, SettleBooks, CloseRunBooks, DeliverBooks, IdleBooks, BeginTaskBooks,
     OutputBooks, CloseExecutionBooks, ReportBooks
  DEF Control
<1>3. CASE \E c \in DOMAIN calls : Report(c)
  BY <1>3, ReportBooks
<1>4. CASE Cancel
  <2>1. UNCHANGED <<runs, invocations, results, taskResults, deliveries, settled>>
    BY <1>4 DEF Cancel
  <2>2. Steady
    BY <1>4, <2>1, StopIsSteady, IdleIsSteady DEF Cancel, Standing, Accounts
  <2> QED
    BY <1>1, <2>1, <2>2
<1>5. CASE Environment /\ ~Cancel
  BY <1>5, ReportBooks, DeliverBooks, IdleBooks, OutputBooks DEF Environment
<1>6. CASE Done \/ UNCHANGED vars
  BY <1>1, <1>6, IdleIsSteady DEF Done, vars
<1> QED
  BY <1>2, <1>3, <1>4, <1>5, <1>6 DEF Next

-----------------------------------------------------------------------------
(* The invariant *)

\* What has been settled, and what was settled from, is as it should be.
Books == EntriesOwned /\ EndsExplained /\ SinglesHaveOne /\ AllFit /\ Sealed /\ Lists /\ CompleteIsSettled

\* The inductive invariant: the types and owners, the life of what is owned,
\* the count of answers and the books of what is settled.
IInv == TypeOK /\ OwnersExist /\ NoLiveWhileStopping /\ Counted /\ Sourced /\ Life /\ Books

\* At first the tables are empty.
LEMMA InitBooks == Init => IInv
<1> SUFFICES ASSUME Init
             PROVE  IInv
  OBVIOUS
<1>1. TypeOK /\ OwnersExist /\ NoLiveWhileStopping
  BY InitKeepsTypes DEF Init, NoLiveWhileStopping
<1>2. Counted /\ Sourced
  BY DEF Init, Counted, Sourced
<1>3. Life
  BY DEF Init, Life, CallLife, RunLife, ExecutionLife
<1>4. EntriesOwned /\ EndsExplained /\ AllFit /\ Sealed /\ Lists
  BY DEF Init, EntriesOwned, EndsExplained, AllFit, Sealed, Lists
<1>5. SinglesHaveOne /\ CompleteIsSettled
  BY DEF Init, SinglesHaveOne, CompleteIsSettled
<1> QED
  BY <1>1, <1>2, <1>3, <1>4, <1>5 DEF IInv, Books

\* A step keeps the books, and what it does to the tables is in the ledger.
LEMMA StepKeepsBooks ==
  ASSUME IInv, [Next]_vars
  PROVE  IInv' /\ Grows /\ Kept /\ Ledger
<1>1. TypeOK' /\ OwnersExist' /\ Grows
  BY StepKeepsTypes DEF IInv
<1>2. NoLiveWhileStopping'
  BY QuietKept DEF IInv
<1>3. Counted' /\ Sourced'
  BY StepKeepsCount DEF IInv
<1>4. Kept /\ Life'
  BY StepKeepsLife DEF IInv
<1>5. Accounts /\ Standing /\ Lists /\ CompleteIsSettled
  BY <1>1, <1>4 DEF IInv, Books, Accounts, Standing
<1>6. Ledger
  BY <1>5, StepBooks
<1>7. EntriesOwned' /\ EndsExplained'
  BY <1>1, <1>4, <1>5, <1>6, EntriesStayOwned, EndsStayExplained DEF Accounts
<1>8. SinglesHaveOne'
  BY <1>1, <1>3, <1>5, <1>6, <1>7, SinglesStayOne DEF Accounts
<1>9. AllFit' /\ Sealed'
  BY <1>1, <1>4, <1>5, <1>6, <1>8, FitsStay, SealsStay DEF Standing
<1>10. Lists' /\ CompleteIsSettled'
  BY <1>1, <1>4, <1>5, <1>6, <1>7, <1>8, ListsStay, CompleteStaySettled DEF Accounts, Standing
<1> QED
  BY <1>1, <1>2, <1>3, <1>4, <1>6, <1>7, <1>8, <1>9, <1>10 DEF IInv, Books

\* The invariant holds in every state.
LEMMA BooksHold == Spec => []IInv
BY InitBooks, StepKeepsBooks, PTL DEF Spec

\* What owners say of what they own, in every state.
THEOREM LifeHolds == Spec => []Life
<1>1. IInv => Life
  BY DEF IInv
<1> QED
  BY <1>1, BooksHold, PTL

\* Settling a placement is final: whatever callbacks, cancels and timeouts do
\* next, it gets no delivery, invocation or result any more.
THEOREM SettledIsFinal == Spec => SettledFinal
<1> DEFINE Final ==
      \A s \in DOMAIN settled :
        /\ settled'[s] = settled[s]
        /\ ResultsOf(s.run, s.placement)' = ResultsOf(s.run, s.placement)
        /\ InvocationsOf(s.run, s.placement)' = InvocationsOf(s.run, s.placement)
        /\ \A k \in InvocationsOf(s.run, s.placement) : invocations'[k] = invocations[k]
        /\ \A i \in Incoming(WorkflowOf(s.run), s.placement) :
             DeliveriesOn(s.run, i)' = DeliveriesOn(s.run, i)
<1>1. ASSUME IInv, [Next]_vars
      PROVE  [Final]_vars
  <2>1. IInv' /\ Grows /\ Kept /\ Ledger
    BY <1>1, StepKeepsBooks
  <2> QED
    BY <1>1, <2>1, SettledStep DEF IInv, Books
<1>2. SettledFinal <=> [][Final]_vars
  BY DEF SettledFinal
<1> QED
  BY <1>1, <1>2, BooksHold, PTL DEF Spec

\* What waitStream, merge and list concurrencies collect is exactly what
\* arrived, then and later.
THEOREM ListsAreExact == Spec => []ListsExact
<1>1. IInv => ListsExact
  BY ListsMatch DEF IInv, Books
<1> QED
  BY <1>1, BooksHold, PTL

\* A placement or an arm that settled normally and is Single has one result,
\* and one that settled otherwise has none.
THEOREM OutcomesAlwaysMatch == Spec => []OutcomesMatchResults
<1>1. IInv => OutcomesMatchResults
  BY FitsMatch DEF IInv, Books
<1> QED
  BY <1>1, BooksHold, PTL

-----------------------------------------------------------------------------
(* What is left when a run completes *)

\* Everything in a run that is complete was consumed.
LEMMA CompleteIsConsumed == IInv => AllConsumed
<1> SUFFICES ASSUME IInv, NEW path \in DOMAIN runs, runs[path].complete, NEW i \in Edges(WorkflowOf(path))
             PROVE  LET c == Edge(WorkflowOf(path), i)
                    IN  /\ \A r \in Eligible(path, c) : IsDelivered(path, i, r.label)
                        /\ \A d \in DeliveriesOn(path, i) :
                             deliveries[d] # "failed" =>
                               IF PlacementOf(path, c.target).type \in {"waitStream", "merge"}
                               THEN d.source \in results[AggregateResult(path, c.target)].list
                               ELSE InvocationKey(path, c.target, <<d.source>>) \in DOMAIN invocations
  BY DEF AllConsumed
<1> PICK c : c = Edge(WorkflowOf(path), i)
  OBVIOUS
<1> PICK name : name = c.target
  OBVIOUS
<1>1. /\ name \in Placements(WorkflowOf(path)) /\ i \in Incoming(WorkflowOf(path), name)
      /\ PlacementOf(path, name).type \in Collecting => ~c.discard
  <2>1. /\ name \in Placements(WorkflowOf(path))
        /\ c.discard = ~TakesInput(WorkflowTable, PlacementOf(path, name))
    BY RunsAreValid, WorkflowIsValid DEF IInv, ValidConnection, PlacementOf
  <2> QED
    BY <2>1 DEF Incoming, TakesInput, Collecting
<1>2. SettledKey(path, name) \in DOMAIN settled
  BY <1>1 DEF IInv, Books, CompleteIsSettled, AllSettled, IsSettled
<1>3. Exhausted(path, name) /\ CollectedAll(path, name)
  BY <1>2 DEF IInv, Books, Sealed, SettledKey
<1>4. \A r \in Eligible(path, c) : IsDelivered(path, i, r.label)
  BY <1>1, <1>3 DEF Exhausted, Drained
<1>5. ASSUME NEW d \in DeliveriesOn(path, i), deliveries[d] # "failed", PlacementOf(path, name).type \in Collecting
      PROVE  d.source \in results[AggregateResult(path, name)].list
  <2> PICK r : r = AggregateResult(path, name)
    OBVIOUS
  <2>1. r \in DOMAIN results
    BY <1>1, <1>3, <1>5 DEF CollectedAll
  <2>2. r.label.kind = "aggregate" /\ r.run = path /\ r.label.placement = name
    BY DEF AggregateResult, ResultKey, Label, InvocationKey
  <2>3. results[r].list = {x.source : x \in Arrived(path, name)}
    BY <2>1, <2>2 DEF IInv, Books, Lists, AggregatedExactly
  <2>4. d \in Arrived(path, name)
    <3>1. d \in DOMAIN deliveries /\ d.run = path /\ d.connection = i
      BY DEF DeliveriesOn
    <3>2. deliveries[d] = "value"
      BY <1>1, <1>5, <3>1 DEF IInv, Books, EntriesOwned, DeliveryOwned
    <3> QED
      BY <1>1, <3>1, <3>2 DEF Arrived
  <2> QED
    BY <2>3, <2>4
<1>6. ASSUME NEW d \in DeliveriesOn(path, i), deliveries[d] # "failed", PlacementOf(path, name).type \notin Collecting
      PROVE  InvocationKey(path, name, <<d.source>>) \in DOMAIN invocations
  BY <1>1, <1>3, <1>6 DEF Exhausted, Triggered
<1> QED
  BY <1>4, <1>5, <1>6 DEF Collecting

\* A run inside another one that is not that one itself was called from inside.
LEMMA WithinParent ==
  ASSUME NEW path, IsSequence(path), NEW frame, NEW outer, IsSequence(outer),
         Within(Append(path, frame), outer), Append(path, frame) # outer
  PROVE  Within(path, outer)
<1> DEFINE p == Append(path, frame)
           n == Len(outer)
           S == {path[k] : k \in DOMAIN path} \cup {frame}
<1>1. path \in Seq(S) /\ p \in Seq(S) /\ Len(p) = Len(path) + 1 /\ n \in Nat /\ Len(path) \in Nat
  BY DEF IsSequence
<1>2. n <= Len(p) /\ SubSeq(p, 1, n) = outer
  BY <1>1 DEF Within
<1>3. CASE n = Len(p)
  <2>1. SubSeq(p, 1, Len(p)) = p
    BY <1>1
  <2> QED
    BY <1>2, <1>3, <2>1
<1>4. CASE n <= Len(path)
  <2>1. SubSeq(p, 1, n) = SubSeq(path, 1, n)
    BY <1>1, <1>4
  <2> QED
    BY <1>1, <1>2, <1>4, <2>1 DEF Within
<1> HIDE DEF p, n
<1> QED
  BY <1>1, <1>2, <1>3, <1>4

\* In a run that is complete every invocation, and all that it owns, has ended.
LEMMA CompleteIsEnded ==
  ASSUME IInv, NEW k \in DOMAIN invocations, runs[k.run].complete
  PROVE  /\ InvocationEnded(k)
         /\ k \in DOMAIN executions =>
              \A t \in DOMAIN executions[k].tasks :
                /\ TaskEnded(k, t)
                /\ CallKey(k, t) \in DOMAIN calls => CallEnded(calls[CallKey(k, t)].status)
<1>1. k.run \in DOMAIN runs /\ k.placement \in Placements(WorkflowOf(k.run))
  BY InvocationsAreIn DEF IInv
<1>2. SettledKey(k.run, k.placement) \in DOMAIN settled
  BY <1>1 DEF IInv, Books, CompleteIsSettled, AllSettled, IsSettled
<1>3. InvocationEnded(k)
  BY <1>2 DEF IInv, Books, Sealed, Exhausted, SettledKey, InvocationsOf
<1>4. ASSUME k \in DOMAIN executions, NEW t \in DOMAIN executions[k].tasks
      PROVE  /\ TaskEnded(k, t)
             /\ CallKey(k, t) \in DOMAIN calls => CallEnded(calls[CallKey(k, t)].status)
  <2>1. TaskEnded(k, t) /\ t # None
    BY <1>3, <1>4, TypesTellOwners DEF IInv, Life, ExecutionLife, InvocationEnded, OwnersDiffer
  <2>2. ASSUME CallKey(k, t) \in DOMAIN calls
        PROVE  CallEnded(calls[CallKey(k, t)].status)
    <3>1. executions[k].tasks[t] \in OwnerMay(calls[CallKey(k, t)].status)
      BY <2>1, <2>2 DEF IInv, Life, CallLife, OwnerStatus, CallKey
    <3>2. calls[CallKey(k, t)].status \notin Live
      BY <2>1, <3>1 DEF TaskEnded, OwnerMay, Live
    <3>3. calls[CallKey(k, t)].status # "cancelling"
      BY <2>1, <2>2 DEF TaskEnded, HoldsSlot
    <3> QED
      BY <3>2, <3>3 DEF CallEnded
  <2> QED
    BY <2>1, <2>2
<1> QED
  BY <1>3, <1>4

\* Whatever is inside a run that is complete is complete.
LEMMA CompleteInside ==
  ASSUME IInv, NEW path \in DOMAIN runs, runs[path].complete,
         NEW inner \in DOMAIN runs, Within(inner, path)
  PROVE  runs[inner].complete
<1> DEFINE Bad == {p \in DOMAIN runs : Within(p, path) /\ ~runs[p].complete}
           Lengths == {Len(p) : p \in Bad}
<1>1. OwnersDiffer
  BY TypesTellOwners DEF IInv
<1>2. \A p \in DOMAIN runs : IsSequence(p) /\ Len(p) \in Nat
  BY DEF IInv, TypeOK, IsSequence
<1> SUFFICES ASSUME Bad # {}
             PROVE  FALSE
  OBVIOUS
<1>3. PICK n \in Lengths : \A m \in Lengths : n <= m
  <2>1. Lengths \subseteq Nat /\ Lengths # {}
    BY <1>2
  <2> QED
    BY <2>1, LeastNatural
<1>4. PICK p \in Bad : Len(p) = n
  OBVIOUS
<1> DEFINE k == RunOwner(p)
           t == RunTask(p)
           frame == [placement |-> k.placement, trigger |-> k.trigger, task |-> t]
<1>5. p \in DOMAIN runs /\ Within(p, path) /\ ~runs[p].complete /\ p # path
  OBVIOUS
<1>6. p # Root
  <2>1. ASSUME p = Root
        PROVE  path = Root
    <3>1. Len(p) = 0 /\ Len(path) <= Len(p) /\ Len(path) \in Nat
      BY <1>2, <1>5, <2>1 DEF Root, Within
    <3>2. Len(path) = 0 /\ IsSequence(path)
      BY <1>2, <3>1
    <3> QED
      BY <3>2 DEF IsSequence, Root
  <2> QED
    BY <1>5, <2>1
<1>7. /\ p = Append(k.run, frame) /\ p = Child(k, t) /\ k \in DOMAIN invocations
      /\ t = None => k \notin DOMAIN executions
      /\ t # None => k \in DOMAIN executions /\ t \in DOMAIN executions[k].tasks
  BY <1>1, <1>5, <1>6 DEF OwnersDiffer, Child
<1>8. k.run \in DOMAIN runs
  BY <1>7, InvocationsAreIn DEF IInv
<1>9. Len(p) = Len(k.run) + 1
  BY <1>2, <1>7, <1>8, AppendIsSequence DEF IsSequence
<1>10. Within(k.run, path)
  BY <1>2, <1>5, <1>7, <1>8, WithinParent
<1>11. runs[k.run].complete
  <2>1. CASE k.run \in Bad
    <3>1. Len(k.run) \in Lengths
      BY <2>1
    <3>2. n <= Len(k.run)
      BY <1>3, <3>1
    <3> QED
      BY <1>2, <1>4, <1>8, <1>9, <3>2
  <2> QED
    BY <1>8, <1>10, <2>1
<1>12. CASE t = None
  BY <1>5, <1>7, <1>11, <1>12, CompleteIsEnded DEF InvocationEnded
<1>13. CASE t # None
  BY <1>5, <1>7, <1>11, <1>13, CompleteIsEnded DEF TaskEnded
<1> QED
  BY <1>12, <1>13

\* A run that is complete has nothing in flight.
LEMMA CompleteIsQuiet == IInv => CompleteRunsQuiet
<1> SUFFICES ASSUME IInv, NEW path \in DOMAIN runs, runs[path].complete
             PROVE  /\ \A p \in DOMAIN runs : Within(p, path) => runs[p].complete
                    /\ \A c \in DOMAIN calls : Within(c.owner.run, path) => CallEnded(calls[c].status)
                    /\ \A k \in DOMAIN invocations : Within(k.run, path) => invocations[k].status # "active"
                    /\ \A e \in DOMAIN executions : Within(e.run, path) => executions[e].complete
  BY DEF CompleteRunsQuiet
<1>1. OwnersDiffer
  BY TypesTellOwners DEF IInv
<1>2. \A p \in DOMAIN runs : Within(p, path) => runs[p].complete
  BY CompleteInside
<1>3. \A k \in DOMAIN invocations : k.run \in DOMAIN runs
  BY InvocationsAreIn DEF IInv
<1>4. ASSUME NEW k \in DOMAIN invocations, Within(k.run, path)
      PROVE  /\ InvocationEnded(k)
             /\ k \in DOMAIN executions =>
                  \A t \in DOMAIN executions[k].tasks :
                    CallKey(k, t) \in DOMAIN calls => CallEnded(calls[CallKey(k, t)].status)
  BY <1>2, <1>3, <1>4, CompleteIsEnded
<1>5. ASSUME NEW c \in DOMAIN calls, Within(c.owner.run, path)
      PROVE  CallEnded(calls[c].status)
  <2>1. /\ c = CallKey(c.owner, c.task) /\ c.owner \in DOMAIN invocations
        /\ c.task # None => c.owner \in DOMAIN executions /\ c.task \in DOMAIN executions[c.owner].tasks
    BY <1>1 DEF OwnersDiffer
  <2>2. CASE c.task = None
    BY <1>4, <1>5, <2>1, <2>2 DEF InvocationEnded
  <2>3. CASE c.task # None
    BY <1>4, <1>5, <2>1, <2>3
  <2> QED
    BY <2>2, <2>3
<1>6. \A k \in DOMAIN invocations : Within(k.run, path) => invocations[k].status # "active"
  BY <1>4 DEF InvocationEnded
<1>7. \A e \in DOMAIN executions : Within(e.run, path) => executions[e].complete
  BY <1>1, <1>4 DEF InvocationEnded, OwnersDiffer
<1> QED
  BY <1>2, <1>5, <1>6, <1>7

\* A run only completes once nothing in it, or in what it called, can still
\* happen.
THEOREM CompleteIsDone == Spec => []CompleteRunsDone
<1>1. IInv => CompleteRunsDone
  BY CompleteIsConsumed, CompleteIsQuiet DEF CompleteRunsDone
<1> QED
  BY <1>1, BooksHold, PTL

-----------------------------------------------------------------------------
(* Steps in which nothing goes wrong *)

FineCalls == {"running", "fetching", "returned"}
FineInvocations == {"active", "succeeded", "skipped"}
FineTasks == {"pending", "ready", "active", "succeeded", "skipped"}

\* Whatever gets a new status in the step gets a fine one.
GentleCalls ==
  \A c \in DOMAIN calls' :
    calls'[c].status \in FineCalls \/ (c \in DOMAIN calls /\ calls'[c].status = calls[c].status)
GentleInvocations ==
  \A k \in DOMAIN invocations' :
    invocations'[k].status \in FineInvocations \/ (k \in DOMAIN invocations /\ invocations'[k].status = invocations[k].status)
GentleTasks ==
  \A e \in DOMAIN executions' : \A t \in DOMAIN executions'[e].tasks :
    \/ executions'[e].tasks[t] \in FineTasks
    \/ /\ e \in DOMAIN executions /\ t \in DOMAIN executions[e].tasks
       /\ executions'[e].tasks[t] = executions[e].tasks[t]
Gentle == GentleCalls /\ GentleInvocations /\ GentleTasks

\* Tables that are left alone.
LEMMA SameIsGentle ==
  /\ calls' = calls => GentleCalls
  /\ invocations' = invocations => GentleInvocations
  /\ executions' = executions => GentleTasks
BY DEF GentleCalls, GentleInvocations, GentleTasks

\* A fine status for a call, an invocation or a task.
LEMMA SetIsGentle ==
  ASSUME TypeOK
  PROVE  /\ \A c, s : s \in FineCalls /\ calls' = SetCall(c, s) => GentleCalls
         /\ \A k, s : s \in FineInvocations /\ invocations' = SetInvocation(k, s) => GentleInvocations
         /\ \A e, t, s : s \in FineTasks /\ executions' = SetTask(e, t, s) => GentleTasks
<1>1. ASSUME NEW c, NEW s \in FineCalls, calls' = SetCall(c, s) PROVE GentleCalls
  BY <1>1 DEF SetCall, GentleCalls, TypeOK, CallsOK
<1>2. ASSUME NEW k, NEW s \in FineInvocations, invocations' = SetInvocation(k, s) PROVE GentleInvocations
  BY <1>2 DEF SetInvocation, GentleInvocations, TypeOK, InvocationsOK
<1>3. ASSUME NEW e, NEW t, NEW s \in FineTasks, executions' = SetTask(e, t, s) PROVE GentleTasks
  BY <1>3 DEF SetTask, GentleTasks, TypeOK, ExecutionsOK
<1> QED
  BY <1>1, <1>2, <1>3

\* A fine status for the owner of a call.
LEMMA SettleOwnerIsGentle ==
  ASSUME TypeOK, NEW c, NEW s \in FineInvocations \cap FineTasks, SettleOwner(c, s)
  PROVE  GentleInvocations /\ GentleTasks
<1>1. CASE c.task = None
  BY <1>1, SetIsGentle, SameIsGentle DEF SettleOwner, OwnerInvocations, OwnerExecutions
<1>2. CASE c.task # None
  BY <1>2, SetIsGentle, SameIsGentle DEF SettleOwner, OwnerInvocations, OwnerExecutions
<1> QED
  BY <1>1, <1>2

\* A new call is fine.
LEMMA NewCallIsGentle ==
  ASSUME NEW c, calls' = calls \/ calls' = Put(calls, c, NewCall)
  PROVE  GentleCalls
BY SameIsGentle DEF Put, NewCall, GentleCalls, FineCalls

\* What begins is fine.
LEMMA InvokeIsGentle ==
  ASSUME NEW path, NEW name, NEW trigger, Invoke(path, name, trigger)
  PROVE  Gentle
<1>1. GentleInvocations
  BY DEF Invoke, Put, GentleInvocations, FineInvocations
<1>2. GentleCalls
  BY NewCallIsGentle DEF Invoke
<1>3. ASSUME NEW k, NEW T, NEW init \in {"pending", "ready"},
             executions' = Put(executions, k, [tasks |-> [x \in T |-> init], complete |-> FALSE])
      PROVE  GentleTasks
  BY <1>3 DEF Put, GentleTasks, FineTasks
<1>4. GentleTasks
  <2>1. (IF PlacementOf(path, name).input THEN "pending" ELSE "ready") \in {"pending", "ready"}
    OBVIOUS
  <2> QED
    BY <1>3, <2>1, SameIsGentle DEF Invoke
<1> QED
  BY <1>1, <1>2, <1>4 DEF Gentle

\* The beginning of a task is fine.
LEMMA BeginningIsGentle ==
  ASSUME TypeOK, NEW e, NEW t, BeginTask(e, t)
  PROVE  Gentle
<1>1. executions' = SetTask(e, t, "active") /\ invocations' = invocations
  BY DEF BeginTask
<1> QED
  BY <1>1, NewCallIsGentle, SetIsGentle, SameIsGentle DEF Gentle, BeginTask, FineTasks

\* So is what goes on, and what ends as it should.
LEMMA GoingOnIsGentle ==
  ASSUME TypeOK, NEW path, NEW i, NEW source, NEW name, NEW e, NEW t, NEW r,
         \/ Start \/ Settle(path, name) \/ Deliver(path, i, source)
         \/ TaskInput(e, t) \/ TaskOutput(r) \/ CloseExecution(e) \/ ConcludeRunning
  PROVE  Gentle
<1>1. CASE Start \/ Settle(path, name) \/ Deliver(path, i, source) \/ TaskOutput(r) \/ ConcludeRunning
  BY <1>1, SameIsGentle DEF Start, Settle, Deliver, TaskOutput, ConcludeRunning, Gentle
<1>2. CASE TaskInput(e, t)
  BY <1>2, SameIsGentle, SetIsGentle DEF TaskInput, Gentle, FineTasks
<1>3. CASE CloseExecution(e)
  <2>1. /\ \E s \in FineInvocations : invocations' = SetInvocation(e, s)
        /\ executions' = [executions EXCEPT ![e].complete = TRUE] /\ calls' = calls
    BY <1>3 DEF CloseExecution, FineInvocations
  <2>2. GentleTasks
    BY <2>1 DEF GentleTasks, TypeOK, ExecutionsOK
  <2> QED
    BY <2>1, <2>2, SameIsGentle, SetIsGentle DEF Gentle
<1> QED
  BY <1>1, <1>2, <1>3

\* What a call answers is fine.
LEMMA AnsweringIsGentle ==
  ASSUME TypeOK, NEW c, NEW arm,
         Fetch(c) \/ CallReturned(c) \/ Judged(c, arm) \/ Yielded(c) \/ Ended(c)
  PROVE  Gentle
<1> USE DEF FineCalls, FineInvocations, FineTasks
<1>1. CASE Fetch(c)
  BY <1>1, SetIsGentle, SameIsGentle DEF Fetch, Gentle
<1>2. CASE CallReturned(c) \/ Ended(c)
  <2>1. calls' = SetCall(c, "returned") /\ SettleOwner(c, "succeeded")
    BY <1>2 DEF CallReturned, Ended
  <2> QED
    BY <2>1, SetIsGentle, SettleOwnerIsGentle DEF Gentle
<1>3. CASE Judged(c, arm)
  <2>1. /\ calls' = SetCall(c, "returned") /\ executions' = executions
        /\ invocations' = [invocations EXCEPT ![c.owner] = [status |-> "succeeded", arm |-> arm]]
    BY <1>3 DEF Judged
  <2>2. GentleInvocations
    BY <2>1 DEF GentleInvocations
  <2> QED
    BY <2>1, <2>2, SetIsGentle, SameIsGentle DEF Gentle
<1>4. CASE Yielded(c)
  <2>1. /\ calls' = [calls EXCEPT ![c] = [status |-> "running", yields |-> @.yields + 1]]
        /\ UNCHANGED <<invocations, executions>>
    BY <1>4 DEF Yielded
  <2>2. GentleCalls
    BY <2>1 DEF GentleCalls
  <2> QED
    BY <2>1, <2>2, SameIsGentle DEF Gentle
<1> QED
  BY <1>1, <1>2, <1>3, <1>4

-----------------------------------------------------------------------------
(* What has failed *)

\* The tasks whose input transform threw, by the key a call of them would have.
FailedTasks == UNION {{CallKey(e, t) : t \in FailedInputs(e)} : e \in DOMAIN executions}

FailedTask(x) ==
  /\ x = CallKey(x.owner, x.task)
  /\ x.owner \in DOMAIN executions
  /\ x.task \in DOMAIN executions[x.owner].tasks
  /\ executions[x.owner].tasks[x.task] = "failed"
  /\ x \notin DOMAIN calls
  /\ Child(x.owner, x.task) \notin DOMAIN runs

\* What the failed tasks are.
KnownTasks == \A x : x \in FailedTasks <=> FailedTask(x)

\* A failed task without a call is one whose input transform threw.
LEMMA FailedTasksAre == KnownTasks
<1>1. ASSUME NEW x \in FailedTasks PROVE FailedTask(x)
  <2>1. PICK e \in DOMAIN executions : \E t \in FailedInputs(e) : x = CallKey(e, t)
    BY DEF FailedTasks
  <2> QED
    BY <2>1 DEF FailedInputs, FailedTask, CallKey
<1>2. ASSUME NEW x, FailedTask(x) PROVE x \in FailedTasks
  BY <1>2 DEF FailedTasks, FailedInputs, FailedTask
<1> QED
  BY <1>1, <1>2 DEF KnownTasks

\* The calls that failed are those whose owner did.
KnownCalls == \A c : c \in FailedCalls <=> c \in DOMAIN calls /\ OwnerStatus(c) = "failed"
\* A call is among those that failed exactly if its owner failed.
LEMMA FailedCallsAre == TypeOK /\ Life => KnownCalls
<1> SUFFICES ASSUME TypeOK, Life, NEW c
             PROVE  c \in FailedCalls <=> c \in DOMAIN calls /\ OwnerStatus(c) = "failed"
  BY DEF KnownCalls
<1>1. c \in DOMAIN calls => OwnerStatus(c) \in OwnerMay(calls[c].status) /\ calls[c].status \in CallStatuses
  BY DEF Life, CallLife, TypeOK, CallsOK
<1>2. OwnerStatus(c) \in OwnerMay(calls[c].status) /\ calls[c].status \in CallStatuses =>
        (OwnerStatus(c) = "failed" <=> \/ calls[c].status \in {"failed", "lost"}
                                       \/ calls[c].status \in {"cancelling", "cancelled"} /\ OwnerStatus(c) = "failed")
  BY DEF OwnerMay, Live, CallStatuses
<1> QED
  BY <1>1, <1>2 DEF FailedCalls

\* Which failed call, delivery, output or task is new after the step.
NewCalls(S) == FailedCalls' = FailedCalls \cup S
NewTasks(S) == FailedTasks' = FailedTasks \cup S
NewFailedDeliveries(S) == FailedDeliveries' = FailedDeliveries \cup S
NewOutputs(S) == FailedOutputs' = FailedOutputs \cup S

\* No owner of a call fails in the step, but of those in S.
LEMMA NewlyFailedCalls ==
  ASSUME TypeOK, TypeOK', OwnersDiffer, Life, Life', Kept, GentleCalls \/ DOMAIN calls' = DOMAIN calls, NEW S, S \subseteq DOMAIN calls,
         \A c \in DOMAIN calls \ S : OwnerStatus(c)' = "failed" => OwnerStatus(c) = "failed",
         \A c \in S : OwnerStatus(c)' = "failed"
  PROVE  NewCalls(S)
<1>1. KnownCalls /\ KnownCalls'
  BY FailedCallsAre, PTL
<1>3. ASSUME NEW c \in DOMAIN calls' \ DOMAIN calls PROVE OwnerStatus(c)' # "failed"
  <2>1. calls'[c].status \in FineCalls
    BY DEF GentleCalls
  <2>2. OwnerStatus(c)' \in OwnerMay(calls'[c].status)
    BY DEF Life, CallLife
  <2> QED
    BY <2>1, <2>2 DEF OwnerMay, FineCalls, Live
<1>4. ASSUME NEW c \in DOMAIN calls, OwnerStatus(c) = "failed" PROVE OwnerStatus(c)' = "failed"
  BY <1>4 DEF OwnerStatus, Kept, OwnersDiffer, Unstarted
<1>5. \A c \in DOMAIN calls : c \in DOMAIN calls'
  BY DEF Kept
<1> QED
  BY <1>1, <1>3, <1>4, <1>5 DEF NewCalls, KnownCalls

\* No task fails in the step without a call or a run, but those in S.
LEMMA NewlyFailedTasks ==
  ASSUME OwnersDiffer, Kept, NEW S,
         \A x : FailedTask(x)' => FailedTask(x) \/ x \in S,
         \A x \in S : FailedTask(x)'
  PROVE  NewTasks(S)
<1>1. KnownTasks /\ KnownTasks'
  BY FailedTasksAre, PTL
<1>3. ASSUME NEW x, FailedTask(x) PROVE FailedTask(x)'
  <2>1. /\ x.owner \in DOMAIN invocations /\ x.task # None /\ OwnerStatus(x) = "failed"
        /\ CallerOf(Child(x.owner, x.task)) = x /\ Child(x.owner, x.task) # Root
        /\ RunOwner(Child(x.owner, x.task)) = x.owner /\ RunTask(Child(x.owner, x.task)) = x.task
    BY <1>3 DEF FailedTask, OwnersDiffer, OwnerStatus, CallerOf
  <2>2. x \notin DOMAIN calls'
    BY <1>3, <2>1 DEF Kept, FailedTask
  <2>3. Child(x.owner, x.task) \notin DOMAIN runs'
    BY <1>3, <2>1 DEF Kept, FailedTask
  <2>4. executions'[x.owner].tasks[x.task] = "failed" /\ x.owner \in DOMAIN executions' /\ x.task \in DOMAIN executions'[x.owner].tasks
    BY <1>3 DEF Kept, FailedTask, Unstarted
  <2> QED
    BY <1>3, <2>2, <2>3, <2>4 DEF FailedTask
<1> QED
  BY <1>1, <1>3 DEF NewTasks, KnownTasks

\* Nothing fails that has an owner.
NoneFail ==
  /\ \A c \in DOMAIN calls : OwnerStatus(c)' = "failed" => OwnerStatus(c) = "failed"
  /\ \A x : FailedTask(x)' => FailedTask(x)

\* Where every new status is a fine one, no owner of a call and no task fails.
LEMMA GentleFailsNone ==
  ASSUME OwnersDiffer, Kept, Gentle
  PROVE  NoneFail
<1>1. ASSUME NEW c \in DOMAIN calls, OwnerStatus(c)' = "failed" PROVE OwnerStatus(c) = "failed"
  <2>1. CASE c.task = None
    BY <1>1, <2>1 DEF OwnerStatus, Gentle, GentleInvocations, FineInvocations, OwnersDiffer, Kept
  <2>2. CASE c.task # None
    <3>1. c.owner \in DOMAIN executions' /\ c.task \in DOMAIN executions'[c.owner].tasks
      BY <2>2 DEF OwnersDiffer, Kept
    <3> QED
      BY <1>1, <2>2, <3>1 DEF OwnerStatus, Gentle, GentleTasks, FineTasks
  <2> QED
    BY <2>1, <2>2
<1>2. ASSUME NEW x, FailedTask(x)' PROVE FailedTask(x)
  BY <1>2 DEF FailedTask, Gentle, GentleTasks, FineTasks, Kept
<1> QED
  BY <1>1, <1>2 DEF NoneFail

-----------------------------------------------------------------------------
(* What each step adds to what has failed *)

\* What is known of a step.
Scene ==
  /\ IInv /\ IInv'
  /\ OwnersDiffer /\ Grows /\ Kept /\ Ledger

\* A step of an execution happens in such a scene.
LEMMA StepHasScene ==
  ASSUME IInv, [Next]_vars
  PROVE  Scene
BY StepKeepsBooks, TypesTellOwners DEF Scene, IInv

\* What a step adds: calls, deliveries, outputs and tasks.
Adds(C, D, O, T) == NewCalls(C) /\ NewFailedDeliveries(D) /\ NewOutputs(O) /\ NewTasks(T)

\* A failure is recorded at this owner and task, its policy is obeyed, and
\* the step adds the one thing that failed there.
Records(owner, task) ==
  \E cause \in {"error", "timeout", "lost", "transform"} :
    LET failure == FailureAt(owner, task, cause)
    IN  /\ owner.run \in DOMAIN runs
        /\ failures' = Append(failures, failure)
        /\ status' = IF PolicyAt(failure) = "stop" THEN "stopping" ELSE status
OneFailure ==
  \/ \E c \in DOMAIN calls \ FailedCalls : Records(c.owner, c.task) /\ Adds({c}, {}, {}, {})
  \/ \E d \in DOMAIN deliveries' \ DOMAIN deliveries :
       /\ Records(SettledKey(d.run, Edge(WorkflowOf(d.run), d.connection).target), None)
       /\ Adds({}, {d}, {}, {})
  \/ \E r \in DOMAIN taskResults \ FailedOutputs :
       Records(r.execution, r.task) /\ r.task # None /\ Adds({}, {}, {r}, {})
  \/ \E e \in DOMAIN executions : \E t \in DOMAIN executions[e].tasks :
       /\ t # None /\ CallKey(e, t) \notin FailedTasks
       /\ Records(e, t) /\ Adds({}, {}, {}, {CallKey(e, t)})

\* A step that records nothing adds nothing.
NoFailure == failures' = failures /\ Adds({}, {}, {}, {})

\* Deliveries and outputs that had failed did, and no others.
LEMMA DeliveriesFailNone ==
  ASSUME Ledger, \A d \in DOMAIN deliveries' \ DOMAIN deliveries : deliveries'[d] # "failed"
  PROVE  NewFailedDeliveries({})
BY DEF NewFailedDeliveries, FailedDeliveries, Ledger, TablesGrow

\* Outputs that had failed did, and no others.
LEMMA OutputsFailNone ==
  ASSUME Ledger, \A r \in DOMAIN taskResults : taskResults'[r] = "failed" => taskResults[r] = "failed"
  PROVE  NewOutputs({})
<1>1. ASSUME NEW r \in FailedOutputs PROVE r \in FailedOutputs'
  BY DEF FailedOutputs, Ledger, TablesGrow
<1>2. ASSUME NEW r \in FailedOutputs' PROVE r \in FailedOutputs
  BY DEF FailedOutputs, Ledger, NewTaskResults
<1> QED
  BY <1>1, <1>2 DEF NewOutputs

\* Who had failed had, when nothing fails that has an owner.
LEMMA OwnersFailNone ==
  ASSUME Scene, GentleCalls \/ DOMAIN calls' = DOMAIN calls, NoneFail
  PROVE  NewCalls({}) /\ NewTasks({})
<1>1. /\ TypeOK /\ TypeOK' /\ OwnersDiffer /\ Life /\ Life' /\ Kept
      /\ GentleCalls \/ DOMAIN calls' = DOMAIN calls
  BY DEF Scene, IInv
<1>2. NewCalls({})
  BY <1>1, NewlyFailedCalls DEF NoneFail
<1>3. NewTasks({})
  BY <1>1, NewlyFailedTasks DEF NoneFail
<1> QED
  BY <1>2, <1>3

\* Steps in which nothing goes wrong.
LEMMA GentleNoFailure ==
  ASSUME Scene, Gentle, failures' = failures,
         \A d \in DOMAIN deliveries' \ DOMAIN deliveries : deliveries'[d] # "failed",
         \A r \in DOMAIN taskResults : taskResults'[r] = "failed" => taskResults[r] = "failed"
  PROVE  NoFailure
BY GentleFailsNone, OwnersFailNone, DeliveriesFailNone, OutputsFailNone DEF NoFailure, Adds, Scene, Gentle

\* The end of a call that was being cancelled is no failure.
LEMMA CancelledNoFailure ==
  ASSUME Scene, NEW c \in DOMAIN calls, calls[c].status = "cancelling", CallCancelled(c)
  PROVE  NoFailure
<1>1. TypeOK /\ OwnersDiffer /\ Life /\ Ledger
  BY DEF Scene, IInv
<1>2. CallEvent(c)
  BY <1>1, CancelledIsEvent
<1>3. UNCHANGED <<runs, failures, deliveries, taskResults>> /\ DOMAIN calls' = DOMAIN calls
  BY <1>2 DEF CallCancelled, CallEvent, SameTables
<1>4. \A k \in DOMAIN invocations : invocations'[k].status = "failed" => invocations[k].status = "failed"
  BY <1>1 DEF CallCancelled, SettleOwner, OwnerInvocations, SetInvocation, TypeOK, InvocationsOK
<1>5. \A e \in DOMAIN executions : \A t \in DOMAIN executions[e].tasks :
        executions'[e].tasks[t] = "failed" => executions[e].tasks[t] = "failed"
  BY <1>1 DEF CallCancelled, SettleOwner, OwnerExecutions, SetTask, TypeOK, ExecutionsOK
<1>6. \A d \in DOMAIN calls : OwnerStatus(d)' = "failed" => OwnerStatus(d) = "failed"
  BY <1>1, <1>4, <1>5 DEF OwnerStatus, OwnersDiffer
<1>7. \A x : FailedTask(x)' => FailedTask(x)
  BY <1>2, <1>3, <1>5 DEF FailedTask, CallEvent, SameTables, SameTasks
<1> QED
  BY <1>1, <1>3, <1>6, <1>7, OwnersFailNone, DeliveriesFailNone, OutputsFailNone DEF NoFailure, Adds, NoneFail

\* A failure with its policy.
LEMMA FailIsRecorded ==
  ASSUME NEW owner, NEW task, NEW cause \in {"error", "timeout", "lost", "transform"}, NEW policy, NEW ct, NEW et,
         Fail(FailureAt(owner, task, cause), policy, ct, et), owner.run \in DOMAIN runs,
         policy = PolicyAt(FailureAt(owner, task, cause))
  PROVE  Records(owner, task)
BY DEF Fail, Stop, Records

\* A call that fails is the one that is added.
LEMMA FailCallOneFailure ==
  ASSUME Scene, NEW c \in DOMAIN calls, calls[c].status \in Live,
         NEW s \in {"failed", "lost", "cancelling"}, NEW cause \in {"error", "timeout", "lost", "transform"},
         FailCall(c, s, cause)
  PROVE  OneFailure
<1>1. TypeOK /\ TypeOK' /\ OwnersExist /\ OwnersDiffer /\ Life /\ Life' /\ Kept /\ Ledger
  BY DEF Scene, IInv
<1>2. /\ CallEvent(c) /\ OwnerStatus(c)' = "failed"
      /\ \A e \in DOMAIN executions : \A t \in DOMAIN executions[e].tasks :
           executions'[e].tasks[t] = "failed" => executions[e].tasks[t] = "failed" \/ (e = c.owner /\ t = c.task)
  BY <1>1, FailCallIsEvent
<1>3. UNCHANGED <<runs, deliveries, taskResults>> /\ DOMAIN calls' = DOMAIN calls
  BY <1>2 DEF FailCall, CallEvent, SameTables
<1>4. OwnerStatus(c) = "active" /\ c \notin FailedCalls
  <2>1. OwnerStatus(c) = "active"
    BY <1>1, LiveIsActive
  <2> QED
    BY <1>1, <2>1, FailedCallsAre DEF KnownCalls
<1>5. ASSUME NEW d \in DOMAIN calls \ {c}, OwnerStatus(d)' = "failed" PROVE OwnerStatus(d) = "failed"
  <2>1. OwnerStatus(d)' = OwnerStatus(d) \/ OwnerStatus(d) \in Unstarted
    BY <1>1, <1>2, OthersKeepStatus DEF OwnersDiffer
  <2>2. OwnerStatus(d) \notin Unstarted
    BY <1>1 DEF Life, CallLife, OwnerMay, Unstarted
  <2> QED
    BY <1>5, <2>1, <2>2
<1>6. NewCalls({c})
  BY <1>1, <1>2, <1>3, <1>5, NewlyFailedCalls
<1>7. ASSUME NEW x, FailedTask(x)' PROVE FailedTask(x)
  <2>1. x # c
    BY <1>3, <1>7 DEF FailedTask
  <2>2. x = CallKey(x.owner, x.task) /\ c = CallKey(c.owner, c.task)
    BY <1>1, <1>7 DEF FailedTask, OwnersDiffer
  <2>3. ~(x.owner = c.owner /\ x.task = c.task)
    BY <2>1, <2>2
  <2> QED
    BY <1>2, <1>3, <1>7, <2>3 DEF FailedTask, CallEvent, SameTables, SameTasks
<1>8. NewTasks({})
  BY <1>1, <1>7, NewlyFailedTasks
<1>9. NewFailedDeliveries({}) /\ NewOutputs({})
  BY <1>1, <1>3, DeliveriesFailNone, OutputsFailNone
<1>10. Records(c.owner, c.task)
  <2>1. SpecOf(c).policy = PolicyAt(FailureAt(c.owner, c.task, cause))
    BY DEF SpecOf, PolicyAt, FailureAt
  <2>2. PICK et, ct : Fail(FailureAt(c.owner, c.task, cause), SpecOf(c).policy, ct, et)
    BY DEF FailCall
  <2>3. c.owner.run \in DOMAIN runs
    BY <1>1, OwnersGiveCalls DEF CallFacts
  <2> QED
    BY <2>1, <2>2, <2>3, FailIsRecorded
<1> QED
  BY <1>4, <1>6, <1>8, <1>9, <1>10 DEF OneFailure, Adds

-----------------------------------------------------------------------------
(* Failures of the transforms, and ends that are no failure *)

\* A step that begins no call fails none that has one, and no task but those
\* that call a workflow.
LEMMA QuietNoFailure ==
  ASSUME Scene, DOMAIN calls' = DOMAIN calls, DOMAIN executions' = DOMAIN executions,
         failures' = failures, deliveries' = deliveries,
         \A r \in DOMAIN taskResults : taskResults'[r] = "failed" => taskResults[r] = "failed",
         \A k \in DOMAIN invocations : invocations'[k].status = "failed" =>
           invocations[k].status = "failed" \/ CallKey(k, None) \notin DOMAIN calls,
         \A e \in DOMAIN executions : \A t \in DOMAIN executions[e].tasks :
           executions'[e].tasks[t] = "failed" =>
             \/ executions[e].tasks[t] = "failed"
             \/ CallKey(e, t) \notin DOMAIN calls /\ Child(e, t) \in DOMAIN runs
  PROVE  NoFailure
<1>1. OwnersDiffer /\ Kept /\ Ledger
  BY DEF Scene
<1>2. ASSUME NEW c \in DOMAIN calls, OwnerStatus(c)' = "failed" PROVE OwnerStatus(c) = "failed"
  <2>1. c = CallKey(c.owner, c.task) /\ c.owner \in DOMAIN invocations
    BY <1>1 DEF OwnersDiffer
  <2>2. CASE c.task = None
    BY <1>2, <2>1, <2>2 DEF OwnerStatus
  <2>3. CASE c.task # None
    <3>1. c.owner \in DOMAIN executions /\ c.task \in DOMAIN executions[c.owner].tasks
      BY <1>1, <2>3 DEF OwnersDiffer
    <3> QED
      BY <1>2, <2>1, <2>3, <3>1 DEF OwnerStatus
  <2> QED
    BY <2>2, <2>3
<1>3. ASSUME NEW x, FailedTask(x)' PROVE FailedTask(x)
  <2>1. x.owner \in DOMAIN executions /\ x.task \in DOMAIN executions[x.owner].tasks
    BY <1>1, <1>3 DEF FailedTask, Kept
  <2>2. Child(x.owner, x.task) \notin DOMAIN runs /\ x \notin DOMAIN calls /\ x = CallKey(x.owner, x.task)
    BY <1>1, <1>3 DEF FailedTask, Kept
  <2> QED
    BY <1>3, <2>1, <2>2 DEF FailedTask
<1>4. NoneFail
  BY <1>2, <1>3 DEF NoneFail
<1> QED
  BY <1>1, <1>4, OwnersFailNone, DeliveriesFailNone, OutputsFailNone DEF NoFailure, Adds

\* The stop of an execution, because it is cancelled.
LEMMA CancelNoFailure ==
  ASSUME Scene, Cancel
  PROVE  NoFailure
<1>1. TypeOK
  BY DEF Scene, IInv
<1>2. DOMAIN calls' = DOMAIN calls /\ DOMAIN executions' = DOMAIN executions
  <2>1. CASE status = "running" /\ Stop(calls, executions)
    BY <2>1 DEF Stop, CancelLive, DropUnstarted, MapTasks
  <2>2. CASE UNCHANGED <<status, calls, executions>>
    BY <2>2
  <2> QED
    BY <2>1, <2>2 DEF Cancel
<1>3. \A e \in DOMAIN executions : \A t \in DOMAIN executions[e].tasks :
        executions'[e].tasks[t] = "failed" => executions[e].tasks[t] = "failed"
  <2>1. CASE status = "running" /\ Stop(calls, executions)
    <3>1. executions' = MapTasks(executions, {"pending", "ready"}, "notStarted")
      BY <2>1 DEF Stop, DropUnstarted
    <3>2. ExecutionsOK(executions) /\ "notStarted" \in TaskStatuses
      BY <1>1 DEF TypeOK, TaskStatuses
    <3> QED
      BY <3>1, <3>2, MapTasksOK
  <2>2. CASE UNCHANGED <<status, calls, executions>>
    BY <2>2
  <2> QED
    BY <2>1, <2>2 DEF Cancel
<1> QED
  BY <1>2, <1>3, QuietNoFailure DEF Cancel

\* The end of an execution that was stopped.
LEMMA ConcludeStoppingNoFailure ==
  ASSUME Scene, ConcludeStopping
  PROVE  NoFailure
<1>1. TypeOK
  BY DEF Scene, IInv
<1>2. PICK dropped : dropped = MapTasks(executions, {"pending", "ready"}, "notStarted")
  OBVIOUS
<1>3. executions' = MapTasks(dropped, {"active"}, "cancelled")
  BY <1>2 DEF ConcludeStopping, DropUnstarted
<1>4. ExecutionsOK(executions) /\ "notStarted" \in TaskStatuses /\ "cancelled" \in TaskStatuses
  BY <1>1 DEF TypeOK, TaskStatuses, InvocationStatuses
<1>5. /\ ExecutionsOK(dropped) /\ SameTasks(executions, dropped)
      /\ \A e \in DOMAIN executions : \A t \in DOMAIN executions[e].tasks :
           dropped[e].tasks[t] = "failed" => executions[e].tasks[t] = "failed"
  BY <1>2, <1>4, MapTasksOK
<1>6. /\ SameTasks(dropped, executions')
      /\ \A e \in DOMAIN dropped : \A t \in DOMAIN dropped[e].tasks :
           executions'[e].tasks[t] = "failed" => dropped[e].tasks[t] = "failed"
  BY <1>3, <1>4, <1>5, MapTasksOK
<1>7. /\ DOMAIN executions' = DOMAIN executions
      /\ \A e \in DOMAIN executions : \A t \in DOMAIN executions[e].tasks :
           executions'[e].tasks[t] = "failed" => executions[e].tasks[t] = "failed"
  BY <1>5, <1>6 DEF SameTasks
<1>8. \A k \in DOMAIN invocations : invocations'[k].status = "failed" => invocations[k].status = "failed"
  BY <1>1 DEF ConcludeStopping, TypeOK, InvocationsOK
<1>9. UNCHANGED <<calls, failures, deliveries, taskResults>>
  BY DEF ConcludeStopping
<1> QED
  BY <1>7, <1>8, <1>9, QuietNoFailure

\* The end of a called workflow: what failed in it is recorded there.
LEMMA CloseRunNoFailure ==
  ASSUME Scene, NEW path \in DOMAIN runs, CloseRun(path)
  PROVE  NoFailure
<1> DEFINE owner == RunOwner(path)
           task == RunTask(path)
<1>1. TypeOK /\ OwnersDiffer
  BY DEF Scene, IInv
<1>2. path # Root /\ UNCHANGED <<calls, deliveries, failures>>
  BY DEF CloseRun
<1>3. /\ path = Child(owner, task) /\ CallKey(owner, task) \notin DOMAIN calls
  BY <1>1, <1>2 DEF OwnersDiffer, CallerOf
<1>4. \A r \in DOMAIN taskResults : taskResults'[r] = "failed" => taskResults[r] = "failed"
  BY DEF CloseRun, Put
<1>5. CASE task = None
  <2>1. executions' = executions /\ \E s : invocations' = SetInvocation(owner, s)
    BY <1>5 DEF CloseRun
  <2>2. \A k \in DOMAIN invocations : invocations'[k].status = "failed" => invocations[k].status = "failed" \/ k = owner
    BY <1>1, <2>1 DEF SetInvocation, TypeOK, InvocationsOK
  <2> QED
    BY <1>2, <1>3, <1>4, <1>5, <2>1, <2>2, QuietNoFailure
<1>6. CASE task # None
  <2>1. invocations' = invocations /\ \E s : executions' = SetTask(owner, task, s)
    BY <1>6 DEF CloseRun
  <2>2. DOMAIN executions' = DOMAIN executions
    BY <2>1 DEF SetTask
  <2>3. \A e \in DOMAIN executions : \A t \in DOMAIN executions[e].tasks :
          executions'[e].tasks[t] = "failed" => executions[e].tasks[t] = "failed" \/ (e = owner /\ t = task)
    BY <1>1, <2>1 DEF SetTask, TypeOK, ExecutionsOK
  <2> QED
    BY <1>2, <1>3, <1>4, <1>6, <2>1, <2>2, <2>3, QuietNoFailure
<1> QED
  BY <1>5, <1>6

\* A failure that is none of a call: nothing fails but what is recorded.
LEMMA OwnersOfFailure ==
  ASSUME Scene, NEW failure, NEW policy, Fail(failure, policy, calls, executions), invocations' = invocations
  PROVE  NewCalls({}) /\ NewTasks({})
<1>1. TypeOK /\ OwnersDiffer /\ Kept
  BY DEF Scene, IInv
<1>2. StopsAtMost(calls, executions)
  BY <1>1, FailIsSteady DEF TypeOK
<1>3. DOMAIN calls' = DOMAIN calls /\ SameTasks(executions, executions')
  BY <1>2 DEF StopsAtMost
<1>4. \A e \in DOMAIN executions : \A t \in DOMAIN executions[e].tasks :
        executions'[e].tasks[t] = "failed" => executions[e].tasks[t] = "failed"
  BY <1>2 DEF StopsAtMost
<1>5. \A c \in DOMAIN calls : OwnerStatus(c)' = "failed" => OwnerStatus(c) = "failed"
  BY <1>1, <1>4 DEF OwnerStatus, OwnersDiffer
<1>6. \A x : FailedTask(x)' => FailedTask(x)
  BY <1>1, <1>3, <1>4 DEF FailedTask, SameTasks, Kept
<1> QED
  BY <1>3, <1>5, <1>6, OwnersFailNone DEF NoneFail

\* The transform of a connection throws.
LEMMA TransformOneFailure ==
  ASSUME Scene, NEW path \in DOMAIN runs, NEW i, NEW source, TransformFailed(path, i, source)
  PROVE  OneFailure
<1> DEFINE d == DeliveryKey(path, i, source)
           owner == SettledKey(path, Edge(WorkflowOf(path), i).target)
<1>1. OwnersDiffer /\ Ledger
  BY DEF Scene
<1>2. /\ d.run = path /\ d.connection = i /\ owner.run = path /\ owner.placement = Edge(WorkflowOf(path), i).target
      /\ d \notin DOMAIN deliveries
  BY DEF DeliveryKey, SettledKey, TransformFailed, Deliverable, IsDelivered
<1>3. /\ deliveries' = Put(deliveries, d, "failed")
      /\ Fail(FailureAt(owner, None, "transform"), PlacementOf(path, owner.placement).policy, calls, executions)
      /\ UNCHANGED <<taskResults, invocations>>
  BY <1>2 DEF TransformFailed
<1>4. d \in DOMAIN deliveries' \ DOMAIN deliveries /\ NewFailedDeliveries({d})
  BY <1>2, <1>3 DEF Put, NewFailedDeliveries, FailedDeliveries
<1>5. NewCalls({}) /\ NewTasks({})
  BY <1>3, OwnersOfFailure
<1>6. NewOutputs({})
  BY <1>1, <1>3, OutputsFailNone
<1>7. Records(owner, None)
  <2>1. PlacementOf(path, owner.placement).policy = PolicyAt(FailureAt(owner, None, "transform"))
    BY <1>2 DEF PolicyAt, FailureAt
  <2> QED
    BY <1>2, <1>3, <2>1, FailIsRecorded
<1> QED
  BY <1>2, <1>4, <1>5, <1>6, <1>7 DEF OneFailure, Adds

\* An execution of a concurrency is in a run that exists.
LEMMA ExecutionsAreIn ==
  ASSUME OwnersExist, NEW e \in DOMAIN executions
  PROVE  e.run \in DOMAIN runs
BY DEF OwnersExist, ExecutionOwned, InvocationOwned

\* The transform of the output of a task throws.
LEMMA TaskOutputOneFailure ==
  ASSUME Scene, NEW r \in DOMAIN taskResults, TaskOutputFailed(r)
  PROVE  OneFailure
<1>1. OwnersDiffer /\ OwnersExist /\ Ledger /\ TaskResultOwned(r)
  BY DEF Scene, IInv, Books, EntriesOwned
<1>2. /\ taskResults[r] = "pending"
      /\ taskResults' = [taskResults EXCEPT ![r] = "failed"]
      /\ Fail(FailureAt(r.execution, r.task, "transform"), TaskSpec(r.execution, r.task).policy, calls, executions)
      /\ UNCHANGED <<deliveries, invocations>>
  BY DEF TaskOutputFailed, OutputPending
<1>3. r \notin FailedOutputs /\ NewOutputs({r})
  BY <1>2 DEF FailedOutputs, NewOutputs
<1>4. NewCalls({}) /\ NewTasks({})
  BY <1>2, OwnersOfFailure
<1>5. NewFailedDeliveries({})
  BY <1>1, <1>2, DeliveriesFailNone
<1>6. r.execution \in DOMAIN executions /\ r.task # None /\ r.execution.run \in DOMAIN runs
  BY <1>1, ExecutionsAreIn DEF TaskResultOwned, OwnersDiffer
<1>7. TaskSpec(r.execution, r.task).policy = PolicyAt(FailureAt(r.execution, r.task, "transform"))
  BY <1>6 DEF PolicyAt, FailureAt, TaskSpec, ConcurrencyOf
<1>8. Records(r.execution, r.task)
  BY <1>2, <1>6, <1>7, FailIsRecorded
<1> QED
  BY <1>3, <1>4, <1>5, <1>6, <1>8 DEF OneFailure, Adds

\* The transform of the input of a task throws.
LEMMA TaskInputOneFailure ==
  ASSUME Scene, NEW e \in DOMAIN executions, NEW t \in DOMAIN executions[e].tasks, TaskInputFailed(e, t)
  PROVE  OneFailure
<1> DEFINE x == CallKey(e, t)
<1>1. TypeOK /\ OwnersDiffer /\ OwnersExist /\ Ledger /\ Life /\ Kept
  BY DEF Scene, IInv
<1>2. t # None /\ x.owner = e /\ x.task = t /\ e \in DOMAIN invocations
      /\ Child(e, t) # Root /\ CallerOf(Child(e, t)) = x
  BY <1>1 DEF OwnersDiffer, CallKey, CallerOf
<1>3. PICK table : table = SetTask(e, t, "failed")
  OBVIOUS
<1>4. /\ executions[e].tasks[t] = "pending" /\ OwnerStatus(x) = "pending"
      /\ Fail(FailureAt(e, t, "transform"), TaskSpec(e, t).policy, calls, table)
      /\ UNCHANGED <<deliveries, taskResults, invocations, runs>>
  BY <1>2, <1>3 DEF TaskInputFailed, OwnerStatus
<1>5. x \notin DOMAIN calls /\ Child(e, t) \notin DOMAIN runs
  BY <1>1, <1>2, <1>4 DEF Life, CallLife, RunLife, OwnerMay, OpenWith
<1>6. /\ ExecutionsOK(table) /\ SameTasks(executions, table)
      /\ \A y \in DOMAIN executions : \A u \in DOMAIN executions[y].tasks :
           table[y].tasks[u] = IF y = e /\ u = t THEN "failed" ELSE executions[y].tasks[u]
  <2>1. "failed" \in TaskStatuses /\ "failed" # "active" /\ ExecutionsOK(executions)
    BY <1>1 DEF TaskStatuses, InvocationStatuses, TypeOK
  <2> QED
    BY <1>3, <2>1, SetTaskOK, SetTaskCalm
<1>7. StopsAtMost(calls, table)
  BY <1>1, <1>4, <1>6, FailIsSteady DEF TypeOK
<1>8. /\ DOMAIN calls' = DOMAIN calls /\ SameTasks(executions, executions')
      /\ executions'[e].tasks[t] = "failed"
      /\ \A y \in DOMAIN executions : \A u \in DOMAIN executions[y].tasks :
           executions'[y].tasks[u] = "failed" => executions[y].tasks[u] = "failed" \/ (y = e /\ u = t)
  BY <1>6, <1>7 DEF StopsAtMost, SameTasks, Unstarted
<1>9. NewCalls({})
  <2>1. \A c \in DOMAIN calls : OwnerStatus(c)' = "failed" => OwnerStatus(c) = "failed"
    BY <1>1, <1>4, <1>5, <1>8 DEF OwnerStatus, OwnersDiffer
  <2> QED
    BY <1>8, <2>1, NewlyFailedCalls DEF Scene, IInv
<1>10. x \notin FailedTasks /\ NewTasks({x})
  <2>1. ~FailedTask(x)
    BY <1>2, <1>4 DEF FailedTask
  <2>2. FailedTask(x)'
    BY <1>2, <1>4, <1>5, <1>8 DEF FailedTask, SameTasks
  <2>3. ASSUME NEW y, FailedTask(y)' PROVE FailedTask(y) \/ y = x
    BY <1>4, <1>8, <2>3 DEF FailedTask, SameTasks
  <2> QED
    BY <1>1, <2>1, <2>2, <2>3, FailedTasksAre, NewlyFailedTasks DEF KnownTasks
<1>11. NewFailedDeliveries({}) /\ NewOutputs({})
  BY <1>1, <1>4, DeliveriesFailNone, OutputsFailNone
<1>12. Records(e, t)
  <2>1. TaskSpec(e, t).policy = PolicyAt(FailureAt(e, t, "transform"))
    BY <1>2 DEF PolicyAt, FailureAt, TaskSpec, ConcurrencyOf
  <2> QED
    BY <1>1, <1>4, <2>1, FailIsRecorded, ExecutionsAreIn
<1> QED
  BY <1>2, <1>9, <1>10, <1>11, <1>12 DEF OneFailure, Adds

-----------------------------------------------------------------------------
(* Every step *)

\* Nothing goes wrong in the step, which does not touch the status of the
\* execution unless it concludes it.
GoesCalmly ==
  /\ Gentle
  /\ failures' = failures
  /\ \A d \in DOMAIN deliveries' \ DOMAIN deliveries : deliveries'[d] # "failed"
  /\ \A r \in DOMAIN taskResults : taskResults'[r] = "failed" => taskResults[r] = "failed"
  /\ UNCHANGED <<status, cancelled>> \/ ConcludeRunning

RunCloses == \E path \in DOMAIN runs : CloseRun(path)
CallGivesUp == \E c \in DOMAIN calls : calls[c].status = "cancelling" /\ CallCancelled(c)
CallFails ==
  /\ Running
  /\ \E c \in DOMAIN calls : \E s \in {"failed", "lost", "cancelling"} :
       \E cause \in {"error", "timeout", "lost", "transform"} :
         calls[c].status \in Live /\ FailCall(c, s, cause)
TransformThrows ==
  \/ \E path \in DOMAIN runs : \E i, source : TransformFailed(path, i, source)
  \/ \E e \in DOMAIN executions : \E t \in DOMAIN executions[e].tasks : TaskInputFailed(e, t)
  \/ \E r \in DOMAIN taskResults : TaskOutputFailed(r)

\* The control operations go calmly, but for the end of what did not.
LEMMA ControlForms ==
  ASSUME Scene, Control
  PROVE  GoesCalmly \/ RunCloses \/ ConcludeStopping
<1>1. TypeOK /\ OwnersDiffer
  BY DEF Scene, IInv
<1>2. ASSUME UNCHANGED <<failures, deliveries, taskResults>>, UNCHANGED <<status, cancelled>> \/ ConcludeRunning, Gentle
      PROVE  GoesCalmly
  BY <1>2 DEF GoesCalmly
<1>3. CASE Start
  <2>1. Gentle
    BY <1>1, <1>3, GoingOnIsGentle
  <2> QED
    BY <1>2, <1>3, <2>1 DEF Start
<1>4. CASE \E path \in DOMAIN runs : \E name \in Placements(WorkflowOf(path)) :
             \E trigger \in Triggers(path, name) : Invoke(path, name, trigger)
  <2>1. PICK path, name, trigger : Invoke(path, name, trigger)
    BY <1>4
  <2>2. Gentle
    BY <1>1, <2>1, InvokeIsGentle
  <2> QED
    BY <1>2, <2>1, <2>2 DEF Invoke
<1>5. CASE \E path \in DOMAIN runs : \E name \in Placements(WorkflowOf(path)) : Settle(path, name)
  <2>1. PICK path, name : Settle(path, name)
    BY <1>5
  <2>2. Gentle
    BY <1>1, <2>1, GoingOnIsGentle
  <2> QED
    BY <1>2, <2>1, <2>2 DEF Settle
<1>6. CASE \E path \in DOMAIN runs : CloseRun(path)
  BY <1>6 DEF RunCloses
<1>7. CASE \E r \in DOMAIN results : \E i \in Edges(WorkflowOf(r.run)) : Deliver(r.run, i, r.label)
  <2>1. PICK path, i, source : Deliver(path, i, source)
    BY <1>7
  <2>2. Gentle
    BY <1>1, <2>1, GoingOnIsGentle
  <2>3. \A d \in DOMAIN deliveries' \ DOMAIN deliveries : deliveries'[d] # "failed"
    BY <2>1 DEF Deliver, Put
  <2>4. UNCHANGED <<failures, taskResults, status, cancelled>>
    BY <2>1 DEF Deliver
  <2> QED
    BY <2>2, <2>3, <2>4 DEF GoesCalmly
<1>8. CASE \E e \in DOMAIN executions : \E t \in DOMAIN executions[e].tasks : TaskInput(e, t) \/ BeginTask(e, t)
  <2>1. PICK e \in DOMAIN executions : \E t \in DOMAIN executions[e].tasks : TaskInput(e, t) \/ BeginTask(e, t)
    BY <1>8
  <2>2. PICK t \in DOMAIN executions[e].tasks : TaskInput(e, t) \/ BeginTask(e, t)
    BY <2>1
  <2>3. Gentle
    BY <1>1, <2>2, GoingOnIsGentle, BeginningIsGentle
  <2>4. UNCHANGED <<failures, deliveries, taskResults, status, cancelled>>
    BY <2>2 DEF TaskInput, BeginTask
  <2> QED
    BY <1>2, <2>3, <2>4
<1>9. CASE \E r \in DOMAIN taskResults : TaskOutput(r)
  <2>1. PICK r \in DOMAIN taskResults : TaskOutput(r)
    BY <1>9
  <2>2. Gentle
    BY <1>1, <2>1, GoingOnIsGentle
  <2>3. \A x \in DOMAIN taskResults : taskResults'[x] = "failed" => taskResults[x] = "failed"
    BY <2>1 DEF TaskOutput
  <2>4. UNCHANGED <<failures, deliveries, status, cancelled>>
    BY <2>1 DEF TaskOutput
  <2> QED
    BY <2>2, <2>3, <2>4 DEF GoesCalmly
<1>10. CASE \E e \in DOMAIN executions : CloseExecution(e)
  <2>1. PICK e : CloseExecution(e)
    BY <1>10
  <2>2. Gentle
    BY <1>1, <2>1, GoingOnIsGentle
  <2> QED
    BY <1>2, <2>1, <2>2 DEF CloseExecution
<1>11. CASE \E c \in DOMAIN calls : Fetch(c)
  <2>1. PICK c : Fetch(c)
    BY <1>11
  <2>2. Gentle
    BY <1>1, <2>1, AnsweringIsGentle
  <2> QED
    BY <1>2, <2>1, <2>2 DEF Fetch
<1>12. CASE ConcludeRunning
  <2>1. Gentle
    BY <1>1, <1>12, GoingOnIsGentle
  <2>2. UNCHANGED <<failures, deliveries, taskResults>>
    BY <1>12 DEF ConcludeRunning
  <2> QED
    BY <1>2, <1>12, <2>1, <2>2
<1>13. CASE ConcludeStopping
  BY <1>13
<1> QED
  BY <1>3, <1>4, <1>5, <1>6, <1>7, <1>8, <1>9, <1>10, <1>11, <1>12, <1>13 DEF Control

\* So do the reports of callbacks, but for that of a call that was cancelled.
LEMMA ReportForms ==
  ASSUME Scene, NEW c \in DOMAIN calls, Report(c)
  PROVE  GoesCalmly \/ CallGivesUp
<1>1. TypeOK /\ OwnersDiffer /\ Ledger
  BY DEF Scene, IInv
<1>2. CASE CallReturned(c) \/ (\E arm \in Arms(c) : Judged(c, arm)) \/ Yielded(c) \/ Ended(c)
  <2>1. PICK arm : CallReturned(c) \/ Judged(c, arm) \/ Yielded(c) \/ Ended(c)
    BY <1>2
  <2>2. Gentle
    BY <1>1, <2>1, AnsweringIsGentle
  <2>3. UNCHANGED <<status, cancelled, failures, deliveries>>
    BY <2>1 DEF CallReturned, Judged, Yielded, Ended
  <2>4. \A r \in DOMAIN taskResults : taskResults'[r] = "failed" => taskResults[r] = "failed"
    <3>1. taskResults' = taskResults \/ \E key : taskResults' = Put(taskResults, key, "pending")
      BY <2>1 DEF CallReturned, Judged, Yielded, Ended, Accept
    <3> QED
      BY <3>1 DEF Put
  <2> QED
    BY <2>2, <2>3, <2>4 DEF GoesCalmly
<1>3. CASE Terminated(c)
  BY <1>3 DEF Terminated, CallGivesUp
<1> QED
  BY <1>2, <1>3 DEF Report

\* The environment makes one thing fail at a time, while the execution runs.
LEMMA EnvironmentForms ==
  ASSUME Scene, Environment
  PROVE  CallFails \/ CallGivesUp \/ TransformThrows \/ Cancel
<1>1. TypeOK /\ OwnersExist /\ EntriesOwned /\ NoLiveWhileStopping
  BY DEF Scene, IInv, Books
<1>2. ASSUME NEW c \in DOMAIN calls, CallFailed(c) \/ CallTimedOut(c) \/ ElementTimedOut(c) \/ Lost(c)
      PROVE  CallFails \/ CallGivesUp
  <2>1. CASE \E s \in {"failed", "lost", "cancelling"} : \E cause \in {"error", "timeout", "lost", "transform"} :
               FailCall(c, s, cause) /\ calls[c].status \in Live /\ started /\ status \in {"running", "stopping"}
    BY <1>1, <2>1 DEF NoLiveWhileStopping, CallFails, Running
  <2>2. CASE calls[c].status = "cancelling" /\ CallCancelled(c)
    BY <2>2 DEF CallGivesUp
  <2>3. "fetching" \in Live
    BY DEF Live
  <2> QED
    BY <1>2, <2>1, <2>2, <2>3 DEF CallFailed, CallTimedOut, ElementTimedOut, Lost, Running
<1>3. CASE \E r \in DOMAIN results : \E i \in Edges(WorkflowOf(r.run)) : TransformFailed(r.run, i, r.label)
  <2>1. PICK r \in DOMAIN results : \E i : TransformFailed(r.run, i, r.label)
    BY <1>3
  <2>2. r.run \in DOMAIN runs
    BY <1>1, ResultsAreIn
  <2> QED
    BY <2>1, <2>2 DEF TransformThrows
<1> QED
  BY <1>2, <1>3 DEF Environment, TransformThrows

\* Every step of an execution.
LEMMA StepForms ==
  ASSUME Scene, [Next]_vars
  PROVE  GoesCalmly \/ RunCloses \/ CallGivesUp \/ CallFails \/ TransformThrows \/ Cancel \/ ConcludeStopping
<1>1. CASE Done \/ UNCHANGED vars
  <2>1. UNCHANGED vars
    BY <1>1 DEF Done
  <2>2. Gentle
    BY <2>1, SameIsGentle DEF vars, Gentle
  <2> QED
    BY <2>1, <2>2 DEF vars, GoesCalmly
<1> QED
  BY <1>1, ControlForms, ReportForms, EnvironmentForms DEF Next

\* A step records nothing and goes on, records one failure of an execution
\* that runs, or cancels or ends the execution.
Goes == NoFailure /\ UNCHANGED <<status, cancelled>>
Fails == OneFailure /\ Running /\ UNCHANGED cancelled
Turns == NoFailure /\ (Cancel \/ ConcludeRunning \/ ConcludeStopping)

\* What throws is what fails.
LEMMA ThrowingFails ==
  ASSUME Scene, TransformThrows
  PROVE  Fails
<1>1. CASE \E path \in DOMAIN runs : \E i, source : TransformFailed(path, i, source)
  <2>0. PICK path \in DOMAIN runs : \E i, source : TransformFailed(path, i, source)
    BY <1>1
  <2>1. PICK i, source : TransformFailed(path, i, source)
    BY <2>0
  <2>2. OneFailure
    BY <2>1, TransformOneFailure
  <2> QED
    BY <2>1, <2>2 DEF TransformFailed, Deliverable, Fails
<1>2. CASE \E e \in DOMAIN executions : \E t \in DOMAIN executions[e].tasks : TaskInputFailed(e, t)
  <2>1. PICK e \in DOMAIN executions : \E t \in DOMAIN executions[e].tasks : TaskInputFailed(e, t)
    BY <1>2
  <2>2. PICK t \in DOMAIN executions[e].tasks : TaskInputFailed(e, t)
    BY <2>1
  <2>3. OneFailure
    BY <2>2, TaskInputOneFailure
  <2> QED
    BY <2>2, <2>3 DEF TaskInputFailed, Fails
<1>3. CASE \E r \in DOMAIN taskResults : TaskOutputFailed(r)
  <2>1. PICK r \in DOMAIN taskResults : TaskOutputFailed(r)
    BY <1>3
  <2>2. OneFailure
    BY <2>1, TaskOutputOneFailure
  <2> QED
    BY <2>1, <2>2 DEF TaskOutputFailed, OutputPending, Fails
<1> QED
  BY <1>1, <1>2, <1>3 DEF TransformThrows

\* What every step does to the list of failures.
LEMMA StepFails ==
  ASSUME Scene, [Next]_vars
  PROVE  Goes \/ Fails \/ Turns
<1>1. GoesCalmly => Goes \/ Turns
  BY GentleNoFailure DEF GoesCalmly, Goes, Turns
<1>2. RunCloses => Goes
  BY CloseRunNoFailure DEF RunCloses, CloseRun, Goes
<1>3. CallGivesUp => Goes
  BY CancelledNoFailure DEF CallGivesUp, CallCancelled, Goes
<1>4. ASSUME CallFails PROVE Fails
  <2>1. OneFailure
    BY <1>4, FailCallOneFailure DEF CallFails
  <2> QED
    BY <1>4, <2>1 DEF CallFails, FailCall, Fails
<1>5. Cancel \/ ConcludeStopping => Turns
  BY CancelNoFailure, ConcludeStoppingNoFailure DEF Turns
<1> QED
  BY <1>1, <1>2, <1>3, <1>4, <1>5, StepForms, ThrowingFails

-----------------------------------------------------------------------------
(* Failures are recorded once *)

RecordedAt(owner, task) ==
  \E n \in DOMAIN failures : \E cause \in {"error", "timeout", "lost", "transform"} :
    failures[n] = FailureAt(owner, task, cause)

\* Where the failure of a delivery is recorded.
TargetOf(d) == SettledKey(d.run, Edge(WorkflowOf(d.run), d.connection).target)

FailuresFinite ==
  IsFiniteSet(FailedCalls) /\ IsFiniteSet(FailedDeliveries) /\ IsFiniteSet(FailedOutputs) /\ IsFiniteSet(FailedTasks)
FailuresCounted ==
  Len(failures) = Cardinality(FailedCalls) + Cardinality(FailedDeliveries)
                  + Cardinality(FailedOutputs) + Cardinality(FailedTasks)
FailuresPlaced ==
  /\ \A c \in FailedCalls \cup FailedTasks : RecordedAt(c.owner, c.task)
  /\ \A d \in FailedDeliveries : RecordedAt(TargetOf(d), None)
  /\ \A r \in FailedOutputs : RecordedAt(r.execution, r.task)

\* What the list of failures has to do with what failed: the sets are finite,
\* the failures as many, each of them where it happened, and in a run.
FailureBooks ==
  /\ FailuresFinite /\ FailuresCounted /\ FailuresPlaced
  /\ \A n \in DOMAIN failures : failures[n].run \in DOMAIN runs

\* The list is the one that the property speaks of.
LEMMA FailureBooksSuffice == FailureBooks => FailuresRecordedOnce
BY DEF FailureBooks, FailuresCounted, FailuresPlaced, RecordedAt, TargetOf, FailuresRecordedOnce, FailedTasks

\* What was recorded stays recorded, and what is added is.
LEMMA RecordingStays ==
  ASSUME IsSequence(failures), NEW failure, failures' = failures \/ failures' = Append(failures, failure)
  PROVE  /\ \A owner, task : RecordedAt(owner, task) => RecordedAt(owner, task)'
         /\ DOMAIN failures \subseteq DOMAIN failures'
         /\ \A n \in DOMAIN failures : failures'[n] = failures[n]
         /\ \A n \in DOMAIN failures' \ DOMAIN failures : failures'[n] = failure
         /\ failures' = Append(failures, failure) =>
              Len(failures') = Len(failures) + 1 /\ Len(failures) + 1 \in DOMAIN failures' \ DOMAIN failures
<1>1. CASE failures' = failures
  <2>1. Append(failures, failure) # failures
    <3>1. Len(failures) + 1 \in DOMAIN Append(failures, failure) /\ Len(failures) + 1 \notin DOMAIN failures
      BY AppendIsSequence
    <3> QED
      BY <3>1
  <2> QED
    BY <1>1, <2>1 DEF RecordedAt
<1>2. CASE failures' = Append(failures, failure)
  <2>1. /\ IsSequence(failures')
        /\ DOMAIN failures' = 1..(Len(failures) + 1)
        /\ DOMAIN failures = 1..Len(failures)
        /\ Len(failures) \in Nat
        /\ failures'[Len(failures) + 1] = failure
        /\ \A n \in 1..Len(failures) : failures'[n] = failures[n]
    BY <1>2, AppendIsSequence
  <2>2. Len(failures') = Len(failures) + 1
    BY <2>1 DEF IsSequence
  <2> QED
    BY <1>2, <2>1, <2>2 DEF RecordedAt
<1> QED
  BY <1>1, <1>2

\* A set that grows by one element, or by none.
LEMMA GrowsByOne ==
  ASSUME NEW S, IsFiniteSet(S), NEW x
  PROVE  /\ IsFiniteSet(S \cup {x}) /\ Cardinality(S) \in Nat
         /\ x \notin S => Cardinality(S \cup {x}) = Cardinality(S) + 1
         /\ S \cup {} = S
BY FS_AddElement, FS_CardinalityType

\* The targets of deliveries stay where they are.
LEMMA TargetsStay ==
  ASSUME Scene, NEW d \in FailedDeliveries
  PROVE  TargetOf(d)' = TargetOf(d)
<1>1. TypeOK /\ Grows /\ DeliveryOwned(d)
  BY DEF Scene, IInv, Books, EntriesOwned, FailedDeliveries
<1> QED
  BY <1>1, LookupsSame DEF TargetOf, DeliveryOwned

\* A step that records nothing keeps the books.
LEMMA NoFailureKeeps ==
  ASSUME Scene, FailureBooks, NoFailure
  PROVE  FailureBooks'
<1>1. /\ FailedCalls' = FailedCalls /\ FailedDeliveries' = FailedDeliveries
      /\ FailedOutputs' = FailedOutputs /\ FailedTasks' = FailedTasks
      /\ failures' = failures
  BY DEF NoFailure, Adds, NewCalls, NewFailedDeliveries, NewOutputs, NewTasks
<1>2. FailuresFinite' /\ FailuresCounted'
  BY <1>1 DEF FailureBooks, FailuresFinite, FailuresCounted
<1>3. FailuresPlaced'
  BY <1>1, TargetsStay DEF FailureBooks, FailuresPlaced, RecordedAt
<1>4. \A n \in DOMAIN failures' : failures'[n].run \in DOMAIN runs'
  BY <1>1 DEF FailureBooks, Scene, Grows
<1> QED
  BY <1>2, <1>3, <1>4 DEF FailureBooks

\* So does one that records the failure it adds.
LEMMA OneFailureKeeps ==
  ASSUME Scene, FailureBooks, OneFailure
  PROVE  FailureBooks'
<1>1. IsSequence(failures) /\ Grows
  BY DEF Scene, IInv, TypeOK
<1>2. FailuresFinite /\ FailuresCounted /\ FailuresPlaced /\ \A n \in DOMAIN failures : failures[n].run \in DOMAIN runs
  BY DEF FailureBooks
<1>3. ASSUME NEW owner, NEW task, Records(owner, task)
      PROVE  /\ \A o, t : RecordedAt(o, t) => RecordedAt(o, t)'
             /\ RecordedAt(owner, task)'
             /\ Len(failures') = Len(failures) + 1
             /\ \A n \in DOMAIN failures' : failures'[n].run \in DOMAIN runs'
  <2>1. PICK cause \in {"error", "timeout", "lost", "transform"} :
          failures' = Append(failures, FailureAt(owner, task, cause)) /\ owner.run \in DOMAIN runs
    BY <1>3 DEF Records
  <2>2. /\ \A o, t : RecordedAt(o, t) => RecordedAt(o, t)'
        /\ DOMAIN failures \subseteq DOMAIN failures'
        /\ \A n \in DOMAIN failures : failures'[n] = failures[n]
        /\ \A n \in DOMAIN failures' \ DOMAIN failures : failures'[n] = FailureAt(owner, task, cause)
        /\ Len(failures') = Len(failures) + 1 /\ Len(failures) + 1 \in DOMAIN failures' \ DOMAIN failures
    BY <1>1, <2>1, RecordingStays
  <2>3. RecordedAt(owner, task)'
    BY <2>2 DEF RecordedAt
  <2>4. FailureAt(owner, task, cause).run = owner.run
    BY DEF FailureAt
  <2>5. ASSUME NEW n \in DOMAIN failures' PROVE failures'[n].run \in DOMAIN runs'
    BY <1>1, <1>2, <2>1, <2>2, <2>4 DEF Grows
  <2> QED
    BY <2>2, <2>3, <2>5
<1>4. \A d \in FailedDeliveries : RecordedAt(TargetOf(d), None) => TargetOf(d)' = TargetOf(d)
  BY TargetsStay
<1>5. /\ IsFiniteSet(FailedCalls) /\ IsFiniteSet(FailedDeliveries) /\ IsFiniteSet(FailedOutputs) /\ IsFiniteSet(FailedTasks)
      /\ Cardinality(FailedCalls) \in Nat /\ Cardinality(FailedDeliveries) \in Nat
      /\ Cardinality(FailedOutputs) \in Nat /\ Cardinality(FailedTasks) \in Nat
  BY <1>2, FS_CardinalityType DEF FailuresFinite
<1> USE DEF Adds, NewCalls, NewFailedDeliveries, NewOutputs, NewTasks
<1>6. CASE \E c \in DOMAIN calls \ FailedCalls : Records(c.owner, c.task) /\ Adds({c}, {}, {}, {})
  <2>1. PICK c \in DOMAIN calls \ FailedCalls : Records(c.owner, c.task) /\ Adds({c}, {}, {}, {})
    BY <1>6
  <2>2. FailuresFinite' /\ FailuresCounted'
    <3>1. /\ FailedCalls' = FailedCalls \cup {c} /\ c \notin FailedCalls
          /\ FailedDeliveries' = FailedDeliveries /\ FailedOutputs' = FailedOutputs /\ FailedTasks' = FailedTasks
      BY <2>1
    <3>2. IsFiniteSet(FailedCalls') /\ Cardinality(FailedCalls') = Cardinality(FailedCalls) + 1
      BY <1>5, <3>1, GrowsByOne
    <3>3. Len(failures') = Len(failures) + 1
      BY <1>3, <2>1
    <3> QED
      BY <1>2, <1>5, <3>1, <3>2, <3>3 DEF FailuresFinite, FailuresCounted
  <2>3. FailuresPlaced'
    BY <1>2, <1>3, <1>4, <2>1 DEF FailuresPlaced
  <2> QED
    BY <1>3, <2>1, <2>2, <2>3 DEF FailureBooks
<1>7. CASE \E d \in DOMAIN deliveries' \ DOMAIN deliveries :
             /\ Records(SettledKey(d.run, Edge(WorkflowOf(d.run), d.connection).target), None)
             /\ Adds({}, {d}, {}, {})
  <2>1. PICK d \in DOMAIN deliveries' \ DOMAIN deliveries : Records(TargetOf(d), None) /\ Adds({}, {d}, {}, {})
    BY <1>7 DEF TargetOf
  <2>2. d \notin FailedDeliveries
    BY DEF FailedDeliveries
  <2>3. TargetOf(d)' = TargetOf(d)
    <3>1. TypeOK /\ DeliveryOwned(d)'
      BY DEF Scene, IInv, Ledger, NewDeliveries
    <3>2. d.run \in DOMAIN runs
      BY <2>1 DEF Records, TargetOf, SettledKey
    <3> QED
      BY <1>1, <3>1, <3>2, LookupsSame DEF TargetOf
  <2>4. FailuresFinite' /\ FailuresCounted'
    <3>1. /\ FailedDeliveries' = FailedDeliveries \cup {d} /\ d \notin FailedDeliveries
          /\ FailedCalls' = FailedCalls /\ FailedOutputs' = FailedOutputs /\ FailedTasks' = FailedTasks
      BY <2>1, <2>2
    <3>2. IsFiniteSet(FailedDeliveries') /\ Cardinality(FailedDeliveries') = Cardinality(FailedDeliveries) + 1
      BY <1>5, <3>1, GrowsByOne
    <3>3. Len(failures') = Len(failures) + 1
      BY <1>3, <2>1
    <3> QED
      BY <1>2, <1>5, <3>1, <3>2, <3>3 DEF FailuresFinite, FailuresCounted
  <2>5. FailuresPlaced'
    BY <1>2, <1>3, <1>4, <2>1, <2>3 DEF FailuresPlaced
  <2> QED
    BY <1>3, <2>1, <2>4, <2>5 DEF FailureBooks
<1>8. CASE \E r \in DOMAIN taskResults \ FailedOutputs :
             Records(r.execution, r.task) /\ r.task # None /\ Adds({}, {}, {r}, {})
  <2>1. PICK r \in DOMAIN taskResults \ FailedOutputs : Records(r.execution, r.task) /\ Adds({}, {}, {r}, {})
    BY <1>8
  <2>2. FailuresFinite' /\ FailuresCounted'
    <3>1. /\ FailedOutputs' = FailedOutputs \cup {r} /\ r \notin FailedOutputs
          /\ FailedCalls' = FailedCalls /\ FailedDeliveries' = FailedDeliveries /\ FailedTasks' = FailedTasks
      BY <2>1
    <3>2. IsFiniteSet(FailedOutputs') /\ Cardinality(FailedOutputs') = Cardinality(FailedOutputs) + 1
      BY <1>5, <3>1, GrowsByOne
    <3>3. Len(failures') = Len(failures) + 1
      BY <1>3, <2>1
    <3> QED
      BY <1>2, <1>5, <3>1, <3>2, <3>3 DEF FailuresFinite, FailuresCounted
  <2>3. FailuresPlaced'
    BY <1>2, <1>3, <1>4, <2>1 DEF FailuresPlaced
  <2> QED
    BY <1>3, <2>1, <2>2, <2>3 DEF FailureBooks
<1>9. CASE \E e \in DOMAIN executions : \E t \in DOMAIN executions[e].tasks :
             /\ t # None /\ CallKey(e, t) \notin FailedTasks
             /\ Records(e, t) /\ Adds({}, {}, {}, {CallKey(e, t)})
  <2>1. PICK e, t : CallKey(e, t) \notin FailedTasks /\ Records(e, t) /\ Adds({}, {}, {}, {CallKey(e, t)})
    BY <1>9
  <2>2. FailuresFinite' /\ FailuresCounted'
    <3>1. /\ FailedTasks' = FailedTasks \cup {CallKey(e, t)} /\ CallKey(e, t) \notin FailedTasks
          /\ FailedCalls' = FailedCalls /\ FailedDeliveries' = FailedDeliveries /\ FailedOutputs' = FailedOutputs
      BY <2>1
    <3>2. IsFiniteSet(FailedTasks') /\ Cardinality(FailedTasks') = Cardinality(FailedTasks) + 1
      BY <1>5, <3>1, GrowsByOne
    <3>3. Len(failures') = Len(failures) + 1
      BY <1>3, <2>1
    <3> QED
      BY <1>2, <1>5, <3>1, <3>2, <3>3 DEF FailuresFinite, FailuresCounted
  <2>3. CallKey(e, t).owner = e /\ CallKey(e, t).task = t
    BY DEF CallKey
  <2>4. FailuresPlaced'
    BY <1>2, <1>3, <1>4, <2>1, <2>3 DEF FailuresPlaced
  <2> QED
    BY <1>3, <2>1, <2>2, <2>4 DEF FailureBooks
<1> QED
  BY <1>6, <1>7, <1>8, <1>9 DEF OneFailure

\* Nothing has failed at first.
LEMMA NothingFailedYet == Init => FailureBooks
<1> SUFFICES ASSUME Init
             PROVE  FailureBooks
  OBVIOUS
<1>1. FailedCalls = {} /\ FailedDeliveries = {} /\ FailedOutputs = {} /\ FailedTasks = {}
  BY DEF Init, FailedCalls, FailedDeliveries, FailedOutputs, FailedTasks
<1>2. failures = <<>>
  BY DEF Init
<1>3. FailuresFinite /\ FailuresCounted
  BY <1>1, <1>2, FS_EmptySet DEF FailuresFinite, FailuresCounted
<1> QED
  BY <1>1, <1>2, <1>3 DEF FailureBooks, FailuresPlaced

\* Every step keeps the books of failures.
LEMMA StepKeepsFailures ==
  ASSUME IInv, FailureBooks, [Next]_vars
  PROVE  FailureBooks'
<1>1. Scene
  BY StepHasScene
<1> QED
  BY <1>1, StepFails, NoFailureKeeps, OneFailureKeeps DEF Goes, Fails, Turns

\* Every failure is recorded exactly once, where it happened: a call that
\* timed out and ends or is lost later, and what is cancelled because of a
\* stop, are not counted again.
THEOREM FailuresAreRecordedOnce == Spec => []FailuresRecordedOnce
<1>1. Init => FailureBooks
  BY NothingFailedYet
<1>2. IInv /\ FailureBooks /\ [Next]_vars => FailureBooks'
  BY StepKeepsFailures
<1>3. FailureBooks => FailuresRecordedOnce
  BY FailureBooksSuffice
<1> QED
  BY <1>1, <1>2, <1>3, BooksHold, PTL DEF Spec

-----------------------------------------------------------------------------
(* Runs inside runs *)

\* A run is inside itself, and what is inside a run that it calls is inside it.
LEMMA WithinSelf ==
  ASSUME NEW path, IsSequence(path)
  PROVE  Within(path, path)
<1>1. path \in Seq({path[n] : n \in DOMAIN path})
  BY DEF IsSequence
<1> QED
  BY <1>1 DEF Within

\* What is inside a run that another calls is inside that one.
LEMMA WithinChild ==
  ASSUME NEW inner, IsSequence(inner), NEW path, IsSequence(path), NEW frame, Within(inner, Append(path, frame))
  PROVE  Within(inner, path)
<1> DEFINE n == Len(path)
           S == {inner[k] : k \in DOMAIN inner}
           T == {path[k] : k \in DOMAIN path} \cup {frame}
<1>1. inner \in Seq(S) /\ path \in Seq(T) /\ Append(path, frame) \in Seq(T)
      /\ n \in Nat /\ Len(inner) \in Nat /\ Len(Append(path, frame)) = n + 1
  BY DEF IsSequence
<1>2. Len(inner) >= n + 1 /\ SubSeq(inner, 1, n + 1) = Append(path, frame)
  BY <1>1 DEF Within
<1> HIDE DEF S, T
<1>3. SubSeq(inner, 1, n) \in Seq(S) /\ Len(SubSeq(inner, 1, n)) = n
  BY <1>1, <1>2
<1>4. ASSUME NEW k \in 1..n
      PROVE  SubSeq(inner, 1, n)[k] = path[k]
  <2>1. SubSeq(inner, 1, n)[k] = inner[k] /\ SubSeq(inner, 1, n + 1)[k] = inner[k]
    BY <1>1, <1>2
  <2>2. Append(path, frame)[k] = path[k]
    BY <1>1
  <2> QED
    BY <1>2, <2>1, <2>2
<1>5. SubSeq(inner, 1, n) = path
  <2>1. DOMAIN SubSeq(inner, 1, n) = 1..n /\ DOMAIN path = 1..n
    BY <1>1, <1>3
  <2>2. SubSeq(inner, 1, n) = [k \in 1..n |-> SubSeq(inner, 1, n)[k]] /\ path = [k \in 1..n |-> path[k]]
    BY <1>1, <1>3, <2>1
  <2> QED
    BY <1>4, <2>2
<1> QED
  BY <1>1, <1>2, <1>5 DEF Within

-----------------------------------------------------------------------------
(* What a placement settles with: what went wrong *)

\* An arm of what is settled is normal, skipped, or went as the branch did.
Follows(o) == \A arm \in DOMAIN o.arms : o.arms[arm] \in {"normal", "skipped", o.outcome}
ArmsFollow == \A s \in DOMAIN settled : Follows(settled[s])

FailedAt(path, name) ==
  \/ \E i \in Incoming(WorkflowOf(path), name) : \E d \in DeliveriesOn(path, i) : deliveries[d] = "failed"
  \/ \E k \in InvocationsOf(path, name) : invocations[k].status = "failed"
LacksInside(path, name) == \E k \in InvocationsOf(path, name) : invocations[k].status = "upstreamFailed"
LacksAbove(path, name) ==
  \E i \in Incoming(WorkflowOf(path), name) :
    LET source == SettledKey(path, Edge(WorkflowOf(path), i).source)
    IN  source \in DOMAIN settled /\ settled[source].outcome \in {"failed", "upstreamFailed"}

\* What an outcome says of the placement that it is due at.
Caused(path, name, o) ==
  /\ o.outcome = "skipped" => ~FailedAt(path, name)
  /\ o.outcome = "failed" => FailedAt(path, name)
  /\ o.outcome = "upstreamFailed" => LacksInside(path, name) \/ LacksAbove(path, name)

\* A source fails where the placement lacks its input.
LEMMA FailureIsAbove ==
  ASSUME TypeOK, ArmsFollow, NEW path, NEW name, NEW i \in Incoming(WorkflowOf(path), name),
         ResolveSingle(path, i).kind = "failure"
  PROVE  LacksAbove(path, name)
<1> PICK c : c = Edge(WorkflowOf(path), i)
  OBVIOUS
<1> PICK s : s = SettledKey(path, c.source)
  OBVIOUS
<1>1. s \in DOMAIN settled /\ ArmOutcome(settled[s], c.arm) \notin {"normal", "skipped"}
  <2> DEFINE found == DeliveriesOn(path, i)
             first == CHOOSE d \in found : TRUE
  <2>1. CASE found # {} /\ deliveries[first] = "failed"
    BY <2>1 DEF ResolveSingle
  <2>2. CASE found # {} /\ deliveries[first] # "failed"
    BY <2>2 DEF ResolveSingle
  <2>3. CASE found = {} /\ s \notin DOMAIN settled
    BY <2>3 DEF ResolveSingle
  <2>4. CASE found = {} /\ s \in DOMAIN settled
    <3> DEFINE arm == ArmOutcome(settled[s], c.arm)
    <3>1. ResolveSingle(path, i).kind = CASE arm = "normal" -> "pending"
                                          [] arm = "skipped" -> "skipped"
                                          [] OTHER -> "failure"
      BY <2>4 DEF ResolveSingle
    <3> HIDE DEF arm
    <3>2. arm \notin {"normal", "skipped"}
      BY <3>1
    <3> QED
      BY <2>4, <3>2 DEF arm
  <2> QED
    BY <2>1, <2>2, <2>3, <2>4
<1>2. ArmOutcome(settled[s], c.arm) \in {"normal", "skipped", settled[s].outcome}
  BY <1>1 DEF ArmsFollow, Follows, ArmOutcome
<1>3. settled[s].outcome \in {"failed", "upstreamFailed"}
  BY <1>1, <1>2 DEF TypeOK, Outcomes
<1> QED
  BY <1>1, <1>3 DEF LacksAbove

\* A placement that was brought nothing that carries something is not invoked.
LEMMA NoneInvoked ==
  ASSUME EntriesOwned, NEW path, NEW name, NEW i, Shape(path, name).kind \in {"single", "stream"}, i = Shape(path, name).index,
         \A d \in DeliveriesOn(path, i) : deliveries[d] = "failed"
  PROVE  InvocationsOf(path, name) = {}
<1> SUFFICES ASSUME NEW k \in InvocationsOf(path, name)
             PROVE  FALSE
  OBVIOUS
<1>1. InvocationTriggered(k) /\ k.run = path /\ k.placement = name
  BY DEF EntriesOwned, InvocationsOf
<1> QED
  BY <1>1 DEF InvocationTriggered

\* The invocations of a placement whose work has ended, in an execution that
\* runs.
EndedAs(path, name) ==
  \A k \in InvocationsOf(path, name) : invocations[k].status \in {"succeeded", "skipped", "failed", "upstreamFailed"}

\* What a Single input makes of a placement without an invocation.
LEMMA MissingInputs ==
  ASSUME Accounts, ArmsFollow, NEW path \in DOMAIN runs, NEW name \in Placements(WorkflowOf(path)),
         PlacementOf(path, name).type # "merge", Shape(path, name).kind = "single"
  PROVE  LET i == Shape(path, name).index
             x == ResolveSingle(path, i).kind
         IN  /\ Incoming(WorkflowOf(path), name) = {i}
             /\ x = "value" => \A d \in DeliveriesOn(path, i) : deliveries[d] # "failed"
             /\ x = "transformFailed" => FailedAt(path, name)
             /\ x = "skipped" => ~FailedAt(path, name)
             /\ x = "failure" => LacksAbove(path, name)
<1> PICK i : i = Shape(path, name).index
  OBVIOUS
<1>1. /\ Incoming(WorkflowOf(path), name) = {i} /\ i \in Edges(WorkflowOf(path))
      /\ KindOf(path, Edge(WorkflowOf(path), i).source) = "single"
  BY ShapesAre DEF Accounts, Incoming
<1> PICK x : x = ResolveSingle(path, i)
  OBVIOUS
<1>2. /\ x.kind = "value" => \E d : DeliveriesOn(path, i) = {d} /\ deliveries[d] # "failed"
      /\ x.kind = "transformFailed" => \E d : DeliveriesOn(path, i) = {d} /\ deliveries[d] = "failed"
      /\ x.kind = "skipped" => DeliveriesOn(path, i) = {}
  BY <1>1, SingleResolved DEF Accounts
<1>3. x.kind = "skipped" => InvocationsOf(path, name) = {}
  BY <1>2, NoneInvoked DEF Accounts
<1>4. x.kind = "failure" => LacksAbove(path, name)
  BY <1>1, FailureIsAbove DEF Accounts
<1> QED
  BY <1>1, <1>2, <1>3, <1>4 DEF FailedAt

\* What the end of its only invocation makes of a placement.
LEMMA EndedAlone ==
  ASSUME Accounts, NEW path \in DOMAIN runs, NEW name \in Placements(WorkflowOf(path)),
         Shape(path, name).kind # "stream", EndedAs(path, name),
         \A i \in Incoming(WorkflowOf(path), name) : \A d \in DeliveriesOn(path, i) : deliveries[d] # "failed",
         NEW k \in DOMAIN invocations, k.run = path, k.placement = name
  PROVE  LET s == invocations[k].status
         IN  /\ s \in {"succeeded", "skipped", "failed", "upstreamFailed"}
             /\ s = "skipped" => ~FailedAt(path, name)
             /\ s = "failed" => FailedAt(path, name)
             /\ s = "upstreamFailed" => LacksInside(path, name)
<1>1. k \in InvocationsOf(path, name)
  BY DEF InvocationsOf
<1>2. \A j \in InvocationsOf(path, name) : j = k
  BY <1>1, SingleInvocation DEF Accounts
<1> QED
  BY <1>1, <1>2 DEF EndedAs, FailedAt, LacksInside

\* What a Stream that was skipped, or in which nothing fails, makes of one.
LEMMA SkippedStreams ==
  ASSUME Accounts, NEW path \in DOMAIN runs, NEW name \in Placements(WorkflowOf(path)),
         PlacementOf(path, name).type # "merge", Shape(path, name).kind = "stream",
         StreamEnded(path, Shape(path, name).index), StreamOutcome(path, Shape(path, name).index) = "skipped"
  PROVE  ~FailedAt(path, name)
<1> PICK i : i = Shape(path, name).index
  OBVIOUS
<1>1. Incoming(WorkflowOf(path), name) = {i} /\ i \in Edges(WorkflowOf(path))
  BY ShapesAre DEF Accounts, Incoming
<1>2. DeliveriesOn(path, i) = {}
  BY <1>1, NothingFromSource DEF Accounts, StreamEnded, StreamOutcome
<1>3. InvocationsOf(path, name) = {}
  BY <1>2, NoneInvoked DEF Accounts
<1> QED
  BY <1>1, <1>2, <1>3 DEF FailedAt

\* What a branch settles with has a cause.
LEMMA BranchIsCaused ==
  ASSUME Accounts, ArmsFollow, NEW path \in DOMAIN runs, NEW name \in Placements(WorkflowOf(path)),
         PlacementOf(path, name).type = "branch", EndedAs(path, name),
         NEW o \in BranchSettlement(path, name, Shape(path, name))
  PROVE  Caused(path, name, o) /\ Follows(o)
<1> PICK shape : shape = Shape(path, name)
  OBVIOUS
<1> DEFINE arms == PlacementOf(path, name).arms
           key(trigger) == InvocationKey(path, name, trigger)
           every(outcome) == SettleArms(outcome, [arm \in arms |-> outcome])
           by(trigger) ==
             LET inv == invocations[key(trigger)]
             IN  CASE key(trigger) \notin DOMAIN invocations -> {}
                   [] key(trigger) \in DOMAIN invocations /\ inv.status = "succeeded" ->
                        SettleArms("normal", [arm \in arms |-> IF inv.arm = arm THEN "normal" ELSE "skipped"])
                   [] key(trigger) \in DOMAIN invocations /\ inv.status \in {"skipped", "upstreamFailed"} ->
                        every(inv.status)
                   [] OTHER -> every("failed")
           input == ResolveSingle(path, shape.index)
           chosen == {results[r].arm : r \in ResultsOf(path, name)}
           untaken(arm) == chosen # {} /\ arm \notin chosen /\ NoOwnFailure(path, name, shape.index)
<1>1. PlacementOf(path, name).type \notin Collecting
  BY DEF Collecting
<1>2. ASSUME NEW outcome, o \in every(outcome)
      PROVE  o.outcome = outcome /\ Follows(o)
  BY <1>2 DEF SettleArms, Follows
<1>3. ASSUME NEW trigger, shape.kind # "stream", o \in by(trigger),
             \A i \in Incoming(WorkflowOf(path), name) : \A d \in DeliveriesOn(path, i) : deliveries[d] # "failed"
      PROVE  Caused(path, name, o) /\ Follows(o)
  <2> PICK k : k = key(trigger)
    OBVIOUS
  <2> PICK inv : inv = invocations[k]
    OBVIOUS
  <2>1. k \in DOMAIN invocations /\ k.run = path /\ k.placement = name
    BY <1>3 DEF InvocationKey
  <2>2. /\ inv.status \in {"succeeded", "skipped", "failed", "upstreamFailed"}
        /\ inv.status = "skipped" => ~FailedAt(path, name)
        /\ inv.status = "failed" => FailedAt(path, name)
        /\ inv.status = "upstreamFailed" => LacksInside(path, name)
    BY <1>3, <2>1, EndedAlone
  <2>3. CASE inv.status = "succeeded"
    <3>1. o \in SettleArms("normal", [arm \in arms |-> IF inv.arm = arm THEN "normal" ELSE "skipped"])
      BY <1>3, <2>1, <2>3
    <3> QED
      BY <3>1 DEF SettleArms, Follows, Caused
  <2>4. CASE inv.status \in {"skipped", "upstreamFailed"}
    <3>1. o \in every(inv.status)
      BY <1>3, <2>1, <2>4
    <3> HIDE DEF every
    <3> QED
      BY <1>2, <2>2, <2>4, <3>1 DEF Caused
  <2>5. CASE inv.status = "failed"
    <3>1. o \in every("failed")
      BY <1>3, <2>1, <2>5
    <3> HIDE DEF every
    <3> QED
      BY <1>2, <2>2, <2>5, <3>1 DEF Caused
  <2> QED
    BY <2>2, <2>3, <2>4, <2>5
<1>4. CASE shape.kind = "entry"
  <2>1. o \in by(<<>>)
    BY <1>4 DEF BranchSettlement
  <2>2. Incoming(WorkflowOf(path), name) = {}
    BY <1>4, ShapesAre DEF Accounts
  <2> HIDE DEF by
  <2> QED
    BY <1>3, <1>4, <2>1, <2>2
<1>5. CASE shape.kind = "single"
  <2>1. o \in CASE input.kind = "pending"         -> {}
                [] input.kind = "value"           -> by(input.trigger)
                [] input.kind = "transformFailed" -> every("failed")
                [] input.kind = "skipped"         -> every("skipped")
                [] input.kind = "failure"         -> every("upstreamFailed")
    BY <1>5 DEF BranchSettlement
  <2>2. input.kind \in {"pending", "value", "transformFailed", "skipped", "failure"}
    BY ResolutionKinds
  <2>3. /\ input.kind = "value" =>
             \A i \in Incoming(WorkflowOf(path), name) : \A d \in DeliveriesOn(path, i) : deliveries[d] # "failed"
        /\ input.kind = "transformFailed" => FailedAt(path, name)
        /\ input.kind = "skipped" => ~FailedAt(path, name)
        /\ input.kind = "failure" => LacksAbove(path, name)
    BY <1>5, MissingInputs
  <2> HIDE DEF by, every, input
  <2>4. CASE input.kind = "value"
    BY <1>3, <1>5, <2>1, <2>3, <2>4
  <2>5. CASE input.kind = "transformFailed"
    BY <1>2, <2>1, <2>3, <2>5 DEF Caused
  <2>6. CASE input.kind = "skipped"
    BY <1>2, <2>1, <2>3, <2>6 DEF Caused
  <2>7. CASE input.kind = "failure"
    BY <1>2, <2>1, <2>3, <2>7 DEF Caused
  <2>8. input.kind # "pending"
    BY <2>1
  <2> QED
    BY <2>2, <2>4, <2>5, <2>6, <2>7, <2>8
<1>6. CASE shape.kind = "stream"
  <2>1. o \in IF ~(StreamEnded(path, shape.index) /\ Triggered(path, name, shape.index)) THEN {}
              ELSE IF StreamOutcome(path, shape.index) = "skipped" THEN every("skipped")
              ELSE SettleArms("normal", [arm \in arms |-> IF untaken(arm) THEN "skipped" ELSE "normal"])
    BY <1>6 DEF BranchSettlement
  <2>2. StreamEnded(path, shape.index)
    BY <2>1
  <2>3. CASE StreamOutcome(path, shape.index) = "skipped"
    <3>1. o \in every("skipped")
      BY <2>1, <2>3
    <3>2. ~FailedAt(path, name)
      BY <1>6, <2>2, <2>3, SkippedStreams
    <3> HIDE DEF every
    <3> QED
      BY <1>2, <3>1, <3>2 DEF Caused
  <2>4. CASE StreamOutcome(path, shape.index) # "skipped"
    <3> HIDE DEF untaken
    <3>1. o \in SettleArms("normal", [arm \in arms |-> IF untaken(arm) THEN "skipped" ELSE "normal"])
      BY <2>1, <2>4
    <3> QED
      BY <3>1 DEF SettleArms, Follows, Caused
  <2> QED
    BY <2>3, <2>4
<1>7. shape.kind \in {"entry", "single", "stream"}
  BY ShapesAre DEF Accounts
<1> QED
  BY <1>4, <1>5, <1>6, <1>7

\* So does what a placement that does work settles with.
LEMMA WorkIsCaused ==
  ASSUME Accounts, ArmsFollow, NEW path \in DOMAIN runs, NEW name \in Placements(WorkflowOf(path)),
         PlacementOf(path, name).type \notin Collecting \cup {"branch"}, EndedAs(path, name),
         NEW o \in WorkSettlement(path, name, Shape(path, name))
  PROVE  Caused(path, name, o) /\ Follows(o)
<1> PICK shape : shape = Shape(path, name)
  OBVIOUS
<1> DEFINE kind == KindOf(path, name)
           key(trigger) == InvocationKey(path, name, trigger)
           by(trigger) ==
             {[outcome |-> InvocationOutcome(kind, invocations[k].status), arms |-> <<>>, list |-> <<>>] :
                k \in {key(trigger)} \cap DOMAIN invocations}
           input == ResolveSingle(path, shape.index)
           own == InvocationsOf(path, name)
           skips == /\ own # {}
                    /\ \A k \in own : invocations[k].status = "skipped"
                    /\ NoOwnFailure(path, name, shape.index)
<1>1. /\ PlacementOf(path, name).type # "merge"
      /\ shape.kind \in {"none", "entry", "single", "stream"}
  BY ShapesAre DEF Accounts, Collecting
<1>2. ASSUME NEW outcome, o \in Settle1(outcome)
      PROVE  o.outcome = outcome /\ Follows(o)
  BY <1>2 DEF Settle1, Follows
<1>3. ASSUME NEW trigger, shape.kind # "stream", o \in by(trigger),
             \A i \in Incoming(WorkflowOf(path), name) : \A d \in DeliveriesOn(path, i) : deliveries[d] # "failed"
      PROVE  Caused(path, name, o) /\ Follows(o)
  <2> PICK k : k = key(trigger)
    OBVIOUS
  <2> PICK s : s = invocations[k].status
    OBVIOUS
  <2>1. /\ k \in DOMAIN invocations /\ k.run = path /\ k.placement = name
        /\ o.outcome = InvocationOutcome(kind, s) /\ DOMAIN o.arms = {}
    BY <1>3 DEF InvocationKey
  <2>2. /\ s \in {"succeeded", "skipped", "failed", "upstreamFailed"}
        /\ s = "skipped" => ~FailedAt(path, name)
        /\ s = "failed" => FailedAt(path, name)
        /\ s = "upstreamFailed" => LacksInside(path, name)
    BY <1>3, <2>1, EndedAlone
  <2> HIDE DEF kind
  <2>3. o.outcome = "normal" \/ o.outcome = s
    BY <2>1, <2>2 DEF InvocationOutcome
  <2> QED
    BY <2>1, <2>2, <2>3 DEF Caused, Follows
<1>4. CASE shape.kind \in {"none", "entry"}
  <2>1. o \in by(<<>>)
    BY <1>4 DEF WorkSettlement
  <2>2. Incoming(WorkflowOf(path), name) = {}
    BY <1>1, <1>4, ShapesAre DEF Accounts
  <2> HIDE DEF by
  <2> QED
    BY <1>3, <1>4, <2>1, <2>2
<1>5. CASE shape.kind = "single"
  <2>1. o \in CASE input.kind = "pending"         -> {}
                [] input.kind = "value"           -> by(input.trigger)
                [] input.kind = "transformFailed" -> Settle1(MissingOutcome(kind, "failed"))
                [] input.kind = "skipped"         -> Settle1("skipped")
                [] input.kind = "failure"         -> Settle1(MissingOutcome(kind, "upstreamFailed"))
    BY <1>5 DEF WorkSettlement
  <2>2. input.kind \in {"pending", "value", "transformFailed", "skipped", "failure"}
    BY ResolutionKinds
  <2>3. /\ input.kind = "value" =>
             \A i \in Incoming(WorkflowOf(path), name) : \A d \in DeliveriesOn(path, i) : deliveries[d] # "failed"
        /\ input.kind = "transformFailed" => FailedAt(path, name)
        /\ input.kind = "skipped" => ~FailedAt(path, name)
        /\ input.kind = "failure" => LacksAbove(path, name)
    BY <1>1, <1>5, MissingInputs
  <2>4. \A reason : MissingOutcome(kind, reason) \in {"normal", reason}
    BY DEF MissingOutcome
  <2> HIDE DEF by, input, kind
  <2>5. CASE input.kind = "value"
    BY <1>3, <1>5, <2>1, <2>3, <2>5
  <2>6. CASE input.kind = "transformFailed"
    <3>1. o.outcome \in {"normal", "failed"} /\ Follows(o)
      BY <1>2, <2>1, <2>4, <2>6
    <3> QED
      BY <2>3, <2>6, <3>1 DEF Caused
  <2>7. CASE input.kind = "skipped"
    BY <1>2, <2>1, <2>3, <2>7 DEF Caused
  <2>8. CASE input.kind = "failure"
    <3>1. o.outcome \in {"normal", "upstreamFailed"} /\ Follows(o)
      BY <1>2, <2>1, <2>4, <2>8
    <3> QED
      BY <2>3, <2>8, <3>1 DEF Caused
  <2>9. input.kind # "pending"
    BY <2>1
  <2> QED
    BY <2>2, <2>5, <2>6, <2>7, <2>8, <2>9
<1>6. CASE shape.kind = "stream"
  <2>1. o \in IF ~(StreamEnded(path, shape.index) /\ Triggered(path, name, shape.index)) THEN {}
              ELSE Settle1(IF StreamOutcome(path, shape.index) = "skipped" \/ skips THEN "skipped" ELSE "normal")
    BY <1>6 DEF WorkSettlement
  <2>2. StreamEnded(path, shape.index)
    BY <2>1
  <2>3. Incoming(WorkflowOf(path), name) = {shape.index}
    BY <1>1, <1>6, ShapesAre DEF Accounts
  <2>4. skips => ~FailedAt(path, name)
    BY <2>3 DEF NoOwnFailure, FailedAt
  <2>5. StreamOutcome(path, shape.index) = "skipped" => ~FailedAt(path, name)
    BY <1>1, <1>6, <2>2, SkippedStreams
  <2> HIDE DEF skips
  <2>6. /\ Follows(o)
        /\ o.outcome = "normal" \/ (o.outcome = "skipped" /\ (StreamOutcome(path, shape.index) = "skipped" \/ skips))
    BY <1>2, <2>1
  <2> QED
    BY <2>4, <2>5, <2>6 DEF Caused
<1> QED
  BY <1>1, <1>4, <1>5, <1>6

\* What a placement that collects settles with is normal or nothing came.
LEMMA CollectingIsCaused ==
  ASSUME Accounts, NEW path \in DOMAIN runs, NEW name \in Placements(WorkflowOf(path)),
         PlacementOf(path, name).type \in Collecting,
         NEW o \in SettleOutcome(path, name)
  PROVE  Caused(path, name, o) /\ Follows(o)
<1>1. Collects(path, name, o)
  BY SettlementSeals
<1>2. o.outcome \in {"normal", "skipped"} /\ DOMAIN o.arms = {}
  <2>1. CASE PlacementOf(path, name).type = "waitStream"
    <3>1. o \in WaitStreamSettlement(path, Shape(path, name).index)
      BY <2>1 DEF SettleOutcome
    <3> QED
      BY <3>1 DEF WaitStreamSettlement, Settle1, Aggregate
  <2>2. CASE PlacementOf(path, name).type = "merge"
    <3>1. o \in MergeSettlement(path, name)
      BY <2>2 DEF SettleOutcome
    <3> QED
      BY <3>1 DEF MergeSettlement, Settle1, Aggregate
  <2> QED
    BY <2>1, <2>2 DEF Collecting
<1>3. InvocationsOf(path, name) = {}
  <2> SUFFICES ASSUME NEW k \in InvocationsOf(path, name)
               PROVE  FALSE
    OBVIOUS
  <2>1. Provided(k) /\ ConcurrencyOf(k) = PlacementOf(path, name)
    BY InvocationsAreIn DEF Accounts, Life, InvocationsOf
  <2> QED
    BY <2>1 DEF Provided, Collecting
<1> QED
  BY <1>1, <1>2, <1>3 DEF Collects, Caused, FailedAt, Follows

\* What any placement settles with has a cause.
LEMMA SettlementIsCaused ==
  ASSUME Accounts, ArmsFollow, NEW path \in DOMAIN runs, NEW name \in Placements(WorkflowOf(path)),
         \A k \in InvocationsOf(path, name) : invocations[k].status # "cancelled",
         NEW o \in SettleOutcome(path, name)
  PROVE  Caused(path, name, o) /\ Follows(o)
<1>1. EndedAs(path, name)
  <2>1. \A k \in InvocationsOf(path, name) : InvocationEnded(k)
    BY DEF SettleOutcome
  <2> QED
    BY <2>1 DEF EndedAs, InvocationEnded, InvocationsOf, Accounts, TypeOK, InvocationsOK, InvocationStatuses
<1>2. CASE PlacementOf(path, name).type \in Collecting
  BY <1>2, CollectingIsCaused
<1>3. CASE PlacementOf(path, name).type = "branch"
  <2>1. o \in BranchSettlement(path, name, Shape(path, name))
    BY <1>3 DEF SettleOutcome
  <2> QED
    BY <1>1, <1>3, <2>1, BranchIsCaused
<1>4. CASE PlacementOf(path, name).type \notin Collecting \cup {"branch"}
  <2>1. o \in WorkSettlement(path, name, Shape(path, name))
    BY <1>4 DEF SettleOutcome, Collecting
  <2> QED
    BY <1>1, <1>4, <2>1, WorkIsCaused
<1> QED
  BY <1>2, <1>3, <1>4

-----------------------------------------------------------------------------
(* Causes: the invariant *)

OwnFailure(path, name) ==
  \E n \in DOMAIN failures : failures[n].run = path /\ failures[n].placement = name /\ failures[n].task = None
InsideFailure(path) == \E n \in DOMAIN failures : Within(failures[n].run, path)
CalledFailure(path, name) == \E k \in InvocationsOf(path, name) : InsideFailure(Child(k, None))

\* What an outcome says of the failures recorded.
HasCause(path, name, outcome) ==
  /\ outcome = "skipped" => ~OwnFailure(path, name)
  /\ outcome = "failed" => OwnFailure(path, name) \/ CalledFailure(path, name)
  /\ outcome = "upstreamFailed" => LacksAbove(path, name) \/ CalledFailure(path, name)
AllCaused == \A s \in DOMAIN settled : HasCause(s.run, s.placement, settled[s].outcome)

\* What is recorded at a placement is a failed call or a failed delivery of it.
BlamedOn(failure) ==
  \/ \E c \in FailedCalls : c.task = None /\ c.owner.run = failure.run /\ c.owner.placement = failure.placement
  \/ \E d \in FailedDeliveries : TargetOf(d) = SettledKey(failure.run, failure.placement)
Sources == \A n \in DOMAIN failures : failures[n].task = None => BlamedOn(failures[n])

\* While the execution runs only calls that failed are cancelled.
Undisturbed ==
  status = "running" =>
    /\ \A c \in DOMAIN calls : calls[c].status \in {"cancelling", "cancelled"} => OwnerStatus(c) = "failed"
    /\ \A k \in DOMAIN invocations : invocations[k].status # "cancelled"

\* What called a workflow ended as the designated output did.
Reached(outcome) == IF outcome = "normal" THEN "succeeded" ELSE outcome
EndMatches(p) ==
  LET s == SettledKey(p, DesignatedOutput(p))
  IN  s \in DOMAIN settled /\ OwnerStatus(CallerOf(p)) = Reached(settled[s].outcome)
EndsMatch == \A p \in DOMAIN runs \ {Root} : runs[p].complete => EndMatches(p)

\* A placement only fails or lacks input in a run with a failure in it.
FailuresInside ==
  \A s \in DOMAIN settled : settled[s].outcome \in {"failed", "upstreamFailed"} => InsideFailure(s.run)

WellCaused == Sources /\ Undisturbed /\ EndsMatch /\ FailuresInside /\ ArmsFollow /\ AllCaused

\* The outcomes that have causes are the ones that the property speaks of.
LEMMA CausesSuffice == AllCaused => OutcomesHaveCauses
<1> SUFFICES ASSUME AllCaused, NEW s \in DOMAIN settled
             PROVE  LET own    == \E n \in DOMAIN failures :
                          failures[n].run = s.run /\ failures[n].placement = s.placement /\ failures[n].task = None
                        callees == {Child(k, None) : k \in InvocationsOf(s.run, s.placement)}
                        inside == \E p \in callees : \E n \in DOMAIN failures : Within(failures[n].run, p)
                        above  == \E i \in Incoming(WorkflowOf(s.run), s.placement) :
                          LET source == SettledKey(s.run, Edge(WorkflowOf(s.run), i).source)
                          IN  source \in DOMAIN settled /\ settled[source].outcome \in {"failed", "upstreamFailed"}
                    IN  /\ settled[s].outcome = "skipped" => ~own
                        /\ settled[s].outcome = "failed" => own \/ inside
                        /\ settled[s].outcome = "upstreamFailed" => above \/ inside
  BY DEF OutcomesHaveCauses
<1> DEFINE callees == {Child(k, None) : k \in InvocationsOf(s.run, s.placement)}
           inside == \E p \in callees : \E n \in DOMAIN failures : Within(failures[n].run, p)
<1>1. HasCause(s.run, s.placement, settled[s].outcome)
  BY DEF AllCaused
<1>2. CalledFailure(s.run, s.placement) => inside
  BY DEF CalledFailure, InsideFailure
<1> HIDE DEF inside, callees
<1> QED
  BY <1>1, <1>2 DEF HasCause, OwnFailure, LacksAbove, inside, callees

-----------------------------------------------------------------------------
(* Causes: what is settled *)

\* An invocation that failed, or lacked input, did so because of a failure.
LEMMA InvocationIsCaused ==
  ASSUME IInv, FailureBooks, EndsMatch, FailuresInside, NEW k \in DOMAIN invocations
  PROVE  /\ invocations[k].status = "failed" => OwnFailure(k.run, k.placement) \/ InsideFailure(Child(k, None))
         /\ invocations[k].status = "upstreamFailed" => InsideFailure(Child(k, None))
<1> SUFFICES ASSUME invocations[k].status \in {"failed", "upstreamFailed"}
             PROVE  \/ invocations[k].status = "failed" /\ OwnFailure(k.run, k.placement)
                    \/ InsideFailure(Child(k, None))
  OBVIOUS
<1>1. TypeOK /\ Life /\ OwnersDiffer /\ Provided(k)
  BY TypesTellOwners DEF IInv, Life
<1> PICK c : c = CallKey(k, None)
  OBVIOUS
<1> PICK p : p = Child(k, None)
  OBVIOUS
<1>2. c.owner = k /\ c.task = None /\ OwnerStatus(c) = invocations[k].status /\ p # Root /\ CallerOf(p) = c
  BY <1>1 DEF CallKey, OwnerStatus, OwnersDiffer, CallerOf
<1>3. CASE c \in DOMAIN calls
  <2>1. OwnerStatus(c) \in OwnerMay(calls[c].status)
    BY <1>1, <1>3 DEF Life, CallLife
  <2>2. OwnerStatus(c) = "failed"
    BY <1>2, <2>1 DEF OwnerMay
  <2>3. c \in FailedCalls
    BY <1>1, <1>3, <2>2, FailedCallsAre DEF KnownCalls
  <2>4. RecordedAt(k, None)
    BY <1>2, <2>3 DEF FailureBooks, FailuresPlaced
  <2> QED
    BY <1>2, <2>2, <2>4 DEF RecordedAt, OwnFailure, FailureAt
<1>4. CASE p \in DOMAIN runs
  <2>1. runs[p].complete
    BY <1>1, <1>2, <1>4 DEF Life, RunLife, OpenWith
  <2> PICK s : s = SettledKey(p, DesignatedOutput(p))
    OBVIOUS
  <2>2. s \in DOMAIN settled /\ s.run = p /\ invocations[k].status = Reached(settled[s].outcome)
    BY <1>2, <1>4, <2>1 DEF EndsMatch, EndMatches, SettledKey
  <2>3. settled[s].outcome \in {"failed", "upstreamFailed"}
    BY <2>2 DEF Reached
  <2> QED
    BY <2>2, <2>3 DEF FailuresInside
<1>5. CASE k \in DOMAIN executions
  BY <1>1, <1>5 DEF Life, ExecutionLife, OpenWith
<1> QED
  BY <1>1, <1>3, <1>4, <1>5 DEF Provided

\* What is settled because of what went wrong is because of a failure.
LEMMA CausedHasCause ==
  ASSUME IInv, FailureBooks, Sources, EndsMatch, FailuresInside, NEW path \in DOMAIN runs, NEW name,
         NEW o, Caused(path, name, o)
  PROVE  HasCause(path, name, o.outcome)
<1>1. TypeOK /\ Life /\ EntriesOwned /\ OwnersDiffer
  BY TypesTellOwners DEF IInv, Books
<1>2. ASSUME o.outcome = "skipped", OwnFailure(path, name)
      PROVE  FALSE
  <2>1. PICK n \in DOMAIN failures : failures[n].run = path /\ failures[n].placement = name /\ failures[n].task = None
    BY <1>2 DEF OwnFailure
  <2>2. BlamedOn(failures[n])
    BY <2>1 DEF Sources
  <2>3. ASSUME NEW c \in FailedCalls, c.task = None, c.owner.run = path, c.owner.placement = name
        PROVE  FailedAt(path, name)
    <3>1. c \in DOMAIN calls /\ OwnerStatus(c) = "failed"
      BY <1>1, FailedCallsAre DEF KnownCalls
    <3> QED
      BY <1>1, <2>3, <3>1 DEF OwnerStatus, OwnersDiffer, FailedAt, InvocationsOf
  <2>4. ASSUME NEW d \in FailedDeliveries, TargetOf(d) = SettledKey(path, name)
        PROVE  FailedAt(path, name)
    <3>1. d \in DOMAIN deliveries /\ deliveries[d] = "failed" /\ DeliveryOwned(d)
      BY <1>1 DEF FailedDeliveries, EntriesOwned
    <3>2. d.run = path /\ Edge(WorkflowOf(path), d.connection).target = name
      BY <2>4 DEF TargetOf, SettledKey
    <3>3. d.connection \in Incoming(WorkflowOf(path), name)
      BY <3>1, <3>2 DEF DeliveryOwned, Incoming
    <3> QED
      BY <3>1, <3>2, <3>3 DEF FailedAt, DeliveriesOn
  <2> QED
    BY <1>2, <2>1, <2>2, <2>3, <2>4 DEF BlamedOn, Caused
<1>3. ASSUME NEW k \in InvocationsOf(path, name)
      PROVE  /\ invocations[k].status = "failed" => OwnFailure(path, name) \/ CalledFailure(path, name)
             /\ invocations[k].status = "upstreamFailed" => CalledFailure(path, name)
  BY <1>3, InvocationIsCaused DEF InvocationsOf, CalledFailure
<1>4. ASSUME NEW i \in Incoming(WorkflowOf(path), name), NEW d \in DeliveriesOn(path, i), deliveries[d] = "failed"
      PROVE  OwnFailure(path, name)
  <2>1. d \in FailedDeliveries /\ TargetOf(d) = SettledKey(path, name)
    BY <1>4 DEF FailedDeliveries, DeliveriesOn, TargetOf, Incoming
  <2>2. RecordedAt(SettledKey(path, name), None)
    BY <2>1 DEF FailureBooks, FailuresPlaced
  <2> QED
    BY <2>2 DEF RecordedAt, FailureAt, SettledKey, OwnFailure
<1>5. FailedAt(path, name) => OwnFailure(path, name) \/ CalledFailure(path, name)
  BY <1>3, <1>4 DEF FailedAt
<1>6. LacksInside(path, name) => CalledFailure(path, name)
  BY <1>3 DEF LacksInside
<1> QED
  BY <1>2, <1>5, <1>6 DEF HasCause, Caused

\* A cause is in the run.
LEMMA CauseIsInside ==
  ASSUME IInv, FailureBooks, FailuresInside, NEW path \in DOMAIN runs, NEW name,
         NEW outcome \in {"failed", "upstreamFailed"}, HasCause(path, name, outcome)
  PROVE  InsideFailure(path)
<1>1. IsSequence(path) /\ \A n \in DOMAIN failures : IsSequence(failures[n].run)
  BY DEF IInv, TypeOK, FailureBooks
<1>2. OwnFailure(path, name) => InsideFailure(path)
  BY <1>1, WithinSelf DEF OwnFailure, InsideFailure
<1>3. ASSUME CalledFailure(path, name) PROVE InsideFailure(path)
  <2>1. PICK k \in InvocationsOf(path, name) : InsideFailure(Child(k, None))
    BY <1>3 DEF CalledFailure
  <2>2. PICK n \in DOMAIN failures : Within(failures[n].run, Child(k, None))
    BY <2>1 DEF InsideFailure
  <2>3. Child(k, None) = Append(path, [placement |-> k.placement, trigger |-> k.trigger, task |-> None])
    BY DEF Child, InvocationsOf
  <2>4. Within(failures[n].run, path)
    BY <1>1, <2>2, <2>3, WithinChild
  <2> QED
    BY <2>4 DEF InsideFailure
<1>4. LacksAbove(path, name) => InsideFailure(path)
  BY DEF LacksAbove, FailuresInside, SettledKey
<1> QED
  BY <1>2, <1>3, <1>4 DEF HasCause

-----------------------------------------------------------------------------
(* Causes: what a step adds *)

\* What failed has failed for good.
LEMMA FailedStays ==
  ASSUME Kept, OwnersDiffer, NEW c \in DOMAIN calls, OwnerStatus(c) = "failed"
  PROVE  OwnerStatus(c)' = "failed"
BY DEF OwnerStatus, Kept, OwnersDiffer, Unstarted

\* A call or a workflow called only completes by CloseRun.
LEMMA RunsComplete ==
  ASSUME TypeOK, [Next]_vars, NEW p \in DOMAIN runs' \ {Root}, runs'[p].complete
  PROVE  p \in DOMAIN runs /\ (runs[p].complete \/ CloseRun(p))
<1> USE DEF NewRun, Put
<1>1. CASE runs' = runs
  BY <1>1
<1>2. CASE \E x, w : runs' = Put(runs, x, NewRun(w))
  BY <1>2
<1>3. CASE \E x \in DOMAIN runs : CloseRun(x)
  <2>1. PICK x \in DOMAIN runs : CloseRun(x)
    BY <1>3
  <2>2. runs' = [runs EXCEPT ![x].complete = TRUE]
    BY <2>1 DEF CloseRun
  <2> QED
    BY <2>1, <2>2 DEF TypeOK
<1>4. CASE ConcludeRunning
  <2>1. runs' = [runs EXCEPT ![Root].complete = TRUE]
    BY <1>4 DEF ConcludeRunning
  <2> QED
    BY <2>1 DEF TypeOK
<1>5. ASSUME Control
      PROVE  \/ runs' = runs \/ (\E x, w : runs' = Put(runs, x, NewRun(w)))
             \/ (\E x \in DOMAIN runs : CloseRun(x)) \/ ConcludeRunning
  <2>1. ASSUME NEW path, NEW name, NEW trigger, Invoke(path, name, trigger)
        PROVE  runs' = runs \/ \E x, w : runs' = Put(runs, x, NewRun(w))
    <3> HIDE DEF Put, NewRun
    <3> QED
      BY <2>1 DEF Invoke
  <2>2. ASSUME NEW e, NEW t, BeginTask(e, t)
        PROVE  runs' = runs \/ \E x, w : runs' = Put(runs, x, NewRun(w))
    <3> HIDE DEF Put, NewRun
    <3> QED
      BY <2>2 DEF BeginTask
  <2>3. ASSUME Start
        PROVE  \E x, w : runs' = Put(runs, x, NewRun(w))
    BY <2>3 DEF Start
  <2> HIDE DEF Put, NewRun
  <2>4. \A path, name, e, t, r, i, c :
          Settle(path, name) \/ Deliver(path, i, r) \/ TaskInput(e, t) \/ TaskOutput(r) \/ CloseExecution(e)
            \/ Fetch(c) \/ ConcludeStopping => runs' = runs
    BY DEF Settle, Deliver, TaskInput, TaskOutput, CloseExecution, Fetch, ConcludeStopping
  <2> QED
    BY <1>5, <2>1, <2>2, <2>3, <2>4 DEF Control
<1>6. (\E c \in DOMAIN calls : Report(c)) => runs' = runs
  BY DEF Report, CallReturned, Judged, Yielded, Ended, Terminated, CallCancelled
<1>7. Environment => runs' = runs
  BY DEF Environment, CallFailed, CallTimedOut, ElementTimedOut, Lost, FailCall, CallCancelled, TransformFailed,
         TaskInputFailed, TaskOutputFailed, Cancel
<1>8. Done \/ UNCHANGED vars => runs' = runs
  BY DEF Done, vars
<1> QED
  BY <1>1, <1>2, <1>3, <1>4, <1>5, <1>6, <1>7, <1>8 DEF Next

\* A failure that stops nothing leaves the calls as they are given.
LEMMA FailureGoesOn ==
  ASSUME NEW failure, NEW policy, NEW callTable, NEW executionTable,
         Fail(failure, policy, callTable, executionTable), status' = "running"
  PROVE  calls' = callTable /\ executions' = executionTable
BY DEF Fail, Stop

\* While the execution runs only calls that failed are cancelled.
LEMMA StaysUndisturbed ==
  ASSUME Scene, [Next]_vars, Undisturbed
  PROVE  Undisturbed'
<1> SUFFICES ASSUME status' = "running"
             PROVE  /\ \A c \in DOMAIN calls' : calls'[c].status \in {"cancelling", "cancelled"} => OwnerStatus(c)' = "failed"
                    /\ \A k \in DOMAIN invocations' : invocations'[k].status # "cancelled"
  BY DEF Undisturbed
<1>1. TypeOK /\ OwnersDiffer /\ Kept /\ Life /\ Ledger
  BY DEF Scene, IInv
<1>2. ASSUME status = "running", Gentle
      PROVE  /\ \A c \in DOMAIN calls' : calls'[c].status \in {"cancelling", "cancelled"} => OwnerStatus(c)' = "failed"
             /\ \A k \in DOMAIN invocations' : invocations'[k].status # "cancelled"
  <2>1. ASSUME NEW c \in DOMAIN calls', calls'[c].status \in {"cancelling", "cancelled"}
        PROVE  OwnerStatus(c)' = "failed"
    <3>1. c \in DOMAIN calls /\ calls[c].status \in {"cancelling", "cancelled"}
      BY <1>2, <2>1 DEF Gentle, GentleCalls, FineCalls
    <3> QED
      BY <1>1, <1>2, <3>1, FailedStays DEF Undisturbed
  <2>2. ASSUME NEW k \in DOMAIN invocations' PROVE invocations'[k].status # "cancelled"
    BY <1>2 DEF Gentle, GentleInvocations, FineInvocations, Undisturbed
  <2> QED
    BY <2>1, <2>2
<1>3. ASSUME status = "running", calls' = calls, NEW k, NEW s, s # "cancelled",
             invocations' = invocations \/ invocations' = SetInvocation(k, s)
      PROVE  /\ \A c \in DOMAIN calls' : calls'[c].status \in {"cancelling", "cancelled"} => OwnerStatus(c)' = "failed"
             /\ \A j \in DOMAIN invocations' : invocations'[j].status # "cancelled"
  <2>1. \A c \in DOMAIN calls' : calls'[c].status \in {"cancelling", "cancelled"} => OwnerStatus(c)' = "failed"
    BY <1>1, <1>3, FailedStays DEF Undisturbed
  <2>2. \A j \in DOMAIN invocations' : invocations'[j].status # "cancelled"
    BY <1>1, <1>3 DEF Undisturbed, SetInvocation, TypeOK, InvocationsOK
  <2> QED
    BY <2>1, <2>2
<1>4. CASE GoesCalmly
  BY <1>2, <1>4 DEF GoesCalmly, ConcludeRunning, Running
<1>5. CASE RunCloses
  <2>1. PICK path \in DOMAIN runs : CloseRun(path)
    BY <1>5 DEF RunCloses
  <2> DEFINE outcome == settled[SettledKey(path, DesignatedOutput(path))].outcome
             reached == IF outcome = "normal" THEN "succeeded" ELSE outcome
  <2>2. outcome \in Outcomes
    BY <1>1, <2>1 DEF CloseRun, IsSettled, TypeOK
  <2>3. reached # "cancelled"
    BY <2>2 DEF Outcomes
  <2>4. invocations' = invocations \/ invocations' = SetInvocation(RunOwner(path), reached)
    BY <2>1 DEF CloseRun
  <2>5. status = "running" /\ calls' = calls
    BY <2>1 DEF CloseRun, Running
  <2> HIDE DEF reached
  <2> QED
    BY <1>3, <2>3, <2>4, <2>5
<1>6. CASE CallGivesUp
  <2>1. PICK c \in DOMAIN calls : calls[c].status = "cancelling" /\ CallCancelled(c)
    BY <1>6 DEF CallGivesUp
  <2>2. status = "running"
    BY <2>1 DEF CallCancelled
  <2>3. OwnerStatus(c) = "failed"
    BY <2>1, <2>2 DEF Undisturbed
  <2>4. calls' = SetCall(c, "cancelled") /\ UNCHANGED <<invocations, executions>>
    BY <2>1, <2>3 DEF CallCancelled
  <2>5. ASSUME NEW d \in DOMAIN calls', calls'[d].status \in {"cancelling", "cancelled"}
        PROVE  OwnerStatus(d)' = "failed"
    <3>1. d \in DOMAIN calls /\ (d = c \/ calls'[d] = calls[d])
      BY <2>4, <2>5 DEF SetCall
    <3>2. OwnerStatus(d) = "failed"
      BY <2>2, <2>3, <2>5, <3>1 DEF Undisturbed
    <3> QED
      BY <1>1, <3>1, <3>2, FailedStays
  <2> QED
    BY <2>2, <2>4, <2>5 DEF Undisturbed
<1>7. CASE CallFails
  <2>1. PICK c \in DOMAIN calls : \E s \in {"failed", "lost", "cancelling"} :
               \E cause \in {"error", "timeout", "lost", "transform"} :
                 calls[c].status \in Live /\ FailCall(c, s, cause)
    BY <1>7 DEF CallFails
  <2>2. PICK s \in {"failed", "lost", "cancelling"}, cause \in {"error", "timeout", "lost", "transform"} :
                 calls[c].status \in Live /\ FailCall(c, s, cause)
    BY <2>1
  <2>3. status = "running"
    BY <1>7 DEF CallFails, Running
  <2>4. OwnerStatus(c)' = "failed"
    BY <1>1, <2>2, FailCallIsEvent
  <2>5. calls' = SetCall(c, s) /\ invocations' = OwnerInvocations(c, "failed")
    <3>1. PICK policy, et : Fail(FailureAt(c.owner, c.task, cause), policy, SetCall(c, s), et)
      BY <2>2 DEF FailCall
    <3> QED
      BY <2>2, <3>1, FailureGoesOn DEF FailCall
  <2>6. ASSUME NEW d \in DOMAIN calls', calls'[d].status \in {"cancelling", "cancelled"}
        PROVE  OwnerStatus(d)' = "failed"
    <3>1. d \in DOMAIN calls /\ (d = c \/ calls'[d] = calls[d])
      BY <2>5, <2>6 DEF SetCall
    <3>2. d # c => OwnerStatus(d) = "failed"
      BY <2>3, <2>6, <3>1 DEF Undisturbed
    <3> QED
      BY <1>1, <2>4, <3>1, <3>2, FailedStays
  <2>7. ASSUME NEW k \in DOMAIN invocations' PROVE invocations'[k].status # "cancelled"
    BY <1>1, <2>3, <2>5 DEF Undisturbed, OwnerInvocations, SetInvocation, TypeOK, InvocationsOK
  <2> QED
    BY <2>6, <2>7
<1>8. CASE TransformThrows
  <2>1. /\ status = "running" /\ invocations' = invocations
        /\ \E failure, policy, et : Fail(failure, policy, calls, et)
    BY <1>8 DEF TransformThrows, TransformFailed, Deliverable, TaskInputFailed, TaskOutputFailed, OutputPending, Running
  <2>2. calls' = calls
    BY <2>1, FailureGoesOn
  <2> QED
    BY <1>3, <2>1, <2>2
<1>9. CASE Cancel \/ ConcludeStopping
  BY <1>9 DEF Cancel, Stop, ConcludeStopping
<1> QED
  BY <1>4, <1>5, <1>6, <1>7, <1>8, <1>9, StepForms

\* A called workflow ends with what its designated output came to.
LEMMA EndsStayMatched ==
  ASSUME Scene, [Next]_vars, EndsMatch
  PROVE  EndsMatch'
<1> SUFFICES ASSUME NEW p \in DOMAIN runs' \ {Root}, runs'[p].complete
             PROVE  EndMatches(p)'
  BY DEF EndsMatch
<1>1. TypeOK /\ OwnersDiffer /\ OwnersExist /\ Kept /\ Life /\ Ledger /\ Grows
  BY DEF Scene, IInv
<1>2. p \in DOMAIN runs /\ (runs[p].complete \/ CloseRun(p))
  BY <1>1, RunsComplete
<1> PICK c : c = CallerOf(p)
  OBVIOUS
<1> PICK s : s = SettledKey(p, DesignatedOutput(p))
  OBVIOUS
<1>3. RunOwner(p) \in DOMAIN invocations /\ c.owner = RunOwner(p) /\ c.task = RunTask(p)
  BY <1>1, <1>2 DEF OwnersDiffer, CallerOf, CallKey
<1>4. SettledKey(p, DesignatedOutput(p))' = s
  <2>1. RunOwner(p).run \in DOMAIN runs
    BY <1>1, <1>3 DEF OwnersExist, InvocationOwned
  <2>2. PlacementOf(RunOwner(p).run, RunOwner(p).placement)' = PlacementOf(RunOwner(p).run, RunOwner(p).placement)
    BY <1>1, <2>1, LookupsSame
  <2> QED
    BY <2>2 DEF DesignatedOutput
<1>5. /\ s \in DOMAIN settled /\ s \in DOMAIN settled' /\ settled'[s] = settled[s]
      /\ OwnerStatus(c)' = Reached(settled[s].outcome)
  <2>1. CASE runs[p].complete
    <3>1. s \in DOMAIN settled /\ OwnerStatus(c) = Reached(settled[s].outcome)
      BY <1>2, <2>1 DEF EndsMatch, EndMatches
    <3>2. OwnerStatus(c) \in {"succeeded", "skipped", "failed", "upstreamFailed"}
      BY <1>1, <1>2, <2>1 DEF Life, RunLife
    <3>3. OwnerStatus(c)' = OwnerStatus(c)
      <4>1. CASE c.task = None
        BY <1>1, <1>3, <3>2, <4>1 DEF Kept, OwnerStatus
      <4>2. CASE c.task # None
        <5>1. c.owner \in DOMAIN executions /\ c.task \in DOMAIN executions[c.owner].tasks
          BY <1>1, <1>2, <1>3, <4>2 DEF OwnersDiffer
        <5> QED
          BY <1>1, <3>2, <4>2, <5>1 DEF Kept, OwnerStatus, Unstarted
      <4> QED
        BY <4>1, <4>2
    <3> QED
      BY <1>1, <3>1, <3>3 DEF Ledger, TablesGrow
  <2>2. CASE CloseRun(p)
    <3>1. s \in DOMAIN settled /\ settled' = settled
      BY <2>2 DEF CloseRun, IsSettled
    <3> PICK reached : reached = Reached(settled[s].outcome)
      OBVIOUS
    <3>2. \/ c.task = None /\ invocations' = SetInvocation(c.owner, reached)
          \/ c.task # None /\ executions' = SetTask(c.owner, c.task, reached)
      BY <1>3, <2>2 DEF CloseRun, Reached
    <3>3. OwnerStatus(c)' = reached
      <4>1. CASE c.task = None
        BY <1>1, <1>3, <3>2, <4>1 DEF SetInvocation, OwnerStatus, TypeOK, InvocationsOK
      <4>2. CASE c.task # None
        <5>1. c.owner \in DOMAIN executions /\ c.task \in DOMAIN executions[c.owner].tasks
          BY <1>1, <1>2, <1>3, <4>2 DEF OwnersDiffer
        <5> QED
          BY <1>1, <3>2, <4>2, <5>1 DEF SetTask, OwnerStatus, TypeOK, ExecutionsOK
      <4> QED
        BY <4>1, <4>2
    <3> QED
      BY <3>1, <3>3
  <2> QED
    BY <1>2, <2>1, <2>2
<1> QED
  BY <1>4, <1>5 DEF EndMatches, CallerOf, RunOwner, RunTask

\* A failed call or a failed delivery that the step adds, at the placement.
NewlyBlamed(failure) ==
  \/ \E c \in DOMAIN calls \ FailedCalls :
       /\ c \in FailedCalls' /\ c.task = None
       /\ c.owner.run = failure.run /\ c.owner.placement = failure.placement
  \/ \E d \in DOMAIN deliveries' \ DOMAIN deliveries :
       /\ d \in FailedDeliveries' /\ d.run \in DOMAIN runs
       /\ TargetOf(d) = SettledKey(failure.run, failure.placement)

\* What a step adds to the list of failures.
FailuresGrow ==
  /\ \A n \in DOMAIN failures : n \in DOMAIN failures' /\ failures'[n] = failures[n]
  /\ \A n \in DOMAIN failures' \ DOMAIN failures : failures'[n].task = None => NewlyBlamed(failures'[n])
  /\ FailedCalls \subseteq FailedCalls'
  /\ FailedDeliveries \subseteq FailedDeliveries'

\* A failure that is recorded where one is added is blamed on that.
LEMMA RecordsGrow ==
  ASSUME Scene, NEW owner, NEW task, Records(owner, task),
         NEW C, NEW D, NEW O, NEW T, Adds(C, D, O, T),
         \A cause : task = None => NewlyBlamed(FailureAt(owner, None, cause))
  PROVE  FailuresGrow
<1>1. IsSequence(failures)
  BY DEF Scene, IInv, TypeOK
<1> PICK cause \in {"error", "timeout", "lost", "transform"} : failures' = Append(failures, FailureAt(owner, task, cause))
  BY DEF Records
<1>2. /\ DOMAIN failures \subseteq DOMAIN failures'
      /\ \A n \in DOMAIN failures : failures'[n] = failures[n]
      /\ \A n \in DOMAIN failures' \ DOMAIN failures : failures'[n] = FailureAt(owner, task, cause)
  BY <1>1, RecordingStays
<1>3. FailureAt(owner, task, cause).task = task
  BY DEF FailureAt
<1>4. task = None => NewlyBlamed(FailureAt(owner, task, cause))
  OBVIOUS
<1> QED
  BY <1>2, <1>3, <1>4 DEF FailuresGrow, Adds, NewCalls, NewFailedDeliveries

\* Every step adds to the failures only what it blames on something new.
LEMMA StepGrowsFailures ==
  ASSUME Scene, [Next]_vars
  PROVE  FailuresGrow
<1>1. ASSUME NoFailure PROVE FailuresGrow
  BY <1>1 DEF NoFailure, Adds, NewCalls, NewFailedDeliveries, FailuresGrow
<1>2. ASSUME NEW c \in DOMAIN calls \ FailedCalls, Records(c.owner, c.task), Adds({c}, {}, {}, {})
      PROVE  FailuresGrow
  <2>1. c \in FailedCalls'
    BY <1>2 DEF Adds, NewCalls
  <2>2. ASSUME NEW cause, c.task = None PROVE NewlyBlamed(FailureAt(c.owner, None, cause))
    BY <2>1, <2>2 DEF NewlyBlamed, FailureAt
  <2> QED
    BY <1>2, <2>2, RecordsGrow
<1>3. ASSUME NEW d \in DOMAIN deliveries' \ DOMAIN deliveries, Records(TargetOf(d), None), Adds({}, {d}, {}, {})
      PROVE  FailuresGrow
  <2>1. d \in FailedDeliveries' /\ d.run \in DOMAIN runs
    BY <1>3 DEF Adds, NewFailedDeliveries, Records, TargetOf, SettledKey
  <2>2. ASSUME NEW cause PROVE NewlyBlamed(FailureAt(TargetOf(d), None, cause))
    <3>1. TargetOf(d) = SettledKey(FailureAt(TargetOf(d), None, cause).run, FailureAt(TargetOf(d), None, cause).placement)
      BY DEF TargetOf, FailureAt, SettledKey
    <3> QED
      BY <2>1, <3>1 DEF NewlyBlamed
  <2> QED
    BY <1>3, <2>2, RecordsGrow
<1>4. ASSUME NEW owner, NEW task, task # None, Records(owner, task), NEW O, NEW T, Adds({}, {}, O, T)
      PROVE  FailuresGrow
  <2>1. \A cause : task = None => NewlyBlamed(FailureAt(owner, None, cause))
    BY <1>4
  <2> QED
    BY <1>4, <2>1, RecordsGrow
<1>5. OneFailure => FailuresGrow
  BY <1>2, <1>3, <1>4 DEF OneFailure, TargetOf
<1> QED
  BY <1>1, <1>5, StepFails DEF Goes, Fails, Turns

\* So every failure at a placement stays blamed.
LEMMA SourcesStay ==
  ASSUME Scene, FailureBooks, FailuresGrow, Sources
  PROVE  Sources'
<1> SUFFICES ASSUME NEW n \in DOMAIN failures', failures'[n].task = None
             PROVE  BlamedOn(failures[n])'
  BY DEF Sources
<1>1. TypeOK /\ Grows
  BY DEF Scene, IInv
<1> PICK f : f = failures'[n]
  OBVIOUS
<1>2. CASE n \in DOMAIN failures
  <2>1. failures[n] = f /\ BlamedOn(f)
    BY <1>2 DEF FailuresGrow, Sources
  <2>2. BlamedOn(f)'
    BY <2>1, TargetsStay DEF BlamedOn, FailuresGrow
  <2> QED
    BY <2>2 DEF BlamedOn
<1>3. CASE n \notin DOMAIN failures
  <2>1. NewlyBlamed(f)
    BY <1>3 DEF FailuresGrow
  <2>2. \A d : d.run \in DOMAIN runs => TargetOf(d)' = TargetOf(d)
    BY <1>1, LookupsSame DEF TargetOf
  <2>3. BlamedOn(f)'
    BY <2>1, <2>2 DEF BlamedOn, NewlyBlamed
  <2> QED
    BY <2>3 DEF BlamedOn
<1> QED
  BY <1>2, <1>3

\* A placement that has settled does not fail any more.
LEMMA SettledFailsNoMore ==
  ASSUME Scene, FailuresGrow, NEW s \in DOMAIN settled, NEW n \in DOMAIN failures' \ DOMAIN failures,
         failures'[n].run = s.run, failures'[n].placement = s.placement, failures'[n].task = None
  PROVE  FALSE
<1>1. /\ TypeOK /\ TypeOK' /\ Life /\ Life' /\ OwnersExist /\ OwnersExist' /\ OwnersDiffer /\ Grows /\ Kept /\ Ledger
      /\ EntriesOwned /\ SinglesHaveOne' /\ Sealed
  BY DEF Scene, IInv, Books
<1>2. /\ \A k \in InvocationsOf(s.run, s.placement) : invocations'[k] = invocations[k]
      /\ \A i \in Incoming(WorkflowOf(s.run), s.placement) : DeliveriesOn(s.run, i)' = DeliveriesOn(s.run, i)
  BY <1>1, SettledStep
<1> PICK f : f = failures'[n]
  OBVIOUS
<1>3. NewlyBlamed(f)
  BY DEF FailuresGrow
<1>4. ASSUME NEW c \in DOMAIN calls \ FailedCalls, c \in FailedCalls', c.task = None,
             c.owner.run = s.run, c.owner.placement = s.placement
      PROVE  FALSE
  <2>1. KnownCalls /\ KnownCalls'
    BY <1>1, FailedCallsAre, PTL
  <2>2. OwnerStatus(c) # "failed" /\ OwnerStatus(c)' = "failed"
    BY <1>4, <2>1 DEF KnownCalls
  <2>3. c.owner \in InvocationsOf(s.run, s.placement)
    BY <1>1, <1>4 DEF OwnersDiffer, InvocationsOf
  <2> QED
    BY <1>2, <1>4, <2>2, <2>3 DEF OwnerStatus
<1>5. ASSUME NEW d \in DOMAIN deliveries' \ DOMAIN deliveries, TargetOf(d) = SettledKey(s.run, s.placement), d.run \in DOMAIN runs
      PROVE  FALSE
  <2>1. d.run = s.run /\ Edge(WorkflowOf(s.run), d.connection).target = s.placement
    BY <1>5 DEF TargetOf, SettledKey
  <2>2. DeliveryOwned(d)' /\ WorkflowOf(s.run)' = WorkflowOf(s.run)
    BY <1>1, <1>5, <2>1, LookupsSame DEF Ledger, NewDeliveries
  <2>3. d.connection \in Edges(WorkflowOf(s.run))
    BY <2>1, <2>2 DEF DeliveryOwned
  <2>4. d.connection \in Incoming(WorkflowOf(s.run), s.placement)
    BY <2>1, <2>3 DEF Incoming
  <2>5. d \in DeliveriesOn(s.run, d.connection)'
    BY <2>1 DEF DeliveriesOn
  <2> QED
    BY <1>2, <2>4, <2>5 DEF DeliveriesOn
<1> QED
  BY <1>3, <1>4, <1>5 DEF NewlyBlamed

\* What caused an outcome in a run causes it after the step, where nothing
\* else fails.
LEMMA HasCauseStays ==
  ASSUME Scene, FailuresGrow, NEW path \in DOMAIN runs, NEW name, NEW outcome, HasCause(path, name, outcome),
         InvocationsOf(path, name)' = InvocationsOf(path, name),
         \A n \in DOMAIN failures' \ DOMAIN failures :
           ~(failures'[n].run = path /\ failures'[n].placement = name /\ failures'[n].task = None)
  PROVE  HasCause(path, name, outcome)'
<1>1. TypeOK /\ Grows /\ Ledger
  BY DEF Scene, IInv
<1>2. OwnFailure(path, name)' <=> OwnFailure(path, name)
  BY DEF OwnFailure, FailuresGrow
<1>3. \A p : InsideFailure(p) => InsideFailure(p)'
  BY DEF InsideFailure, FailuresGrow
<1>4. CalledFailure(path, name) => CalledFailure(path, name)'
  BY <1>3 DEF CalledFailure
<1>5. LacksAbove(path, name) => LacksAbove(path, name)'
  <2>1. WorkflowOf(path)' = WorkflowOf(path)
    BY <1>1, LookupsSame
  <2> QED
    BY <1>1, <2>1 DEF LacksAbove, Ledger, TablesGrow
<1> QED
  BY <1>2, <1>4, <1>5 DEF HasCause

\* What is said of every settled placement.
SettledSoundly(s) ==
  /\ settled[s].outcome \in {"failed", "upstreamFailed"} => InsideFailure(s.run)
  /\ Follows(settled[s])
  /\ HasCause(s.run, s.placement, settled[s].outcome)

\* It stays so once a placement is settled.
LEMMA SettledStaysSound ==
  ASSUME Scene, FailuresGrow, NEW s \in DOMAIN settled, SettledSoundly(s)
  PROVE  SettledSoundly(s)'
<1>1. /\ TypeOK /\ OwnersExist /\ OwnersExist' /\ Grows /\ Kept /\ Ledger
      /\ EntriesOwned /\ SinglesHaveOne' /\ Sealed /\ s.run \in DOMAIN runs
  BY DEF Scene, IInv, Books, EntriesOwned, SettlementOwned
<1> PICK v : v = settled[s]
  OBVIOUS
<1>2. settled'[s] = v /\ InvocationsOf(s.run, s.placement)' = InvocationsOf(s.run, s.placement)
  BY <1>1, SettledStep
<1>3. HasCause(s.run, s.placement, v.outcome)'
  BY <1>1, <1>2, HasCauseStays, SettledFailsNoMore DEF SettledSoundly
<1>4. InsideFailure(s.run) => InsideFailure(s.run)'
  BY DEF InsideFailure, FailuresGrow
<1> QED
  BY <1>2, <1>3, <1>4 DEF SettledSoundly

\* It is so when a placement settles.
LEMMA SettlesSoundly ==
  ASSUME Scene, FailureBooks, WellCaused, FailuresGrow, NEW s \in DOMAIN settled' \ DOMAIN settled
  PROVE  SettledSoundly(s)'
<1>1. IInv /\ Accounts /\ Ledger
  BY DEF Scene, IInv, Books, Accounts
<1>2. /\ s = SettledKey(s.run, s.placement) /\ s.run \in DOMAIN runs /\ s.placement \in Placements(WorkflowOf(s.run))
      /\ Settle(s.run, s.placement)
  BY <1>1 DEF Ledger, NewSettlements
<1>3. PICK o \in SettleOutcome(s.run, s.placement) :
        settled' = Put(settled, SettledKey(s.run, s.placement), [outcome |-> o.outcome, arms |-> o.arms])
  BY <1>2 DEF Settle
<1>4. status = "running" /\ UNCHANGED <<invocations, failures>>
  BY <1>2 DEF Settle, Running
<1>5. Caused(s.run, s.placement, o) /\ Follows(o)
  <2>1. \A k \in InvocationsOf(s.run, s.placement) : invocations[k].status # "cancelled"
    BY <1>4 DEF WellCaused, Undisturbed, InvocationsOf
  <2> QED
    BY <1>1, <1>2, <2>1, SettlementIsCaused DEF WellCaused
<1>6. HasCause(s.run, s.placement, o.outcome)
  BY <1>1, <1>2, <1>5, CausedHasCause DEF WellCaused
<1>7. o.outcome \in {"failed", "upstreamFailed"} => InsideFailure(s.run)
  BY <1>1, <1>2, <1>6, CauseIsInside DEF WellCaused
<1>8. settled'[s].outcome = o.outcome /\ settled'[s].arms = o.arms
  BY <1>2, <1>3 DEF Put
<1>9. HasCause(s.run, s.placement, o.outcome)'
  BY <1>2, <1>4, <1>6, HasCauseStays DEF InvocationsOf
<1>10. InsideFailure(s.run)' <=> InsideFailure(s.run)
  BY <1>4 DEF InsideFailure
<1> QED
  BY <1>5, <1>7, <1>8, <1>9, <1>10 DEF SettledSoundly, Follows

\* What is said of each settled placement is what the invariant says of all.
LEMMA SettledSoundlyMeans ==
  (\A s \in DOMAIN settled : SettledSoundly(s)) <=> FailuresInside /\ ArmsFollow /\ AllCaused
BY DEF SettledSoundly, FailuresInside, ArmsFollow, AllCaused

\* Every step keeps the causes.
LEMMA StepKeepsCauses ==
  ASSUME IInv, FailureBooks, WellCaused, [Next]_vars
  PROVE  WellCaused'
<1>1. Scene
  BY StepHasScene
<1>2. FailuresGrow
  BY <1>1, StepGrowsFailures
<1>3. Sources' /\ Undisturbed' /\ EndsMatch'
  BY <1>1, <1>2, SourcesStay, StaysUndisturbed, EndsStayMatched DEF WellCaused
<1>4. \A s \in DOMAIN settled : SettledSoundly(s)
  BY SettledSoundlyMeans DEF WellCaused
<1>5. \A s \in DOMAIN settled' : SettledSoundly(s)'
  BY <1>1, <1>2, <1>4, SettledStaysSound, SettlesSoundly
<1>6. FailuresInside' /\ ArmsFollow' /\ AllCaused'
  BY <1>5 DEF SettledSoundly, FailuresInside, ArmsFollow, AllCaused
<1> QED
  BY <1>3, <1>6 DEF WellCaused

\* At first there is nothing that needs one.
LEMMA NothingCausedYet == Init => WellCaused
BY DEF Init, WellCaused, Sources, Undisturbed, EndsMatch, FailuresInside, ArmsFollow, AllCaused

\* Every outcome is caused, at all times.
LEMMA CausesHold == Spec => [](IInv /\ FailureBooks /\ WellCaused)
<1>1. Init => FailureBooks /\ WellCaused
  BY NothingFailedYet, NothingCausedYet
<1>2. IInv /\ FailureBooks /\ WellCaused /\ [Next]_vars => (FailureBooks /\ WellCaused)'
  BY StepKeepsFailures, StepKeepsCauses
<1> QED
  BY <1>1, <1>2, BooksHold, PTL DEF Spec

-----------------------------------------------------------------------------
(* What the execution ends with *)

Stopper == \E n \in DOMAIN failures : PolicyAt(failures[n]) = "stop"

\* The parts of an execution that ended well did.
AllWell ==
  /\ \A c \in DOMAIN calls : calls[c].status = "returned"
  /\ \A k \in DOMAIN invocations : invocations[k].status \in {"succeeded", "skipped"}
  /\ \A s \in DOMAIN settled : settled[s].outcome \in {"normal", "skipped"}
AllOver ==
  /\ \A c \in DOMAIN calls : CallEnded(calls[c].status)
  /\ \A k \in DOMAIN invocations : invocations[k].status # "active"
NoneCame == \A name \in Endpoints(WorkflowOf(Root)) : ResultsOf(Root, name) = {}

\* What the status says, part by part.
StatusParts ==
  /\ status \in {"running", "succeeded", "skipped"} => ~cancelled /\ ~Stopper
  /\ status \in {"stopping", "cancelled"} => cancelled \/ Stopper
  /\ status = "failed" => failures # <<>>
  /\ status \in {"succeeded", "skipped", "cancelled"} => failures = <<>>
  /\ status \in {"succeeded", "skipped"} => AllWell
  /\ status = "skipped" => NoneCame
  /\ status \in Terminal => AllOver

\* The parts are those of the property.
LEMMA StatusMeans == StatusSound <=> StatusParts
<1>1. Stopper <=> \E n \in DOMAIN failures : PolicyAt(failures[n]) = "stop"
  BY DEF Stopper
<1> HIDE DEF Stopper
<1> QED
  BY <1>1 DEF StatusSound, StatusParts, AllWell, AllOver, NoneCame

\* Nothing happens once an execution has ended.
LEMMA TerminalIsOver ==
  ASSUME status \in Terminal, [Next]_vars
  PROVE  UNCHANGED vars
<1>1. status \notin {"running", "stopping"}
  BY DEF Terminal
<1>2. ~Running
  BY <1>1 DEF Running
<1>3. ~Control
  <2>1. ~Start /\ ~ConcludeRunning /\ ~ConcludeStopping
    BY <1>1, <1>2 DEF Start, ConcludeRunning, ConcludeStopping
  <2>2. \A path, name, trigger : ~Invoke(path, name, trigger) /\ ~Settle(path, name) /\ ~CloseRun(path)
    BY <1>2 DEF Invoke, Settle, CloseRun
  <2>3. \A path, i, r, e, t, c : ~Deliver(path, i, r) /\ ~TaskInput(e, t) /\ ~BeginTask(e, t) /\ ~Fetch(c)
    BY <1>2 DEF Deliver, Deliverable, TaskInput, BeginTask, Fetch
  <2>4. \A r, e : ~TaskOutput(r) /\ ~CloseExecution(e)
    BY <1>2 DEF TaskOutput, OutputPending, CloseExecution
  <2> QED
    BY <2>1, <2>2, <2>3, <2>4 DEF Control
<1>4. \A c : ~Report(c)
  BY <1>1, <1>2 DEF Report, CallReturned, Judged, Yielded, Ended, Terminated
<1>5. ~Environment
  BY <1>1, <1>2 DEF Environment, CallFailed, CallTimedOut, ElementTimedOut, Lost, TransformFailed, Deliverable,
         TaskInputFailed, TaskOutputFailed, OutputPending, Cancel
<1> QED
  BY <1>3, <1>4, <1>5 DEF Next, Done

\* The policies of the failures recorded stay what they are.
LEMMA PoliciesStay ==
  ASSUME Scene, FailureBooks
  PROVE  /\ \A failure : failure.run \in DOMAIN runs => PolicyAt(failure)' = PolicyAt(failure)
         /\ failures' = failures => (Stopper' <=> Stopper)
<1>1. TypeOK /\ Grows
  BY DEF Scene, IInv
<1>2. ASSUME NEW failure, failure.run \in DOMAIN runs
      PROVE  PolicyAt(failure)' = PolicyAt(failure)
  <2>1. PlacementOf(failure.run, failure.placement)' = PlacementOf(failure.run, failure.placement)
    BY <1>1, <1>2, LookupsSame
  <2> QED
    BY <2>1 DEF PolicyAt
<1>3. ASSUME failures' = failures, NEW n \in DOMAIN failures
      PROVE  PolicyAt(failures[n])' = PolicyAt(failures[n])
  <2> PICK f : f = failures[n]
    OBVIOUS
  <2>1. PolicyAt(f)' = PolicyAt(f)
    BY <1>2 DEF FailureBooks
  <2> QED
    BY <1>3, <2>1
<1> QED
  BY <1>2, <1>3 DEF Stopper

\* A failure stops the execution exactly if its policy says so.
LEMMA FailingStops ==
  ASSUME Scene, FailureBooks, OneFailure, ~Stopper
  PROVE  status' = IF Stopper' THEN "stopping" ELSE status
<1>1. PICK owner, task : Records(owner, task)
  BY DEF OneFailure
<1>2. PICK cause \in {"error", "timeout", "lost", "transform"} :
        /\ owner.run \in DOMAIN runs
        /\ failures' = Append(failures, FailureAt(owner, task, cause))
        /\ status' = IF PolicyAt(FailureAt(owner, task, cause)) = "stop" THEN "stopping" ELSE status
  BY <1>1 DEF Records
<1> PICK f : f = FailureAt(owner, task, cause)
  OBVIOUS
<1>3. f.run \in DOMAIN runs
  BY <1>2 DEF FailureAt
<1>4. PolicyAt(f)' = PolicyAt(f)
  BY <1>3, PoliciesStay
<1>5. /\ DOMAIN failures \subseteq DOMAIN failures'
      /\ \A n \in DOMAIN failures : failures'[n] = failures[n]
      /\ \A n \in DOMAIN failures' \ DOMAIN failures : failures'[n] = f
      /\ Len(failures) + 1 \in DOMAIN failures' \ DOMAIN failures
  <2>1. IsSequence(failures)
    BY DEF Scene, IInv, TypeOK
  <2> QED
    BY <1>2, <2>1, RecordingStays
<1>6. ASSUME NEW n \in DOMAIN failures PROVE PolicyAt(failures[n])' # "stop"
  <2> PICK g : g = failures[n]
    OBVIOUS
  <2>1. PolicyAt(g)' = PolicyAt(g)
    BY PoliciesStay DEF FailureBooks
  <2> QED
    BY <1>5, <2>1 DEF Stopper
<1>7. ASSUME NEW n \in DOMAIN failures' \ DOMAIN failures
      PROVE  PolicyAt(failures[n])' = PolicyAt(f)
  BY <1>4, <1>5, <1>7
<1>8. Stopper' <=> PolicyAt(f) = "stop"
  BY <1>5, <1>6, <1>7 DEF Stopper
<1> QED
  BY <1>2, <1>8

\* An execution in which nothing failed, and in which nothing is in flight any
\* more, ended well.
LEMMA UnfailedIsWell ==
  ASSUME IInv, FailureBooks, WellCaused, status = "running", failures = <<>>, AllOver
  PROVE  AllWell
<1>1. TypeOK /\ Life
  BY DEF IInv
<1>2. DOMAIN failures = {} /\ Len(failures) = 0
  OBVIOUS
<1>3. FailedCalls = {}
  <2>1. /\ IsFiniteSet(FailedCalls) /\ Cardinality(FailedCalls) \in Nat /\ Cardinality(FailedDeliveries) \in Nat
        /\ Cardinality(FailedOutputs) \in Nat /\ Cardinality(FailedTasks) \in Nat
    BY FS_CardinalityType DEF FailureBooks, FailuresFinite
  <2>2. Cardinality(FailedCalls) = 0
    BY <1>2, <2>1 DEF FailureBooks, FailuresCounted
  <2> QED
    BY <2>1, <2>2, FS_EmptySet
<1>4. ASSUME NEW c \in DOMAIN calls PROVE calls[c].status = "returned"
  <2>1. calls[c].status \in CallStatuses /\ CallEnded(calls[c].status)
    BY <1>1 DEF TypeOK, CallsOK, AllOver
  <2>2. calls[c].status \notin {"failed", "lost"} /\ calls[c].status # "cancelled"
    BY <1>3 DEF FailedCalls, WellCaused, Undisturbed
  <2> QED
    BY <2>1, <2>2 DEF CallStatuses, CallEnded, Live
<1>5. ASSUME NEW k \in DOMAIN invocations PROVE invocations[k].status \in {"succeeded", "skipped"}
  <2>1. ~OwnFailure(k.run, k.placement) /\ ~InsideFailure(Child(k, None))
    BY <1>2 DEF OwnFailure, InsideFailure
  <2>2. invocations[k].status \notin {"failed", "upstreamFailed"}
    BY <2>1, InvocationIsCaused DEF WellCaused
  <2>3. invocations[k].status \notin {"active", "cancelled"}
    BY DEF AllOver, WellCaused, Undisturbed
  <2> QED
    BY <1>1, <2>2, <2>3 DEF TypeOK, InvocationsOK, InvocationStatuses
<1>6. ASSUME NEW s \in DOMAIN settled PROVE settled[s].outcome \in {"normal", "skipped"}
  <2>1. ~InsideFailure(s.run)
    BY <1>2 DEF InsideFailure
  <2>2. settled[s].outcome \notin {"failed", "upstreamFailed"}
    BY <2>1 DEF WellCaused, FailuresInside
  <2> QED
    BY <1>1, <2>2 DEF TypeOK, Outcomes
<1> QED
  BY <1>4, <1>5, <1>6 DEF AllWell

\* The main run is complete.
RootComplete == Root \in DOMAIN runs /\ runs[Root].complete

\* Once it is, nothing is in flight any more.
LEMMA RootIsQuiet == IInv /\ RootComplete => AllOver
<1> SUFFICES ASSUME IInv, Root \in DOMAIN runs, runs[Root].complete
             PROVE  AllOver
  BY DEF RootComplete
<1>1. TypeOK /\ OwnersExist /\ OwnersDiffer /\ CompleteRunsQuiet
  BY CompleteIsQuiet, TypesTellOwners DEF IInv
<1>2. ASSUME NEW p \in DOMAIN runs PROVE Within(p, Root)
  <2>1. IsSequence(p)
    BY <1>1 DEF TypeOK
  <2>2. p \in Seq({p[n] : n \in DOMAIN p})
    BY <2>1 DEF IsSequence
  <2> QED
    BY <2>2 DEF Within, Root
<1>3. \A k \in DOMAIN invocations : k.run \in DOMAIN runs
  BY <1>1 DEF OwnersExist, InvocationOwned
<1>4. \A c \in DOMAIN calls : c.owner.run \in DOMAIN runs
  BY <1>1, <1>3 DEF OwnersDiffer
<1> QED
  BY <1>1, <1>2, <1>3, <1>4 DEF CompleteRunsQuiet, AllOver

\* The end of an execution that was not stopped says what its parts did.
LEMMA ConcludingIsSound ==
  ASSUME Scene, FailureBooks, WellCaused, StatusSound, NoFailure, ConcludeRunning
  PROVE  StatusSound'
<1>1. IInv /\ IInv' /\ TypeOK /\ Grows /\ AllFit /\ OwnersExist
  BY DEF Scene, IInv, Books
<1>2. /\ started /\ status = "running" /\ AllSettled(Root)
      /\ UNCHANGED <<cancelled, calls, invocations, settled, results, failures>>
      /\ runs' = [runs EXCEPT ![Root].complete = TRUE]
      /\ status' \in {"failed", "skipped", "succeeded"}
      /\ status' = "failed" <=> failures # <<>>
      /\ status' = "skipped" =>
           \A name \in Endpoints(WorkflowOf(Root)) : settled[SettledKey(Root, name)].outcome = "skipped"
  BY DEF ConcludeRunning, Running
<1>3. Root \in DOMAIN runs
  BY <1>1, <1>2 DEF OwnersExist
<1>4. ~cancelled' /\ ~Stopper'
  BY <1>2, PoliciesStay, StatusMeans DEF StatusParts
<1>5. AllOver'
  <2>1. RootComplete'
    BY <1>1, <1>2, <1>3 DEF TypeOK, RootComplete
  <2> QED
    BY <1>1, <2>1, RootIsQuiet, PTL
<1>6. status' \in {"succeeded", "skipped"} => AllWell'
  <2>1. AllOver
    BY <1>2, <1>5 DEF AllOver
  <2>2. failures = <<>> => AllWell
    BY <1>1, <1>2, <2>1, UnfailedIsWell
  <2> QED
    BY <1>2, <2>2 DEF AllWell
<1>7. status' = "skipped" => NoneCame'
  <2>1. WorkflowOf(Root)' = WorkflowOf(Root)
    BY <1>1, <1>3, LookupsSame
  <2>2. ASSUME NEW name \in Endpoints(WorkflowOf(Root)), settled[SettledKey(Root, name)].outcome = "skipped"
        PROVE  ResultsOf(Root, name) = {}
    <3> PICK s : s = SettledKey(Root, name)
      OBVIOUS
    <3>1. s \in DOMAIN settled /\ s.run = Root /\ s.placement = name
      BY <1>2 DEF Endpoints, AllSettled, IsSettled, SettledKey
    <3>2. OutcomesMatchResults
      BY <1>1, FitsMatch
    <3> QED
      BY <2>2, <3>1, <3>2 DEF OutcomesMatchResults
  <2> QED
    BY <1>2, <2>1, <2>2 DEF NoneCame, ResultsOf
<1>8. StatusParts'
  BY <1>2, <1>4, <1>5, <1>6, <1>7 DEF StatusParts
<1> QED
  BY <1>8, StatusMeans, PTL

\* So does the end of an execution that was stopped.
LEMMA StoppingIsSound ==
  ASSUME Scene, FailureBooks, StatusSound, NoFailure, ConcludeStopping
  PROVE  StatusSound'
<1>1. TypeOK /\ StatusParts
  BY StatusMeans DEF Scene, IInv
<1>2. /\ status = "stopping" /\ UNCHANGED <<cancelled, calls, failures>>
      /\ status' \in {"failed", "cancelled"}
      /\ status' = "failed" <=> failures # <<>>
      /\ \A c \in DOMAIN calls : CallEnded(calls[c].status)
  BY DEF ConcludeStopping
<1>3. \A k \in DOMAIN invocations' : invocations'[k].status # "active"
  BY <1>1 DEF ConcludeStopping, TypeOK, InvocationsOK
<1>4. Stopper' <=> Stopper
  BY <1>2, PoliciesStay
<1>5. StatusParts'
  BY <1>1, <1>2, <1>3, <1>4 DEF StatusParts, AllOver
<1> QED
  BY <1>5, StatusMeans, PTL

\* Every step keeps what the status says.
LEMMA StepKeepsStatus ==
  ASSUME IInv, FailureBooks, WellCaused, StatusSound, [Next]_vars
  PROVE  StatusSound'
<1>1. Scene /\ StatusParts /\ status \in Statuses
  BY StepHasScene, StatusMeans DEF IInv, TypeOK
<1>2. CASE status \in Terminal
  <2>1. UNCHANGED vars
    BY <1>2, TerminalIsOver
  <2>2. StatusParts'
    <3>1. Stopper' <=> Stopper
      BY <1>1, <2>1, PoliciesStay DEF vars
    <3>2. UNCHANGED <<AllWell, AllOver, NoneCame>>
      BY <2>1 DEF vars, AllWell, AllOver, NoneCame, CallEnded, WorkflowOf, ResultsOf
    <3> QED
      BY <1>1, <2>1, <3>1, <3>2 DEF vars, StatusParts
  <2> QED
    BY <2>2, StatusMeans, PTL
<1>3. CASE status \in {"running", "stopping"} /\ Goes
  <2>1. UNCHANGED <<status, cancelled, failures>> /\ (Stopper' <=> Stopper)
    BY <1>1, <1>3, PoliciesStay DEF Goes, NoFailure
  <2>2. StatusParts'
    BY <1>1, <1>3, <2>1 DEF StatusParts, Terminal
  <2> QED
    BY <2>2, StatusMeans, PTL
<1>4. CASE Fails
  <2>1. status = "running" /\ ~Stopper /\ ~cancelled /\ ~cancelled'
    BY <1>1, <1>4 DEF Fails, Running, StatusParts
  <2>2. status' = IF Stopper' THEN "stopping" ELSE "running"
    BY <1>1, <1>4, <2>1, FailingStops DEF Fails
  <2>3. StatusParts'
    BY <2>1, <2>2 DEF StatusParts, Terminal
  <2> QED
    BY <2>3, StatusMeans, PTL
<1>5. CASE Turns
  <2>1. CASE Cancel
    <3>1. cancelled' /\ status' = "stopping"
      BY <2>1 DEF Cancel, Stop
    <3>2. StatusParts'
      BY <3>1 DEF StatusParts, Terminal
    <3> QED
      BY <3>2, StatusMeans, PTL
  <2> QED
    BY <1>1, <1>5, <2>1, ConcludingIsSound, StoppingIsSound DEF Turns
<1>6. status \in Terminal \/ status \in {"running", "stopping"}
  BY <1>1 DEF Terminal
<1> QED
  BY <1>1, <1>2, <1>3, <1>4, <1>5, <1>6, StepFails

\* What the status says before anything happens.
LEMMA StatusAtFirst == Init => StatusSound
<1>1. Init => StatusParts
  BY DEF Init, StatusParts, Stopper, Terminal
<1> QED
  BY <1>1, StatusMeans

\* What a placement settles with, and what the execution ends with, is what
\* the results and the failures recorded say: a placement that was skipped
\* did not fail, one that failed has a failure of its own or of the workflow
\* it calls, one that lacks its input has one before or inside it, and an
\* execution succeeds only if nothing failed, was cancelled or is in flight.
THEOREM OutcomesAreSound == Spec => []OutcomesSound
<1>1. IInv => OutcomesMatchResults
  BY FitsMatch DEF IInv, Books
<1>2. WellCaused => OutcomesHaveCauses
  BY CausesSuffice DEF WellCaused
<1>3. Init => StatusSound
  BY StatusAtFirst
<1>4. IInv /\ FailureBooks /\ WellCaused /\ StatusSound /\ [Next]_vars => StatusSound'
  BY StepKeepsStatus
<1>5. OutcomesMatchResults /\ OutcomesHaveCauses /\ StatusSound => OutcomesSound
  BY DEF OutcomesSound
<1> QED
  BY <1>1, <1>2, <1>3, <1>4, <1>5, CausesHold, PTL DEF Spec

-----------------------------------------------------------------------------
(* The machine implements the specification of calls: every step of the    *)
(* machine is a step of Calls, or leaves all that Calls speaks of alone.    *)

-----------------------------------------------------------------------------
(* Tables of calls, as the specification of calls sees them *)

\* What is not about calls leaves them as they are.
LEMMA ViewSame ==
  ASSUME TypeOK, OwnersExist, Grows, calls' = calls
  PROVE  CallsView' = CallsView
BY ViewAfter, ViewNow

\* A new status is a new status in the view.
LEMMA ViewOfSetCall ==
  ASSUME CallsOK(calls), NEW c \in DOMAIN calls, NEW s \in CallStatuses
  PROVE  ViewOf(SetCall(c, s)) = Contract!SetStatus(c, s)
<1>1. DOMAIN SetCall(c, s) = DOMAIN calls
  BY DEF SetCall
<1>2. DOMAIN CallsView = DOMAIN calls /\ CallsView = ViewOf(calls)
  BY ViewHas, ViewNow DEF ViewShows
<1>3. ASSUME NEW k \in DOMAIN calls
      PROVE  ViewOf(SetCall(c, s))[k] = Contract!SetStatus(c, s)[k]
  <2>1. CASE k = c
    BY <1>1, <1>2, <2>1 DEF ViewOf, SetCall, Contract!SetStatus, CallsOK
  <2>2. CASE k # c
    BY <1>1, <1>2, <2>2 DEF ViewOf, SetCall, Contract!SetStatus
  <2> QED
    BY <2>1, <2>2
<1> QED
  BY <1>1, <1>2, <1>3 DEF ViewOf, Contract!SetStatus

\* A stop asks the same calls to end in the view.
LEMMA ViewOfCancelLive ==
  ASSUME NEW table, CallsOK(table)
  PROVE  ViewOf(CancelLive(table)) = Contract!CancelLive(ViewOf(table))
<1>1. /\ DOMAIN CancelLive(table) = DOMAIN table
      /\ DOMAIN ViewOf(table) = DOMAIN table
      /\ DOMAIN ViewOf(CancelLive(table)) = DOMAIN table
      /\ DOMAIN Contract!CancelLive(ViewOf(table)) = DOMAIN table
  BY CancelLiveOK DEF ViewOf, Contract!CancelLive
<1>2. ASSUME NEW k \in DOMAIN table
      PROVE  ViewOf(CancelLive(table))[k] = Contract!CancelLive(ViewOf(table))[k]
  BY <1>1 DEF ViewOf, CancelLive, Contract!CancelLive, CallsOK, Live, Contract!Live
<1> QED
  BY <1>1, <1>2 DEF ViewOf, Contract!CancelLive

\* Recording a failure, whatever its policy, is the failure of the contract.
LEMMA ViewOfFail ==
  ASSUME TypeOK, OwnersExist, Grows, NEW failure, NEW policy, NEW table, CallsOK(table),
         DOMAIN table = DOMAIN calls, NEW et, Fail(failure, policy, table, et),
         UNCHANGED <<started, cancelled>>
  PROVE  Contract!Fail(ViewOf(table))
<1>1. failures' # <<>>
  <2>1. IsSequence(failures)
    BY DEF TypeOK
  <2> QED
    BY <2>1 DEF Fail, IsSequence
<1>2. DOMAIN calls' = DOMAIN calls
  BY CancelLiveOK DEF Fail, Stop
<1>3. CallsView' = ViewOf(calls')
  BY <1>2, ViewAfter
<1>4. CASE policy = "stop"
  <2>1. calls' = CancelLive(table) /\ status' = "stopping"
    BY <1>4 DEF Fail, Stop
  <2> QED
    BY <1>1, <1>3, <2>1, ViewOfCancelLive DEF Contract!Fail
<1>5. CASE policy # "stop"
  <2>1. calls' = table /\ UNCHANGED status
    BY <1>5 DEF Fail
  <2> QED
    BY <1>1, <1>3, <2>1 DEF Contract!Fail
<1> QED
  BY <1>4, <1>5

-----------------------------------------------------------------------------
(* Steps *)

\* The step is one of the contract, or none.
Promised == Contract!Next \/ UNCHANGED Contract!machineVars

\* What touches no call, no failure and no part of the execution is no step.
LEMMA NoStep ==
  ASSUME TypeOK, OwnersExist, Grows, UNCHANGED <<status, started, cancelled, calls, failures>>
  PROVE  Promised
BY ViewSame DEF Promised, Contract!machineVars

\* Making a call is a creation.
LEMMA CallIsCreated ==
  ASSUME TypeOK, OwnersExist, Grows, Running, NEW c, c \notin DOMAIN calls,
         calls' = Put(calls, c, NewCall), UNCHANGED <<status, started, cancelled, failures>>
  PROVE  Promised
<1>1. DOMAIN calls' = DOMAIN calls \cup {c} /\ calls'[c] = NewCall
  BY DEF Put
<1>2. ViewShows /\ ViewShows'
  BY ViewHas, PTL
<1>3. CallsView'[c] = [stream |-> CallsView'[c].stream, status |-> "running", yields |-> 0]
  BY <1>1, <1>2 DEF ViewShows, NewCall
<1>4. ASSUME NEW k \in DOMAIN calls
      PROVE  CallsView'[k] = CallsView[k]
  <2>1. k # c /\ k \in DOMAIN calls' /\ calls'[k] = calls[k]
    BY <1>1, <1>4 DEF Put
  <2> QED
    BY <2>1, ViewStays
<1>5. CallsView' = [k \in DOMAIN CallsView \cup {c} |->
        IF k = c THEN [stream |-> CallsView'[c].stream, status |-> "running", yields |-> 0] ELSE CallsView[k]]
  BY <1>1, <1>2, <1>3, <1>4 DEF ViewShows
<1>6. Contract!Running
  BY DEF Running, Contract!Running
<1>7. Contract!Create(c, CallsView'[c].stream)
  BY <1>2, <1>5, <1>6 DEF Contract!Create, ViewShows
<1> QED
  BY <1>1, <1>2, <1>7 DEF Promised, Contract!Next, ViewShows

\* An event of a call is an event of the contract.
LEMMA CallEvents ==
  ASSUME TypeOK, OwnersExist, Grows, NEW c \in DOMAIN calls,
         \/ Fetch(c) \/ Report(c)
         \/ CallFailed(c) \/ CallTimedOut(c) \/ ElementTimedOut(c) \/ Lost(c)
  PROVE  Contract!CallStep(c)
<1>1. CallsOK(calls)
  BY DEF TypeOK
<1>2. /\ c \in DOMAIN CallsView
      /\ CallsView[c].stream = IsStream(c)
      /\ CallsView[c].status = calls[c].status
      /\ CallsView[c].yields = calls[c].yields
      /\ DOMAIN CallsView = DOMAIN calls
  BY ViewNow, ViewHas DEF ViewOf, ViewShows
<1>3. ASSUME NEW s \in CallStatuses, calls' = SetCall(c, s)
      PROVE  CallsView' = Contract!SetStatus(c, s)
  <2>1. CallsView' = ViewOf(calls')
    BY <1>1, <1>3, SetCallOK, ViewAfter
  <2> QED
    BY <1>1, <1>3, <2>1, ViewOfSetCall
<1>4. Running => Contract!Running
  BY DEF Running, Contract!Running
<1>5. CASE Fetch(c)
  <2>1. calls' = SetCall(c, "fetching") /\ UNCHANGED <<status, started, cancelled, failures>>
    BY <1>5 DEF Fetch
  <2>2. Contract!Fetch(c)
    BY <1>2, <1>3, <1>4, <1>5, <2>1 DEF Fetch, Contract!Fetch, CallStatuses, Live
  <2> QED
    BY <2>2 DEF Contract!CallStep
<1>6. CASE CallReturned(c) \/ Ended(c) \/ \E arm \in Arms(c) : Judged(c, arm)
  <2>1. calls' = SetCall(c, "returned") /\ UNCHANGED <<status, started, cancelled, failures>> /\ Running
    BY <1>6 DEF CallReturned, Ended, Judged
  <2>2. calls[c].status = (IF IsStream(c) THEN "fetching" ELSE "running")
    <3>1. ASSUME NEW arm \in Arms(c) PROVE ~IsStream(c)
      BY DEF Arms, IsStream
    <3> QED
      BY <1>6, <3>1 DEF CallReturned, Ended, Judged
  <2>3. Contract!Return(c)
    BY <1>2, <1>3, <1>4, <2>1, <2>2 DEF Contract!Return, CallStatuses
  <2> QED
    BY <2>3 DEF Contract!CallStep
<1>7. CASE Yielded(c)
  <2>1. /\ calls' = [calls EXCEPT ![c] = [status |-> "running", yields |-> @.yields + 1]]
        /\ UNCHANGED <<status, started, cancelled, failures>> /\ Running
        /\ IsStream(c) /\ calls[c].status = "fetching"
    BY <1>7 DEF Yielded
  <2>2. DOMAIN calls' = DOMAIN calls
    BY <2>1
  <2>3. CallsView' = ViewOf(calls')
    BY <2>2, ViewAfter
  <2> DEFINE next == [CallsView EXCEPT ![c] = [stream |-> TRUE, status |-> "running", yields |-> @.yields + 1]]
  <2>4. DOMAIN ViewOf(calls') = DOMAIN calls /\ DOMAIN next = DOMAIN calls 
    BY <1>2, <2>2 DEF ViewOf
  <2>5. ASSUME NEW k \in DOMAIN calls PROVE ViewOf(calls')[k] = next[k]
    <3>1. CASE k = c
      <4>1. calls'[c] = [status |-> "running", yields |-> calls[c].yields + 1]
        BY <2>1
      <4>2. next[c] = [stream |-> TRUE, status |-> "running", yields |-> calls[c].yields + 1]
        BY <1>2
      <4>3. ViewOf(calls')[c] = [stream |-> IsStream(c), status |-> "running", yields |-> calls[c].yields + 1]
        BY <2>2, <4>1 DEF ViewOf
      <4>4. IsStream(c) = TRUE
        BY <2>1 DEF IsStream
      <4> QED
        BY <3>1, <4>2, <4>3, <4>4
    <3>2. CASE k # c
      BY <2>1, <2>2, <3>2, ViewNow DEF ViewOf
    <3> QED
      BY <3>1, <3>2
  <2>6. CallsView' = next
    BY <2>3, <2>4, <2>5 DEF ViewOf
  <2>7. Contract!Yield(c)
    BY <1>2, <1>4, <2>1, <2>6 DEF Contract!Yield
  <2> QED
    BY <2>7 DEF Contract!CallStep
<1>8. ASSUME NEW s \in {"failed", "cancelling", "lost"}, NEW cause, FailCall(c, s, cause)
      PROVE  Contract!Fail(Contract!SetStatus(c, s))
  <2> DEFINE table == SetCall(c, s)
             et == OwnerExecutions(c, "failed")
             failure == FailureAt(c.owner, c.task, cause)
             policy == SpecOf(c).policy
  <2>1. Fail(failure, policy, table, et) /\ UNCHANGED <<started, cancelled>>
    BY <1>8 DEF FailCall
  <2>2. CallsOK(table) /\ DOMAIN table = DOMAIN calls /\ ViewOf(table) = Contract!SetStatus(c, s)
    BY <1>1, SetCallOK, ViewOfSetCall DEF CallStatuses
  <2> HIDE DEF table, et, failure, policy
  <2>3. Contract!Fail(ViewOf(table))
    BY <2>1, <2>2, ViewOfFail
  <2> QED
    BY <2>2, <2>3
<1>9. ASSUME Contract!Going, calls[c].status = "cancelling", CallCancelled(c)
      PROVE  Contract!Terminate(c)
  <2>1. calls' = SetCall(c, "cancelled") /\ UNCHANGED <<status, started, cancelled, failures>>
    BY <1>9 DEF CallCancelled
  <2> QED
    BY <1>2, <1>3, <1>9, <2>1 DEF Contract!Terminate, CallStatuses
<1>10. started /\ status \in {"running", "stopping"} => Contract!Going
  BY DEF Contract!Going
<1>11. CASE Terminated(c)
  BY <1>9, <1>10, <1>11 DEF Terminated, Contract!CallStep, Contract!Lose
<1>12. CASE CallFailed(c)
  BY <1>2, <1>4, <1>8, <1>12 DEF CallFailed, Contract!CallStep, Contract!FailCall, Live, Contract!Live
<1>13. CASE CallTimedOut(c)
  BY <1>2, <1>4, <1>8, <1>13 DEF CallTimedOut, Contract!CallStep, Contract!TimeOut, Live, Contract!Live
<1>14. CASE ElementTimedOut(c)
  BY <1>2, <1>4, <1>8, <1>14 DEF ElementTimedOut, Contract!CallStep, Contract!TimeOut
<1>15. CASE Lost(c)
  <2>1. CASE calls[c].status \in Live /\ FailCall(c, "lost", "lost")
    BY <1>2, <1>8, <1>10, <1>15, <2>1 DEF Lost, Contract!CallStep, Contract!Lose, Live, Contract!Live
  <2>2. CASE calls[c].status = "cancelling" /\ CallCancelled(c)
    BY <1>9, <1>10, <1>15, <2>2 DEF Lost, Contract!CallStep, Contract!Lose
  <2> QED
    BY <1>15, <2>1, <2>2 DEF Lost
<1> QED
  BY <1>5, <1>6, <1>7, <1>11, <1>12, <1>13, <1>14, <1>15 DEF Report

\* A transform that throws is a failure that no call is to blame for.
LEMMA TransformFails ==
  ASSUME TypeOK, OwnersExist, Grows, NEW path, NEW i, NEW source, NEW e, NEW t, NEW r,
         TransformFailed(path, i, source) \/ TaskInputFailed(e, t) \/ TaskOutputFailed(r)
  PROVE  Contract!FailTransform
<1>1. CallsOK(calls) /\ CallsView = ViewOf(calls)
  BY ViewNow DEF TypeOK
<1>2. ASSUME NEW failure, NEW policy, NEW et, Fail(failure, policy, calls, et),
             Running, UNCHANGED <<started, cancelled>>
      PROVE  Contract!FailTransform
  <2>1. Contract!Fail(ViewOf(calls))
    BY <1>1, <1>2, ViewOfFail
  <2> QED
    BY <1>1, <1>2, <2>1 DEF Contract!FailTransform, Running, Contract!Running
<1>3. CASE TransformFailed(path, i, source)
  BY <1>2, <1>3 DEF TransformFailed, Deliverable
<1>4. CASE TaskInputFailed(e, t)
  BY <1>2, <1>4 DEF TaskInputFailed
<1>5. CASE TaskOutputFailed(r)
  BY <1>2, <1>5 DEF TaskOutputFailed, OutputPending
<1> QED
  BY <1>3, <1>4, <1>5

\* The execution concludes only when no call may still be running: the run
\* at the root is complete, so everything that it called is.
LEMMA ConclusionIsQuiet ==
  ASSUME IInv, IInv', Grows, ConcludeRunning \/ ConcludeStopping
  PROVE  Contract!Conclude
<1>1. TypeOK /\ OwnersExist
  BY DEF IInv
<1>2. UNCHANGED <<started, cancelled, calls, failures>> /\ CallsView' = CallsView
  BY <1>1, ViewSame DEF ConcludeRunning, ConcludeStopping
<1>3. ASSUME \A c \in DOMAIN calls : CallEnded(calls[c].status)
      PROVE  Contract!Quiet
  BY <1>3, ViewHas DEF ViewShows, CallEnded, Live, Contract!Quiet, Contract!Unended, Contract!Live
<1>4. CASE ConcludeStopping
  BY <1>2, <1>3, <1>4 DEF ConcludeStopping, Contract!Conclude, Contract!Going
<1>5. CASE ConcludeRunning
  <2>1. started /\ status = "running" /\ runs' = [runs EXCEPT ![Root].complete = TRUE]
    BY <1>5 DEF ConcludeRunning, Running
  <2>2. Root \in DOMAIN runs
    BY <1>1, <2>1 DEF OwnersExist
  <2>3. Root \in DOMAIN runs' /\ runs'[Root].complete
    BY <1>1, <2>1, <2>2 DEF TypeOK
  <2>4. ASSUME NEW c \in DOMAIN calls'
        PROVE  CallEnded(calls'[c].status)
    <3>1. CompleteRunsQuiet'
      BY CompleteIsQuiet, PTL
    <3>2. c.owner.run \in DOMAIN runs /\ IsSequence(c.owner.run)
      BY <1>1, <1>2, OwnersGiveCalls DEF CallFacts, TypeOK
    <3>3. Within(c.owner.run, Root)
      BY <3>2 DEF Within, Root, IsSequence
    <3> QED
      BY <2>3, <3>1, <3>3 DEF CompleteRunsQuiet
  <2>5. Contract!Quiet
    BY <1>2, <1>3, <2>4
  <2> QED
    BY <1>2, <1>5, <2>1, <2>5 DEF ConcludeRunning, Contract!Conclude, Contract!Going
<1> QED
  BY <1>4, <1>5

\* Cancelling, at any time, asks every live call to end.
LEMMA CancelIsCancel ==
  ASSUME IInv, Grows, Cancel
  PROVE  Contract!Cancel
<1>1. TypeOK /\ OwnersExist /\ CallsOK(calls) /\ CallsView = ViewOf(calls)
  BY ViewNow DEF IInv, TypeOK
<1>2. started /\ cancelled' = TRUE /\ status \in {"running", "stopping"} /\ UNCHANGED <<started, failures>>
  BY DEF Cancel
<1>3. status' = "stopping" /\ CallsView' = ViewOf(CancelLive(calls))
  <2>1. CASE status = "running"
    <3>1. status' = "stopping" /\ calls' = CancelLive(calls)
      BY <2>1 DEF Cancel, Stop
    <3> QED
      BY <1>1, <3>1, CancelLiveOK, ViewAfter
  <2>2. CASE status = "stopping"
    <3>1. \A c \in DOMAIN calls : calls[c].status \notin Live
      BY <2>2 DEF IInv, NoLiveWhileStopping
    <3>2. ViewOf(CancelLive(calls)) = ViewOf(calls)
      BY <3>1 DEF CancelLive, ViewOf
    <3> QED
      BY <1>1, <2>2, <3>2, ViewSame DEF Cancel
  <2> QED
    BY <1>2, <2>1, <2>2
<1> QED
  BY <1>1, <1>2, <1>3, ViewOfCancelLive DEF Contract!Cancel, Contract!Going

\* Every step of the machine is one of the contract, or none.
LEMMA StepIsKept ==
  ASSUME IInv, [Next]_vars
  PROVE  Promised
<1>1. TypeOK /\ OwnersExist /\ Grows /\ IInv'
  BY StepKeepsBooks DEF IInv
<1>2. UNCHANGED <<status, started, cancelled, calls, failures>> => Promised
  BY <1>1, NoStep
<1>3. ASSUME NEW c \in DOMAIN calls,
             \/ Fetch(c) \/ Report(c)
             \/ CallFailed(c) \/ CallTimedOut(c) \/ ElementTimedOut(c) \/ Lost(c)
      PROVE  Promised
  <2>1. Contract!CallStep(c) /\ c \in DOMAIN CallsView
    BY <1>1, <1>3, CallEvents, ViewHas DEF ViewShows
  <2> QED
    BY <2>1 DEF Promised, Contract!Next
<1>4. CASE Control
  <2>1. ASSUME NEW path, NEW name, NEW trigger, Invoke(path, name, trigger) PROVE Promised
    BY <1>1, <1>2, <2>1, CallIsCreated DEF Invoke
  <2>2. ASSUME NEW e, NEW t, BeginTask(e, t) PROVE Promised
    BY <1>1, <1>2, <2>2, CallIsCreated DEF BeginTask
  <2>3. ASSUME NEW path, NEW name, NEW i, NEW source, NEW e, NEW t, NEW r,
               \/ Settle(path, name) \/ CloseRun(path) \/ Deliver(path, i, source)
               \/ TaskInput(e, t) \/ TaskOutput(r) \/ CloseExecution(e)
        PROVE  Promised
    <3>1. UNCHANGED <<status, started, cancelled, calls, failures>>
      BY <2>3 DEF Settle, CloseRun, Deliver, TaskInput, TaskOutput, CloseExecution
    <3> QED
      BY <1>2, <3>1
  <2>4. CASE Start
    <3>1. Contract!Start
      BY <1>1, <2>4, ViewSame DEF Start, Contract!Start
    <3> QED
      BY <3>1 DEF Promised, Contract!Next
  <2>5. CASE ConcludeRunning \/ ConcludeStopping
    BY <1>1, <2>5, ConclusionIsQuiet DEF Promised, Contract!Next
  <2> QED
    BY <1>3, <1>4, <2>1, <2>2, <2>3, <2>4, <2>5 DEF Control
<1>5. CASE Environment
  <2>1. ASSUME NEW path, NEW i, NEW source, NEW e, NEW t, NEW r,
               TransformFailed(path, i, source) \/ TaskInputFailed(e, t) \/ TaskOutputFailed(r)
        PROVE  Promised
    BY <1>1, <2>1, TransformFails DEF Promised, Contract!Next
  <2>2. CASE Cancel
    BY <1>1, <2>2, CancelIsCancel DEF Promised, Contract!Next
  <2> QED
    BY <1>3, <1>5, <2>1, <2>2 DEF Environment
<1>6. CASE Done \/ UNCHANGED vars
  BY <1>2, <1>6 DEF Done, vars
<1> QED
  BY <1>3, <1>4, <1>5, <1>6 DEF Next

\* The machine keeps to what it promises its driver, whatever the workflow.
THEOREM MachineImplementsCalls == Spec => ImplementsCalls
<1>1. Init => Contract!Init
  BY ViewHas DEF Init, Contract!Init, ViewShows
<1>2. IInv /\ [Next]_vars => [Contract!Next]_(Contract!machineVars)
  BY StepIsKept DEF Promised
<1> QED
  BY <1>1, <1>2, BooksHold, PTL DEF Spec, ImplementsCalls, Contract!Spec
=============================================================================
