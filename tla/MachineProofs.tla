--------------------------- MODULE MachineProofs ----------------------------
(***************************************************************************)
(* Proofs about Machine, for every valid definition and every set of       *)
(* faults: the types of the state together with the owners of what is in   *)
(* it (TypeCorrect, OwnersAlwaysExist), which are inductive together; that *)
(* a stop is final (StopIsFinal), which also needs that no call is live    *)
(* while an execution is stopping; that a concurrency never exceeds its    *)
(* limit (LimitIsKept); what was accepted from a call                      *)
(* (ResultsAlwaysMatch); what kind of output a placement has; and what the *)
(* status of an owner says of what it owns (Life).                         *)
(*                                                                         *)
(* SlotLimit is not inductive: it counts the calls and the called          *)
(* workflows in flight, while BeginTask looks at slotsHeld, the tasks that *)
(* are active or whose call is being cancelled. As long as the execution   *)
(* is running every task in flight holds a slot (Covered), so the limit    *)
(* bounds the tasks in flight or active (WithinLimit) when one is begun;   *)
(* no other step adds a task to them.                                      *)
(*                                                                         *)
(* What was accepted from a call is what the call answered: the elements   *)
(* of a Stream call are numbered without gaps, and any other call has one  *)
(* result exactly if it returned (ResultsMatchCalls). This is inductive    *)
(* only with what rules out a result that waits for a call that is yet to  *)
(* be made: every result of a call, or of a task, has its call or the run  *)
(* that the task calls (Sourced).                                          *)
(*                                                                         *)
(* The derivation of the kinds reaches a fixpoint: a round only adds, and  *)
(* a set of placements is finite. So a validated workflow has the kinds    *)
(* that its nodes were validated with.                                     *)
(*                                                                         *)
(* Life relates the status of every call, called workflow and concurrency  *)
(* to that of its owner: the owner of a live call is active, that of a     *)
(* call that returned succeeded, and nothing that ended is revived (Kept). *)
(* The last lemmas are about what a driver sees of the table of calls.     *)
(***************************************************************************)
EXTENDS MachineProperties, FiniteSetTheorems, WellFoundedInduction, TLAPS

-----------------------------------------------------------------------------
(* Valid definitions *)

\* The node of a placement has been validated.
LEMMA NodeIsValid ==
  ASSUME NEW id \in DOMAIN WorkflowTable, NEW name \in Placements(WorkflowTable[id])
  PROVE  ValidNode(WorkflowTable, WorkflowTable[id], name, DeriveKinds(WorkflowTable[id]))
BY DefinitionAssumption DEF ValidDefinition, ValidWorkflow, ValidPlacement

\* What a valid concurrency consists of.
LEMMA ConcurrencyIsValid ==
  ASSUME NEW id \in DOMAIN WorkflowTable, NEW name \in Placements(WorkflowTable[id]),
         Node(WorkflowTable[id], name).type = "concurrency"
  PROVE  LET node == Node(WorkflowTable[id], name)
         IN  /\ node.limit \in Nat \ {0}
             /\ IsFiniteSet(DOMAIN node.tasks)
             /\ None \notin DOMAIN node.tasks
             /\ \A t \in DOMAIN node.tasks : ValidBody(WorkflowTable, node.tasks[t].body)
BY NodeIsValid DEF ValidNode, ValidTask

\* A workflow that a placement or a task calls exists.
LEMMA CalleeExists ==
  ASSUME NEW id \in DOMAIN WorkflowTable, NEW name \in Placements(WorkflowTable[id])
  PROVE  LET node == Node(WorkflowTable[id], name)
         IN  /\ node.type = "subworkflow" => node.workflow \in DOMAIN WorkflowTable
             /\ node.type = "concurrency" =>
                  \A t \in DOMAIN node.tasks :
                    node.tasks[t].body.type # "function" => node.tasks[t].body.workflow \in DOMAIN WorkflowTable
BY NodeIsValid, ConcurrencyIsValid DEF ValidNode, ValidBody

-----------------------------------------------------------------------------
(* Paths *)

\* The run that an owner calls has a path from which the owner can be read.
LEMMA ChildPath ==
  ASSUME NEW owner, NEW task, IsSequence(owner.run)
  PROVE  /\ IsSequence(Child(owner, task))
         /\ Child(owner, task) # Root
         /\ RunOwner(Child(owner, task)) = InvocationKey(owner.run, owner.placement, owner.trigger)
         /\ RunTask(Child(owner, task)) = task
<1> DEFINE frame == [placement |-> owner.placement, trigger |-> owner.trigger, task |-> task]
           S == {owner.run[n] : n \in DOMAIN owner.run} \cup {frame}
           path == Child(owner, task)
<1>1. owner.run \in Seq(S) /\ frame \in S
  BY DEF IsSequence
<1>2. path = Append(owner.run, frame)
  BY DEF Child
<1> HIDE DEF S
<1>3. path \in Seq(S) /\ Len(path) = Len(owner.run) + 1 /\ path[Len(path)] = frame
  BY <1>1, <1>2
<1>4. path # <<>>
  BY <1>3
<1>5. SubSeq(path, 1, Len(path) - 1) = owner.run
  BY <1>1, <1>2, <1>3
<1>6. IsSequence(path)
  BY <1>3 DEF IsSequence
<1>7. RunOwner(path) = InvocationKey(owner.run, owner.placement, owner.trigger)
  <2>1. path[Len(path)].placement = owner.placement /\ path[Len(path)].trigger = owner.trigger
    BY <1>3
  <2> QED
    BY <1>5, <2>1 DEF RunOwner
<1>8. RunTask(path) = task
  BY <1>3 DEF RunTask
<1> QED
  BY <1>4, <1>6, <1>7, <1>8 DEF Root

-----------------------------------------------------------------------------
(* Tables: what the updates of Machine do to their types *)

\* Appending to a sequence keeps its elements and adds one at the end.
LEMMA AppendIsSequence ==
  ASSUME NEW s, IsSequence(s), NEW e
  PROVE  /\ IsSequence(Append(s, e))
         /\ DOMAIN Append(s, e) = 1..(Len(s) + 1)
         /\ DOMAIN s = 1..Len(s)
         /\ Len(s) \in Nat
         /\ Append(s, e)[Len(s) + 1] = e
         /\ \A n \in 1..Len(s) : Append(s, e)[n] = s[n]
<1> DEFINE S == {s[n] : n \in DOMAIN s} \cup {e}
<1>1. s \in Seq(S) /\ e \in S
  BY DEF IsSequence
<1> HIDE DEF S
<1> DEFINE t == Append(s, e)
<1>2. /\ t \in Seq(S)
      /\ Len(t) = Len(s) + 1
      /\ t[Len(s) + 1] = e
      /\ \A n \in 1..Len(s) : t[n] = s[n]
  BY <1>1
<1>3. DOMAIN s = 1..Len(s) /\ Len(s) \in Nat /\ DOMAIN t = 1..(Len(s) + 1)
  BY <1>1, <1>2
<1>4. IsSequence(t)
  BY <1>2 DEF IsSequence
<1> QED
  BY <1>2, <1>3, <1>4

\* The tasks of every execution are the same in both tables.
SameTasks(old, new) ==
  /\ DOMAIN new = DOMAIN old
  /\ \A e \in DOMAIN old : DOMAIN new[e].tasks = DOMAIN old[e].tasks

\* MapTasks changes the statuses it is told to and nothing else.
LEMMA MapTasksOK ==
  ASSUME NEW table, ExecutionsOK(table), NEW From, NEW to \in TaskStatuses
  PROVE  /\ ExecutionsOK(MapTasks(table, From, to))
         /\ SameTasks(table, MapTasks(table, From, to))
         /\ \A e \in DOMAIN table : MapTasks(table, From, to)[e].complete = table[e].complete
         /\ \A e \in DOMAIN table : \A t \in DOMAIN table[e].tasks :
              MapTasks(table, From, to)[e].tasks[t] = IF table[e].tasks[t] \in From THEN to ELSE table[e].tasks[t]
BY DEF ExecutionsOK, MapTasks, SameTasks

\* Dropping the tasks not begun keeps the table of executions well typed.
LEMMA DropUnstartedOK ==
  ASSUME NEW table, ExecutionsOK(table)
  PROVE  /\ ExecutionsOK(DropUnstarted(table))
         /\ SameTasks(table, DropUnstarted(table))
BY MapTasksOK DEF DropUnstarted, TaskStatuses, InvocationStatuses

\* Cancelling the live calls changes the status of those calls only.
LEMMA CancelLiveOK ==
  ASSUME NEW table, CallsOK(table)
  PROVE  /\ CallsOK(CancelLive(table))
         /\ DOMAIN CancelLive(table) = DOMAIN table
         /\ \A c \in DOMAIN table :
              CancelLive(table)[c].status = IF table[c].status \in Live THEN "cancelling" ELSE table[c].status
         /\ \A c \in DOMAIN table : table[c].status \notin Live => CancelLive(table)[c] = table[c]
BY DEF CallsOK, CancelLive, CallStatuses

\* A new status of a task keeps the table of executions well typed.
LEMMA SetTaskOK ==
  ASSUME ExecutionsOK(executions), NEW e, NEW t, NEW s \in TaskStatuses
  PROVE  /\ ExecutionsOK(SetTask(e, t, s))
         /\ SameTasks(executions, SetTask(e, t, s))
BY DEF ExecutionsOK, SetTask, SameTasks

\* A new status of a call keeps the table of calls well typed.
LEMMA SetCallOK ==
  ASSUME CallsOK(calls), NEW c, NEW s \in CallStatuses
  PROVE  /\ CallsOK(SetCall(c, s))
         /\ DOMAIN SetCall(c, s) = DOMAIN calls
BY DEF CallsOK, SetCall

\* A new status of an invocation keeps the table of invocations well typed.
LEMMA SetInvocationOK ==
  ASSUME InvocationsOK(invocations), NEW k, NEW s \in InvocationStatuses
  PROVE  /\ InvocationsOK(SetInvocation(k, s))
         /\ DOMAIN SetInvocation(k, s) = DOMAIN invocations
BY DEF InvocationsOK, SetInvocation

-----------------------------------------------------------------------------
(* Owners: whatever a step leaves in the tables keeps its owner *)

\* A step that takes nothing out of the tables that lookups go through.
Grows ==
  /\ \A p \in DOMAIN runs : p \in DOMAIN runs' /\ runs'[p].workflow = runs[p].workflow
  /\ DOMAIN invocations \subseteq DOMAIN invocations'
  /\ \A e \in DOMAIN executions :
       e \in DOMAIN executions' /\ DOMAIN executions'[e].tasks = DOMAIN executions[e].tasks

\* What is looked up through a run that exists stays the same while tables
\* grow.
LEMMA LookupsStay ==
  ASSUME Grows, NEW k, k.run \in DOMAIN runs
  PROVE  /\ k.run \in DOMAIN runs'
         /\ WorkflowOf(k.run)' = WorkflowOf(k.run)
         /\ ConcurrencyOf(k)' = ConcurrencyOf(k)
         /\ \A task : /\ BodyOf(CallKey(k, task))' = BodyOf(CallKey(k, task))
                      /\ SpecOf(CallKey(k, task))' = SpecOf(CallKey(k, task))
BY DEF Grows, WorkflowOf, ConcurrencyOf, PlacementOf, BodyOf, SpecOf, CallKey

\* While tables grow, whatever had an owner has it still.
LEMMA OwnersStay ==
  ASSUME OwnersExist, Grows
  PROVE  /\ \A k \in DOMAIN invocations : InvocationOwned(k)'
         /\ \A e \in DOMAIN executions : ExecutionOwned(e)'
         /\ \A c \in DOMAIN calls : CallOwned(c)'
         /\ \A path \in DOMAIN runs \ {Root} : RunOwned(path)'
<1>1. ASSUME NEW k \in DOMAIN invocations PROVE InvocationOwned(k)'
  <2>1. InvocationOwned(k)
    BY DEF OwnersExist
  <2> QED
    BY <2>1, LookupsStay DEF InvocationOwned
<1>2. ASSUME NEW e \in DOMAIN executions PROVE ExecutionOwned(e)'
  <2>1. ExecutionOwned(e) /\ InvocationOwned(e)
    BY DEF OwnersExist, ExecutionOwned
  <2> QED
    BY <2>1, LookupsStay DEF ExecutionOwned, InvocationOwned, Grows
<1>3. ASSUME NEW owner, NEW task, OwnerExists(owner, task)
      PROVE  /\ OwnerExists(owner, task)'
             /\ owner.run \in DOMAIN runs
             /\ BodyOf(CallKey(owner, task))' = BodyOf(CallKey(owner, task))
  <2>1. InvocationOwned(owner)
    BY <1>3 DEF OwnersExist, OwnerExists
  <2>2. owner.run \in DOMAIN runs
    BY <2>1 DEF InvocationOwned
  <2>3. OwnerExists(owner, task)'
    BY <1>3 DEF OwnerExists, Grows
  <2> QED
    BY <2>2, <2>3, LookupsStay
<1>4. ASSUME NEW c \in DOMAIN calls PROVE CallOwned(c)'
  <2>1. CallOwned(c)
    BY DEF OwnersExist
  <2>2. OwnerExists(c.owner, c.task)' /\ BodyOf(c)' = BodyOf(c)
    BY <2>1, <1>3 DEF CallOwned
  <2> QED
    BY <2>1, <2>2 DEF CallOwned
<1>5. ASSUME NEW path \in DOMAIN runs \ {Root} PROVE RunOwned(path)'
  <2> DEFINE call == CallKey(RunOwner(path), RunTask(path))
  <2>1. RunOwned(path)
    BY DEF OwnersExist
  <2>2. OwnerExists(RunOwner(path), RunTask(path))' /\ BodyOf(call)' = BodyOf(call)
    BY <2>1, <1>3 DEF RunOwned, CallKey
  <2> QED
    BY <2>1, <2>2 DEF RunOwned, CallKey, Grows
<1> QED
  BY <1>1, <1>2, <1>4, <1>5

\* A step after which the tables have the keys they had.
SameKeys ==
  /\ started' = started
  /\ DOMAIN runs' = DOMAIN runs
  /\ \A p \in DOMAIN runs : runs'[p].workflow = runs[p].workflow
  /\ DOMAIN invocations' = DOMAIN invocations
  /\ DOMAIN calls' = DOMAIN calls
  /\ SameTasks(executions, executions')

\* A step that neither adds nor removes keys keeps every owner.
LEMMA OwnersKept ==
  ASSUME OwnersExist, SameKeys
  PROVE  OwnersExist' /\ Grows
<1>1. Grows
  BY DEF SameKeys, SameTasks, Grows
<1> QED
  BY <1>1, OwnersStay DEF OwnersExist, SameKeys, SameTasks

-----------------------------------------------------------------------------
(* Failures and the ends of calls *)

\* The causes of failures.
Causes == {"error", "timeout", "lost", "transform"}

\* Recording a failure keeps the tables well typed, whether or not it stops the
\* execution.
LEMMA FailOK ==
  ASSUME TypeOK, NEW failure, failure.cause \in Causes, NEW policy,
         NEW callTable, CallsOK(callTable), NEW executionTable, ExecutionsOK(executionTable),
         Fail(failure, policy, callTable, executionTable)
  PROVE  /\ CallsOK(calls')
         /\ DOMAIN calls' = DOMAIN callTable
         /\ ExecutionsOK(executions')
         /\ SameTasks(executionTable, executions')
         /\ status' \in Statuses
         /\ IsSequence(failures')
         /\ \A n \in DOMAIN failures' : failures'[n].cause \in Causes
<1>1. IsSequence(failures') /\ \A n \in DOMAIN failures' : failures'[n].cause \in Causes
  BY AppendIsSequence DEF Fail, TypeOK, Causes
<1>2. CASE policy = "stop"
  BY <1>1, <1>2, CancelLiveOK, DropUnstartedOK DEF Fail, Stop, Statuses
<1>3. CASE policy # "stop"
  BY <1>1, <1>3 DEF Fail, TypeOK, SameTasks
<1> QED
  BY <1>2, <1>3

\* A new status of the owner of a call keeps the tables it may be in well
\* typed.
LEMMA OwnerTablesOK ==
  ASSUME TypeOK, NEW call, NEW s \in {"succeeded", "failed", "cancelled"}
  PROVE  /\ InvocationsOK(OwnerInvocations(call, s))
         /\ DOMAIN OwnerInvocations(call, s) = DOMAIN invocations
         /\ ExecutionsOK(OwnerExecutions(call, s))
         /\ SameTasks(executions, OwnerExecutions(call, s))
<1>1. s \in InvocationStatuses /\ s \in TaskStatuses
  BY DEF InvocationStatuses, TaskStatuses
<1>2. InvocationsOK(invocations) /\ ExecutionsOK(executions)
  BY DEF TypeOK
<1> QED
  BY <1>1, <1>2, SetInvocationOK, SetTaskOK DEF OwnerInvocations, OwnerExecutions, SameTasks

\* A failing call keeps the state well typed and the keys the same.
LEMMA FailCallOK ==
  ASSUME TypeOK, NEW call, NEW s \in CallStatuses, NEW cause \in Causes, FailCall(call, s, cause)
  PROVE  TypeOK' /\ SameKeys
<1> DEFINE ct == SetCall(call, s)
           et == OwnerExecutions(call, "failed")
<1>1. CallsOK(ct) /\ DOMAIN ct = DOMAIN calls
  BY SetCallOK DEF TypeOK
<1>2. ExecutionsOK(et) /\ SameTasks(executions, et)
  BY OwnerTablesOK
<1>3. InvocationsOK(invocations') /\ DOMAIN invocations' = DOMAIN invocations
  BY OwnerTablesOK DEF FailCall
<1>4. Fail(FailureAt(call.owner, call.task, cause), SpecOf(call).policy, ct, et)
  BY DEF FailCall
<1>5. FailureAt(call.owner, call.task, cause).cause \in Causes
  BY DEF FailureAt
<1> HIDE DEF ct, et
<1>6. /\ CallsOK(calls')
      /\ DOMAIN calls' = DOMAIN calls
      /\ ExecutionsOK(executions')
      /\ SameTasks(executions, executions')
      /\ status' \in Statuses
      /\ IsSequence(failures')
      /\ \A n \in DOMAIN failures' : failures'[n].cause \in Causes
  <2> DEFINE failure == FailureAt(call.owner, call.task, cause)
             policy == SpecOf(call).policy
  <2> HIDE DEF failure, policy
  <2>1. /\ CallsOK(calls')
        /\ DOMAIN calls' = DOMAIN ct
        /\ ExecutionsOK(executions')
        /\ SameTasks(et, executions')
        /\ status' \in Statuses
        /\ IsSequence(failures')
        /\ \A n \in DOMAIN failures' : failures'[n].cause \in Causes
    BY <1>1, <1>2, <1>4, <1>5, FailOK DEF failure, policy
  <2> QED
    BY <1>1, <1>2, <2>1 DEF SameTasks
<1>7. UNCHANGED <<main, started, cancelled, runs, results, taskResults, deliveries, settled>>
  BY DEF FailCall
<1>8. TypeOK'
  <2>1. main' \in DOMAIN WorkflowTable /\ started' \in BOOLEAN /\ cancelled' \in BOOLEAN
    BY <1>7 DEF TypeOK
  <2>2. \A path \in DOMAIN runs' :
          /\ IsSequence(path)
          /\ runs'[path] \in [workflow: DOMAIN WorkflowTable, complete: BOOLEAN]
    BY <1>7 DEF TypeOK
  <2>3. /\ \A r \in DOMAIN taskResults' : taskResults'[r] \in {"pending", "value", "failed"}
        /\ \A d \in DOMAIN deliveries' : deliveries'[d] \in {"value", "trigger", "failed"}
        /\ \A p \in DOMAIN settled' : settled'[p].outcome \in Outcomes
    BY <1>7 DEF TypeOK
  <2> QED
    BY <1>3, <1>6, <2>1, <2>2, <2>3 DEF TypeOK, Causes
<1> QED
  BY <1>3, <1>6, <1>7, <1>8 DEF SameKeys

\* The end of a cancelled call keeps the state well typed and the keys the
\* same.
LEMMA CallCancelledOK ==
  ASSUME TypeOK, NEW call, CallCancelled(call)
  PROVE  TypeOK' /\ SameKeys
<1>1. CallsOK(calls') /\ DOMAIN calls' = DOMAIN calls
  BY SetCallOK DEF CallCancelled, TypeOK, CallStatuses
<1>2. /\ InvocationsOK(invocations')
      /\ DOMAIN invocations' = DOMAIN invocations
      /\ ExecutionsOK(executions')
      /\ SameTasks(executions, executions')
  <2>1. CASE OwnerStatus(call) = "active"
    BY <2>1, OwnerTablesOK DEF CallCancelled, SettleOwner
  <2>2. CASE OwnerStatus(call) # "active"
    BY <2>2 DEF CallCancelled, TypeOK, SameTasks
  <2> QED
    BY <2>1, <2>2
<1>3. UNCHANGED <<main, status, started, cancelled, runs, results, taskResults, deliveries, settled, failures>>
  BY DEF CallCancelled
<1> QED
  BY <1>1, <1>2, <1>3 DEF TypeOK, SameKeys

\* Accepting a value keeps the results of tasks well typed.
LEMMA AcceptOK ==
  ASSUME TypeOK, NEW call, NEW index, NEW arm, Accept(call, index, arm)
  PROVE  \A r \in DOMAIN taskResults' : taskResults'[r] \in {"pending", "value", "failed"}
<1>1. CASE call.task = None
  BY <1>1 DEF Accept, TypeOK
<1>2. CASE call.task # None
  BY <1>2 DEF Accept, TypeOK, Put
<1> QED
  BY <1>1, <1>2

-----------------------------------------------------------------------------
(* Settlements *)

\* What a Single connection has brought is of one of five kinds.
LEMMA ResolutionKinds ==
  ASSUME NEW path, NEW i
  PROVE  ResolveSingle(path, i).kind \in {"pending", "value", "transformFailed", "skipped", "failure"}
BY DEF ResolveSingle

\* A settlement that is due has one of the four outcomes.
LEMMA SettledOutcomes ==
  ASSUME NEW path, NEW name
  PROVE  \A s \in SettleOutcome(path, name) : s.outcome \in Outcomes
<1> DEFINE shape == Shape(path, name)
<1> HIDE DEF shape
<1>1. \A s \in WaitStreamSettlement(path, shape.index) : s.outcome \in Outcomes
  BY DEF WaitStreamSettlement, Settle1, Aggregate, Outcomes
<1>2. \A s \in MergeSettlement(path, name) : s.outcome \in Outcomes
  BY DEF MergeSettlement, Settle1, Aggregate, Outcomes
<1>3. \A s \in BranchSettlement(path, name, shape) : s.outcome \in Outcomes
  BY ResolutionKinds DEF BranchSettlement, SettleArms, Outcomes
<1>4. \A s \in WorkSettlement(path, name, shape) : s.outcome \in Outcomes
  BY ResolutionKinds DEF WorkSettlement, Settle1, InvocationOutcome, MissingOutcome, Outcomes
<1> QED
  BY <1>1, <1>2, <1>3, <1>4 DEF SettleOutcome, shape

-----------------------------------------------------------------------------
(* Steps that leave the keys of the tables alone *)

\* Steps about one call keep the state well typed and the keys the same.
LEMMA ReportsKeepTypes ==
  ASSUME TypeOK, NEW c,
         \/ Fetch(c) \/ CallReturned(c) \/ Yielded(c) \/ Ended(c) \/ Terminated(c)
         \/ CallFailed(c) \/ CallTimedOut(c) \/ ElementTimedOut(c) \/ Lost(c)
         \/ \E arm \in Arms(c) : Judged(c, arm)
  PROVE  TypeOK' /\ SameKeys
<1>1. CASE Fetch(c)
  <2>1. CallsOK(calls') /\ DOMAIN calls' = DOMAIN calls
    BY <1>1, SetCallOK DEF Fetch, TypeOK, CallStatuses, Live
  <2>2. UNCHANGED <<main, status, started, cancelled, runs, invocations, executions, results, taskResults,
                    deliveries, settled, failures>>
    BY <1>1 DEF Fetch
  <2> QED
    BY <2>1, <2>2 DEF TypeOK, SameKeys, SameTasks
<1>2. CASE CallReturned(c)
  <2>1. CallsOK(calls') /\ DOMAIN calls' = DOMAIN calls
    BY <1>2, SetCallOK DEF CallReturned, TypeOK, CallStatuses
  <2>2. /\ InvocationsOK(invocations')
        /\ DOMAIN invocations' = DOMAIN invocations
        /\ ExecutionsOK(executions')
        /\ SameTasks(executions, executions')
    BY <1>2, OwnerTablesOK DEF CallReturned, SettleOwner
  <2>3. \A r \in DOMAIN taskResults' : taskResults'[r] \in {"pending", "value", "failed"}
    BY <1>2, AcceptOK DEF CallReturned
  <2>4. UNCHANGED <<main, status, started, cancelled, runs, deliveries, settled, failures>>
    BY <1>2 DEF CallReturned
  <2> QED
    BY <2>1, <2>2, <2>3, <2>4 DEF TypeOK, SameKeys
<1>3. CASE Yielded(c)
  <2>1. CallsOK(calls') /\ DOMAIN calls' = DOMAIN calls
    BY <1>3 DEF Yielded, TypeOK, CallsOK, CallStatuses, Live
  <2>2. \A r \in DOMAIN taskResults' : taskResults'[r] \in {"pending", "value", "failed"}
    BY <1>3, AcceptOK DEF Yielded
  <2>3. UNCHANGED <<main, status, started, cancelled, runs, invocations, executions, deliveries, settled,
                    failures>>
    BY <1>3 DEF Yielded
  <2> QED
    BY <2>1, <2>2, <2>3 DEF TypeOK, SameKeys, SameTasks
<1>4. CASE Ended(c)
  <2>1. CallsOK(calls') /\ DOMAIN calls' = DOMAIN calls
    BY <1>4, SetCallOK DEF Ended, TypeOK, CallStatuses
  <2>2. /\ InvocationsOK(invocations')
        /\ DOMAIN invocations' = DOMAIN invocations
        /\ ExecutionsOK(executions')
        /\ SameTasks(executions, executions')
    BY <1>4, OwnerTablesOK DEF Ended, SettleOwner
  <2>3. UNCHANGED <<main, status, started, cancelled, runs, results, taskResults, deliveries, settled, failures>>
    BY <1>4 DEF Ended
  <2> QED
    BY <2>1, <2>2, <2>3 DEF TypeOK, SameKeys
<1>5. CASE Terminated(c)
  BY <1>5, CallCancelledOK DEF Terminated
<1>6. CASE CallFailed(c)
  BY <1>6, FailCallOK DEF CallFailed, CallStatuses, Causes
<1>7. CASE CallTimedOut(c) \/ ElementTimedOut(c)
  BY <1>7, FailCallOK DEF CallTimedOut, ElementTimedOut, CallStatuses, Causes
<1>8. CASE Lost(c)
  BY <1>8, FailCallOK, CallCancelledOK DEF Lost, CallStatuses, Causes
<1>9. ASSUME NEW arm \in Arms(c), Judged(c, arm) PROVE TypeOK' /\ SameKeys
  <2>1. CallsOK(calls') /\ DOMAIN calls' = DOMAIN calls
    BY <1>9, SetCallOK DEF Judged, TypeOK, CallStatuses
  <2>2. InvocationsOK(invocations') /\ DOMAIN invocations' = DOMAIN invocations
    BY <1>9 DEF Judged, TypeOK, InvocationsOK, InvocationStatuses
  <2>3. \A r \in DOMAIN taskResults' : taskResults'[r] \in {"pending", "value", "failed"}
    BY <1>9, AcceptOK DEF Judged
  <2>4. UNCHANGED <<main, status, started, cancelled, runs, executions, deliveries, settled, failures>>
    BY <1>9 DEF Judged
  <2> QED
    BY <2>1, <2>2, <2>3, <2>4 DEF TypeOK, SameKeys, SameTasks
<1> QED
  BY <1>1, <1>2, <1>3, <1>4, <1>5, <1>6, <1>7, <1>8, <1>9

\* Deliveries and the transforms of tasks keep the state well typed and the
\* keys the same.
LEMMA TransformsKeepTypes ==
  ASSUME TypeOK, NEW path, NEW i, NEW source, NEW e, NEW t, NEW r,
         \/ Deliver(path, i, source) \/ TransformFailed(path, i, source)
         \/ TaskInput(e, t) \/ TaskInputFailed(e, t)
         \/ TaskOutput(r) \/ TaskOutputFailed(r)
  PROVE  TypeOK' /\ SameKeys
<1>1. CASE Deliver(path, i, source)
  <2>1. \A d \in DOMAIN deliveries' : deliveries'[d] \in {"value", "trigger", "failed"}
    BY <1>1 DEF Deliver, TypeOK, Put
  <2>2. UNCHANGED <<main, status, started, cancelled, runs, invocations, calls, executions, results,
                    taskResults, settled, failures>>
    BY <1>1 DEF Deliver
  <2> QED
    BY <2>1, <2>2 DEF TypeOK, SameKeys, SameTasks
<1>2. CASE TransformFailed(path, i, source)
  <2> DEFINE target == Edge(WorkflowOf(path), i).target
             failure == FailureAt(SettledKey(path, target), None, "transform")
             policy == PlacementOf(path, target).policy
  <2>1. failure.cause \in Causes
    BY DEF FailureAt, Causes
  <2>2. Fail(failure, policy, calls, executions)
    BY <1>2 DEF TransformFailed
  <2>3. \A d \in DOMAIN deliveries' : deliveries'[d] \in {"value", "trigger", "failed"}
    BY <1>2 DEF TransformFailed, TypeOK, Put
  <2>4. UNCHANGED <<main, started, cancelled, runs, invocations, results, taskResults, settled>>
    BY <1>2 DEF TransformFailed
  <2> HIDE DEF failure, policy
  <2>5. CallsOK(calls) /\ ExecutionsOK(executions)
    BY DEF TypeOK
  <2>6. /\ CallsOK(calls') /\ DOMAIN calls' = DOMAIN calls
        /\ ExecutionsOK(executions') /\ SameTasks(executions, executions')
        /\ status' \in Statuses
        /\ IsSequence(failures') /\ \A n \in DOMAIN failures' : failures'[n].cause \in Causes
    BY <2>1, <2>2, <2>5, FailOK
  <2> QED
    BY <2>3, <2>4, <2>6 DEF TypeOK, SameKeys, Causes
<1>3. CASE TaskInput(e, t)
  <2>1. ExecutionsOK(executions') /\ SameTasks(executions, executions')
    BY <1>3, SetTaskOK DEF TaskInput, TypeOK, TaskStatuses
  <2>2. UNCHANGED <<main, status, started, cancelled, runs, invocations, calls, results, taskResults,
                    deliveries, settled, failures>>
    BY <1>3 DEF TaskInput
  <2> QED
    BY <2>1, <2>2 DEF TypeOK, SameKeys
<1>4. CASE TaskInputFailed(e, t)
  <2> DEFINE failure == FailureAt(e, t, "transform")
             policy == TaskSpec(e, t).policy
             et == SetTask(e, t, "failed")
  <2>1. failure.cause \in Causes
    BY DEF FailureAt, Causes
  <2>2. Fail(failure, policy, calls, et)
    BY <1>4 DEF TaskInputFailed
  <2>3. CallsOK(calls) /\ ExecutionsOK(et) /\ SameTasks(executions, et)
    BY SetTaskOK DEF TypeOK, TaskStatuses, InvocationStatuses
  <2>4. UNCHANGED <<main, started, cancelled, runs, invocations, results, taskResults, deliveries, settled>>
    BY <1>4 DEF TaskInputFailed
  <2> HIDE DEF failure, policy, et
  <2>5. /\ CallsOK(calls') /\ DOMAIN calls' = DOMAIN calls
        /\ ExecutionsOK(executions') /\ SameTasks(et, executions')
        /\ status' \in Statuses
        /\ IsSequence(failures') /\ \A n \in DOMAIN failures' : failures'[n].cause \in Causes
    BY <2>1, <2>2, <2>3, FailOK
  <2>6. SameTasks(executions, executions')
    BY <2>3, <2>5 DEF SameTasks
  <2> QED
    BY <2>4, <2>5, <2>6 DEF TypeOK, SameKeys, Causes
<1>5. CASE TaskOutput(r)
  <2>1. \A x \in DOMAIN taskResults' : taskResults'[x] \in {"pending", "value", "failed"}
    BY <1>5 DEF TaskOutput, TypeOK
  <2>2. UNCHANGED <<main, status, started, cancelled, runs, invocations, calls, executions, deliveries,
                    settled, failures>>
    BY <1>5 DEF TaskOutput
  <2> QED
    BY <2>1, <2>2 DEF TypeOK, SameKeys, SameTasks
<1>6. CASE TaskOutputFailed(r)
  <2> DEFINE failure == FailureAt(r.execution, r.task, "transform")
             policy == TaskSpec(r.execution, r.task).policy
  <2>1. failure.cause \in Causes
    BY DEF FailureAt, Causes
  <2>2. Fail(failure, policy, calls, executions)
    BY <1>6 DEF TaskOutputFailed
  <2>3. \A x \in DOMAIN taskResults' : taskResults'[x] \in {"pending", "value", "failed"}
    BY <1>6 DEF TaskOutputFailed, TypeOK
  <2>4. UNCHANGED <<main, started, cancelled, runs, invocations, results, deliveries, settled>>
    BY <1>6 DEF TaskOutputFailed
  <2> HIDE DEF failure, policy
  <2>5. CallsOK(calls) /\ ExecutionsOK(executions)
    BY DEF TypeOK
  <2>6. /\ CallsOK(calls') /\ DOMAIN calls' = DOMAIN calls
        /\ ExecutionsOK(executions') /\ SameTasks(executions, executions')
        /\ status' \in Statuses
        /\ IsSequence(failures') /\ \A n \in DOMAIN failures' : failures'[n].cause \in Causes
    BY <2>1, <2>2, <2>5, FailOK
  <2> QED
    BY <2>3, <2>4, <2>6 DEF TypeOK, SameKeys, Causes
<1> QED
  BY <1>1, <1>2, <1>3, <1>4, <1>5, <1>6

\* Steps that end a part of the execution keep the state well typed and the
\* keys the same.
LEMMA ClosingKeepsTypes ==
  ASSUME TypeOK, NEW path, NEW name, NEW e,
         \/ Settle(path, name) \/ CloseExecution(e) \/ CloseRun(path)
         \/ ConcludeRunning \/ ConcludeStopping \/ Cancel
  PROVE  TypeOK' /\ SameKeys
<1>1. CASE Settle(path, name)
  <2>1. \A s \in DOMAIN settled' : settled'[s].outcome \in Outcomes
    BY <1>1, SettledOutcomes DEF Settle, TypeOK, Put
  <2>2. UNCHANGED <<main, status, started, cancelled, runs, invocations, calls, executions, taskResults,
                    deliveries, failures>>
    BY <1>1 DEF Settle
  <2> QED
    BY <2>1, <2>2 DEF TypeOK, SameKeys, SameTasks
<1>2. CASE CloseExecution(e)
  <2>1. ExecutionsOK(executions') /\ SameTasks(executions, executions')
    BY <1>2 DEF CloseExecution, TypeOK, ExecutionsOK, SameTasks
  <2>2. InvocationsOK(invocations') /\ DOMAIN invocations' = DOMAIN invocations
    BY <1>2, SetInvocationOK DEF CloseExecution, TypeOK, InvocationStatuses
  <2>3. UNCHANGED <<main, status, started, cancelled, runs, calls, taskResults, deliveries, settled, failures>>
    BY <1>2 DEF CloseExecution
  <2> QED
    BY <2>1, <2>2, <2>3 DEF TypeOK, SameKeys
<1>3. CASE CloseRun(path)
  <2> DEFINE owner == RunOwner(path)
             task == RunTask(path)
             outcome == settled[SettledKey(path, DesignatedOutput(path))].outcome
             reached == IF outcome = "normal" THEN "succeeded" ELSE outcome
  <2>1. reached \in InvocationStatuses /\ reached \in TaskStatuses
    BY <1>3 DEF CloseRun, IsSettled, TypeOK, Outcomes, InvocationStatuses, TaskStatuses
  <2>2. \/ invocations' = SetInvocation(owner, reached) /\ executions' = executions
        \/ invocations' = invocations /\ executions' = SetTask(owner, task, reached)
    BY <1>3 DEF CloseRun
  <2>3. \A r \in DOMAIN taskResults' : taskResults'[r] \in {"pending", "value", "failed"}
    BY <1>3 DEF CloseRun, TypeOK, Put
  <2>4. UNCHANGED <<main, status, started, cancelled, calls, deliveries, settled, failures>>
    BY <1>3 DEF CloseRun
  <2>5. /\ DOMAIN runs' = DOMAIN runs
        /\ \A p \in DOMAIN runs : /\ runs'[p] \in [workflow: DOMAIN WorkflowTable, complete: BOOLEAN]
                                  /\ runs'[p].workflow = runs[p].workflow
    BY <1>3 DEF CloseRun, TypeOK
  <2> HIDE DEF reached, owner, task
  <2>6. /\ InvocationsOK(invocations') /\ DOMAIN invocations' = DOMAIN invocations
        /\ ExecutionsOK(executions') /\ SameTasks(executions, executions')
    BY <2>1, <2>2, SetInvocationOK, SetTaskOK DEF TypeOK, SameTasks
  <2> QED
    BY <2>3, <2>4, <2>5, <2>6 DEF TypeOK, SameKeys
<1>4. CASE ConcludeRunning
  <2>1. /\ DOMAIN runs' = DOMAIN runs
        /\ \A p \in DOMAIN runs : /\ runs'[p] \in [workflow: DOMAIN WorkflowTable, complete: BOOLEAN]
                                  /\ runs'[p].workflow = runs[p].workflow
    BY <1>4 DEF ConcludeRunning, TypeOK
  <2>2. status' \in Statuses
    BY <1>4 DEF ConcludeRunning, Statuses
  <2>3. UNCHANGED <<main, started, cancelled, invocations, calls, executions, results, taskResults,
                    deliveries, settled, failures>>
    BY <1>4 DEF ConcludeRunning
  <2> QED
    BY <2>1, <2>2, <2>3 DEF TypeOK, SameKeys, SameTasks
<1>5. CASE ConcludeStopping
  <2>1. InvocationsOK(invocations') /\ DOMAIN invocations' = DOMAIN invocations
    BY <1>5 DEF ConcludeStopping, TypeOK, InvocationsOK, InvocationStatuses
  <2>2. ExecutionsOK(executions') /\ SameTasks(executions, executions')
    <3>1. ExecutionsOK(DropUnstarted(executions)) /\ SameTasks(executions, DropUnstarted(executions))
      BY DropUnstartedOK DEF TypeOK
    <3>2. "cancelled" \in TaskStatuses
      BY DEF TaskStatuses, InvocationStatuses
    <3> QED
      BY <1>5, <3>1, <3>2, MapTasksOK DEF ConcludeStopping, SameTasks
  <2>3. status' \in Statuses
    BY <1>5 DEF ConcludeStopping, Statuses
  <2>4. UNCHANGED <<main, started, cancelled, runs, calls, results, taskResults, deliveries, settled, failures>>
    BY <1>5 DEF ConcludeStopping
  <2> QED
    BY <2>1, <2>2, <2>3, <2>4 DEF TypeOK, SameKeys
<1>6. CASE Cancel
  <2>1. /\ CallsOK(calls') /\ DOMAIN calls' = DOMAIN calls
        /\ ExecutionsOK(executions') /\ SameTasks(executions, executions')
        /\ status' \in Statuses
    BY <1>6, CancelLiveOK, DropUnstartedOK DEF Cancel, Stop, TypeOK, Statuses, SameTasks
  <2>2. cancelled' \in BOOLEAN /\ UNCHANGED <<main, started, runs, invocations, results, taskResults,
                                              deliveries, settled, failures>>
    BY <1>6 DEF Cancel
  <2> QED
    BY <2>1, <2>2 DEF TypeOK, SameKeys
<1> QED
  BY <1>1, <1>2, <1>3, <1>4, <1>5, <1>6

-----------------------------------------------------------------------------
(* Steps that start a run, an invocation or a task *)

\* A new run is well typed if its workflow exists.
LEMMA NewRunOK ==
  ASSUME NEW workflow \in DOMAIN WorkflowTable
  PROVE  NewRun(workflow) \in [workflow: DOMAIN WorkflowTable, complete: BOOLEAN]
BY DEF NewRun

\* Starting the execution makes the root run, which has no owner.
LEMMA StartKeepsTypes ==
  ASSUME TypeOK, OwnersExist, Start
  PROVE  TypeOK' /\ OwnersExist' /\ Grows
<1>1. Root \notin DOMAIN runs
  BY DEF Start, OwnersExist
<1>2. IsSequence(Root)
  BY DEF Root, IsSequence
<1>3. /\ DOMAIN runs' = DOMAIN runs \cup {Root}
      /\ runs'[Root] = NewRun(main)
      /\ \A p \in DOMAIN runs : runs'[p] = runs[p]
  BY <1>1 DEF Start, Put
<1>4. \A p \in DOMAIN runs' :
        IsSequence(p) /\ runs'[p] \in [workflow: DOMAIN WorkflowTable, complete: BOOLEAN]
  BY <1>2, <1>3, NewRunOK DEF TypeOK
<1>5. /\ started' = TRUE
      /\ UNCHANGED <<main, status, cancelled, invocations, calls, executions, results, taskResults,
                     deliveries, settled, failures>>
  BY DEF Start
<1>6. TypeOK'
  BY <1>4, <1>5 DEF TypeOK
<1>7. Grows
  BY <1>3, <1>5 DEF Grows
<1>8. OwnersExist'
  BY <1>3, <1>5, <1>7, OwnersStay DEF OwnersExist
<1> QED
  BY <1>6, <1>7, <1>8

\* A run that is called now is put where it can be found.
LEMMA CallsRun ==
  ASSUME TypeOK, OwnersExist, NEW owner, NEW task, NEW workflow \in DOMAIN WorkflowTable,
         owner = InvocationKey(owner.run, owner.placement, owner.trigger),
         owner.run \in DOMAIN runs,
         Child(owner, task) \notin DOMAIN runs,
         runs' = Put(runs, Child(owner, task), NewRun(workflow))
  PROVE  /\ DOMAIN runs' = DOMAIN runs \cup {Child(owner, task)}
         /\ Child(owner, task) # Root
         /\ \A p \in DOMAIN runs' :
              IsSequence(p) /\ runs'[p] \in [workflow: DOMAIN WorkflowTable, complete: BOOLEAN]
         /\ \A p \in DOMAIN runs : runs'[p] = runs[p]
         /\ /\ RunOwner(Child(owner, task)) = owner
            /\ RunTask(Child(owner, task)) = task
            /\ runs'[Child(owner, task)].workflow = workflow
<1> DEFINE path == Child(owner, task)
<1>1. IsSequence(owner.run)
  BY DEF TypeOK
<1>2. IsSequence(path) /\ path # Root /\ RunOwner(path) = owner /\ RunTask(path) = task
  BY <1>1, ChildPath
<1>3. /\ DOMAIN runs' = DOMAIN runs \cup {path}
      /\ runs'[path] = NewRun(workflow)
      /\ \A p \in DOMAIN runs : runs'[p] = runs[p]
  BY DEF Put
<1>4. \A p \in DOMAIN runs' :
        IsSequence(p) /\ runs'[p] \in [workflow: DOMAIN WorkflowTable, complete: BOOLEAN]
  BY <1>2, <1>3, NewRunOK DEF TypeOK
<1>5. runs'[path].workflow = workflow
  BY <1>3 DEF NewRun
<1> QED
  BY <1>2, <1>3, <1>4, <1>5

\* A new call is well typed.
LEMMA NewCallOK ==
  ASSUME TypeOK, NEW c, calls' = Put(calls, c, NewCall)
  PROVE  CallsOK(calls') /\ DOMAIN calls' = DOMAIN calls \cup {c}
BY DEF TypeOK, CallsOK, Put, NewCall, CallStatuses, Live

\* An invocation has its placement, and is the owner of what it calls.
LEMMA InvokeKeepsTypes ==
  ASSUME TypeOK, OwnersExist, NEW path \in DOMAIN runs, NEW name \in Placements(WorkflowOf(path)),
         NEW trigger, Invoke(path, name, trigger)
  PROVE  TypeOK' /\ OwnersExist' /\ Grows
<1> DEFINE key  == InvocationKey(path, name, trigger)
           node == PlacementOf(path, name)
           call == CallKey(key, None)
<1>1. key.run = path /\ key.placement = name /\ key.trigger = trigger /\ call.owner = key /\ call.task = None
  BY DEF InvocationKey, CallKey
<1>2. /\ InvocationsOK(invocations')
      /\ DOMAIN invocations' = DOMAIN invocations \cup {key}
  BY DEF Invoke, Put, TypeOK, InvocationsOK, InvocationStatuses
<1>3. UNCHANGED <<main, status, started, cancelled, results, taskResults, deliveries, settled, failures>>
  BY DEF Invoke
<1>4. InvocationOwned(key)
  BY <1>1 DEF InvocationOwned, InvocationKey
<1>5. CASE node.type \in {"function", "branch"}
  <2>1. calls' = Put(calls, call, NewCall) /\ UNCHANGED <<runs, executions>>
    BY <1>5 DEF Invoke
  <2>2. TypeOK'
    BY <1>2, <1>3, <2>1, NewCallOK DEF TypeOK
  <2>3. Grows
    BY <1>2, <2>1 DEF Grows
  <2>4. InvocationOwned(key)'
    BY <1>1, <1>4, <2>1 DEF InvocationOwned, WorkflowOf
  <2>5. CallOwned(call)'
    BY <1>1, <1>2, <1>5, <2>1 DEF CallOwned, OwnerExists, BodyOf, PlacementOf, WorkflowOf
  <2>6. DOMAIN calls' = DOMAIN calls \cup {call}
    BY <2>1, NewCallOK
  <2>7. /\ \A k \in DOMAIN invocations : InvocationOwned(k)'
        /\ \A e \in DOMAIN executions : ExecutionOwned(e)'
        /\ \A c \in DOMAIN calls : CallOwned(c)'
        /\ \A p \in DOMAIN runs \ {Root} : RunOwned(p)'
    BY <2>3, OwnersStay
  <2> HIDE DEF key, call
  <2>8. started' <=> Root \in DOMAIN runs'
    BY <1>3, <2>1 DEF OwnersExist
  <2>9. \A k \in DOMAIN invocations' : InvocationOwned(k)'
    BY <1>2, <2>4, <2>7
  <2>10. \A c \in DOMAIN calls' : CallOwned(c)'
    BY <2>5, <2>6, <2>7
  <2>11. \A e \in DOMAIN executions' : ExecutionOwned(e)'
    BY <2>1, <2>7
  <2>12. \A p \in DOMAIN runs' \ {Root} : RunOwned(p)'
    BY <2>1, <2>7
  <2> QED
    BY <2>2, <2>3, <2>8, <2>9, <2>10, <2>11, <2>12 DEF OwnersExist
<1>6. CASE node.type = "subworkflow"
  <2> DEFINE child == Child(key, None)
  <2>1. /\ child \notin DOMAIN runs
        /\ runs' = Put(runs, child, NewRun(node.workflow))
        /\ UNCHANGED <<calls, executions>>
    BY <1>6 DEF Invoke
  <2>2. node.workflow \in DOMAIN WorkflowTable
    BY <1>6, CalleeExists DEF TypeOK, PlacementOf, WorkflowOf
  <2>3. /\ DOMAIN runs' = DOMAIN runs \cup {child}
        /\ child # Root
        /\ \A p \in DOMAIN runs' :
             IsSequence(p) /\ runs'[p] \in [workflow: DOMAIN WorkflowTable, complete: BOOLEAN]
        /\ \A p \in DOMAIN runs : runs'[p] = runs[p]
        /\ RunOwner(child) = key /\ RunTask(child) = None /\ runs'[child].workflow = node.workflow
    BY <1>1, <2>1, <2>2, CallsRun
  <2>4. TypeOK'
    BY <1>2, <1>3, <2>1, <2>3 DEF TypeOK
  <2>5. Grows
    BY <1>2, <2>1, <2>3 DEF Grows
  <2>6. PlacementOf(path, name)' = node
    BY <2>3 DEF PlacementOf, WorkflowOf
  <2>7. InvocationOwned(key)'
    BY <1>1, <1>4, <2>3 DEF InvocationOwned, WorkflowOf
  <2>8. RunOwned(child)'
    BY <1>1, <1>2, <1>6, <2>3, <2>6 DEF RunOwned, OwnerExists, BodyOf
  <2> QED
    BY <1>2, <1>3, <2>1, <2>3, <2>4, <2>5, <2>7, <2>8, OwnersStay DEF OwnersExist
<1>7. CASE node.type = "concurrency"
  <2> DEFINE init == IF node.input THEN "pending" ELSE "ready"
             execution == [tasks |-> [t \in DOMAIN node.tasks |-> init], complete |-> FALSE]
  <2>1. /\ key \notin DOMAIN executions
        /\ executions' = Put(executions, key, execution)
        /\ UNCHANGED <<calls, runs>>
    BY <1>7 DEF Invoke
  <2>2. execution \in [tasks: [DOMAIN execution.tasks -> TaskStatuses], complete: BOOLEAN]
    BY DEF TaskStatuses
  <2> HIDE DEF execution
  <2>3. /\ ExecutionsOK(executions')
        /\ DOMAIN executions' = DOMAIN executions \cup {key}
        /\ \A e \in DOMAIN executions : executions'[e] = executions[e]
        /\ executions'[key] = execution
    BY <2>1, <2>2 DEF Put, TypeOK, ExecutionsOK
  <2>4. TypeOK'
    BY <1>2, <1>3, <2>1, <2>3 DEF TypeOK
  <2>5. Grows
    BY <1>2, <2>1, <2>3 DEF Grows
  <2>6. InvocationOwned(key)'
    BY <1>1, <1>4, <2>1 DEF InvocationOwned, WorkflowOf
  <2>7. DOMAIN execution.tasks = DOMAIN node.tasks
    BY DEF execution
  <2>8. ExecutionOwned(key)'
    BY <1>1, <1>2, <1>7, <2>1, <2>3, <2>7 DEF ExecutionOwned, ConcurrencyOf, PlacementOf, WorkflowOf
  <2> QED
    BY <1>2, <1>3, <2>1, <2>3, <2>4, <2>5, <2>6, <2>8, OwnersStay DEF OwnersExist
<1> QED
  BY <1>5, <1>6, <1>7 DEF Invoke

\* A task that is begun is the owner of what it calls.
LEMMA BeginTaskKeepsTypes ==
  ASSUME TypeOK, OwnersExist, NEW e \in DOMAIN executions, NEW t \in DOMAIN executions[e].tasks,
         BeginTask(e, t)
  PROVE  TypeOK' /\ OwnersExist' /\ Grows
<1> DEFINE node == ConcurrencyOf(e)
           body == TaskSpec(e, t).body
           call == CallKey(e, t)
           child == Child(e, t)
<1>1. /\ e \in DOMAIN invocations
      /\ node.type = "concurrency"
      /\ DOMAIN executions[e].tasks = DOMAIN node.tasks
      /\ e = InvocationKey(e.run, e.placement, e.trigger)
      /\ e.run \in DOMAIN runs
      /\ e.placement \in Placements(WorkflowOf(e.run))
  BY DEF OwnersExist, ExecutionOwned, InvocationOwned
<1>2. t \in DOMAIN node.tasks /\ node.tasks[t] = TaskSpec(e, t)
  BY <1>1 DEF TaskSpec
<1>3. /\ t # None
      /\ body.type # "function" => body.workflow \in DOMAIN WorkflowTable
  <2>1. runs[e.run].workflow \in DOMAIN WorkflowTable
    BY <1>1 DEF TypeOK
  <2> QED
    BY <1>1, <1>2, <2>1, ConcurrencyIsValid, CalleeExists DEF ConcurrencyOf, PlacementOf, WorkflowOf
<1>4. BodyOf(call) = body
  BY <1>3 DEF BodyOf, CallKey, TaskSpec, ConcurrencyOf
<1>5. call.owner = e /\ call.task = t
  BY DEF CallKey
<1>6. ExecutionsOK(executions') /\ SameTasks(executions, executions')
  BY SetTaskOK DEF BeginTask, TypeOK, TaskStatuses, InvocationStatuses
<1>7. UNCHANGED <<main, status, started, cancelled, invocations, results, taskResults, deliveries, settled,
                  failures>>
  BY DEF BeginTask
<1>8. CASE body.type = "function"
  <2>1. calls' = Put(calls, call, NewCall) /\ UNCHANGED runs
    BY <1>8 DEF BeginTask
  <2>2. CallsOK(calls') /\ DOMAIN calls' = DOMAIN calls \cup {call}
    BY <2>1, NewCallOK
  <2>3. TypeOK'
    BY <1>6, <1>7, <2>1, <2>2 DEF TypeOK
  <2>4. Grows
    BY <1>6, <1>7, <2>1 DEF Grows, SameTasks
  <2>5. CallOwned(call)'
    <3>1. OwnerExists(e, t)'
      BY <1>1, <1>6, <1>7 DEF OwnerExists, SameTasks
    <3>2. BodyOf(call)' = BodyOf(call)
      BY <1>1, <2>4, LookupsStay DEF CallKey
    <3> QED
      BY <1>3, <1>4, <1>5, <1>8, <3>1, <3>2 DEF CallOwned
  <2>6. /\ \A k \in DOMAIN invocations : InvocationOwned(k)'
        /\ \A x \in DOMAIN executions : ExecutionOwned(x)'
        /\ \A c \in DOMAIN calls : CallOwned(c)'
        /\ \A p \in DOMAIN runs \ {Root} : RunOwned(p)'
    BY <2>4, OwnersStay
  <2> HIDE DEF call
  <2>7. (started' <=> Root \in DOMAIN runs') /\ DOMAIN executions' = DOMAIN executions
    BY <1>6, <1>7, <2>1 DEF OwnersExist, SameTasks
  <2>8. \A c \in DOMAIN calls' : CallOwned(c)'
    BY <2>2, <2>5, <2>6
  <2> QED
    BY <1>7, <2>1, <2>3, <2>4, <2>6, <2>7, <2>8 DEF OwnersExist
<1>9. CASE body.type = "subworkflow"
  <2>1. child \notin DOMAIN runs /\ runs' = Put(runs, child, NewRun(body.workflow)) /\ UNCHANGED calls
    BY <1>9 DEF BeginTask
  <2>2. body.workflow \in DOMAIN WorkflowTable
    BY <1>3, <1>9
  <2>3. /\ DOMAIN runs' = DOMAIN runs \cup {child}
        /\ child # Root
        /\ \A p \in DOMAIN runs' :
             IsSequence(p) /\ runs'[p] \in [workflow: DOMAIN WorkflowTable, complete: BOOLEAN]
        /\ \A p \in DOMAIN runs : runs'[p] = runs[p]
        /\ RunOwner(child) = e /\ RunTask(child) = t /\ runs'[child].workflow = body.workflow
    BY <1>1, <2>1, <2>2, CallsRun
  <2>4. TypeOK'
    BY <1>6, <1>7, <2>1, <2>3 DEF TypeOK
  <2>5. Grows
    BY <1>6, <1>7, <2>3 DEF Grows, SameTasks
  <2>6. RunOwned(child)'
    <3>1. OwnerExists(e, t)'
      BY <1>1, <1>6, <1>7 DEF OwnerExists, SameTasks
    <3>2. BodyOf(call)' = BodyOf(call)
      BY <1>1, <2>5, LookupsStay DEF CallKey
    <3> QED
      BY <1>4, <1>5, <1>9, <2>3, <3>1, <3>2 DEF RunOwned
  <2>7. /\ \A k \in DOMAIN invocations : InvocationOwned(k)'
        /\ \A x \in DOMAIN executions : ExecutionOwned(x)'
        /\ \A c \in DOMAIN calls : CallOwned(c)'
        /\ \A p \in DOMAIN runs \ {Root} : RunOwned(p)'
    BY <2>5, OwnersStay
  <2> HIDE DEF child
  <2>8. (started' <=> Root \in DOMAIN runs') /\ DOMAIN executions' = DOMAIN executions
    BY <1>6, <1>7, <2>3 DEF OwnersExist, SameTasks
  <2>9. \A p \in DOMAIN runs' \ {Root} : RunOwned(p)'
    BY <2>3, <2>6, <2>7
  <2> QED
    BY <1>7, <2>1, <2>4, <2>5, <2>7, <2>8, <2>9 DEF OwnersExist
<1> QED
  BY <1>8, <1>9 DEF BeginTask

-----------------------------------------------------------------------------
(* Type correctness *)

\* Every field of the initial state is well typed, and nothing has an owner yet.
LEMMA InitKeepsTypes ==
  ASSUME Init
  PROVE  TypeOK /\ OwnersExist
<1>1. main \in DOMAIN WorkflowTable
  BY DefinitionAssumption DEF Init, ValidDefinition
<1>2. IsSequence(failures)
  BY DEF Init, IsSequence
<1>3. TypeOK
  <2>1. /\ DOMAIN runs = {} /\ DOMAIN taskResults = {} /\ DOMAIN deliveries = {}
        /\ DOMAIN settled = {} /\ DOMAIN failures = {}
    BY DEF Init
  <2>2. InvocationsOK(invocations) /\ CallsOK(calls) /\ ExecutionsOK(executions)
    BY DEF Init, InvocationsOK, CallsOK, ExecutionsOK
  <2>3. status \in Statuses /\ started \in BOOLEAN /\ cancelled \in BOOLEAN
    BY DEF Init, Statuses
  <2> QED
    BY <1>1, <1>2, <2>1, <2>2, <2>3 DEF TypeOK
<1>4. OwnersExist
  BY DEF Init, OwnersExist
<1> QED
  BY <1>3, <1>4

\* Every step keeps the types, the owners and the keys.
LEMMA StepKeepsTypes ==
  ASSUME TypeOK, OwnersExist, [Next]_vars
  PROVE  TypeOK' /\ OwnersExist' /\ Grows
<1>1. CASE Control
  <2>1. CASE Start
    BY <2>1, StartKeepsTypes
  <2>2. ASSUME NEW path \in DOMAIN runs, NEW name \in Placements(WorkflowOf(path)),
               NEW trigger, Invoke(path, name, trigger)
        PROVE  TypeOK' /\ OwnersExist' /\ Grows
    BY <2>2, InvokeKeepsTypes
  <2>3. ASSUME NEW e \in DOMAIN executions, NEW t \in DOMAIN executions[e].tasks, BeginTask(e, t)
        PROVE  TypeOK' /\ OwnersExist' /\ Grows
    BY <2>3, BeginTaskKeepsTypes
  <2>4. ASSUME NEW path, NEW name, NEW e,
               \/ Settle(path, name) \/ CloseExecution(e) \/ CloseRun(path)
               \/ ConcludeRunning \/ ConcludeStopping
        PROVE  TypeOK' /\ OwnersExist' /\ Grows
    BY <2>4, ClosingKeepsTypes, OwnersKept
  <2>5. ASSUME NEW path, NEW i, NEW source, NEW e, NEW t, NEW r,
               Deliver(path, i, source) \/ TaskInput(e, t) \/ TaskOutput(r)
        PROVE  TypeOK' /\ OwnersExist' /\ Grows
    BY <2>5, TransformsKeepTypes, OwnersKept
  <2>6. ASSUME NEW c, Fetch(c)
        PROVE  TypeOK' /\ OwnersExist' /\ Grows
    BY <2>6, ReportsKeepTypes, OwnersKept
  <2> QED
    BY <1>1, <2>1, <2>2, <2>3, <2>4, <2>5, <2>6 DEF Control
<1>2. ASSUME NEW c, Report(c)
      PROVE  TypeOK' /\ OwnersExist' /\ Grows
  BY <1>2, ReportsKeepTypes, OwnersKept DEF Report
<1>3. CASE Environment
  <2>1. ASSUME NEW c, CallFailed(c) \/ CallTimedOut(c) \/ ElementTimedOut(c) \/ Lost(c)
        PROVE  TypeOK' /\ OwnersExist' /\ Grows
    BY <2>1, ReportsKeepTypes, OwnersKept
  <2>2. ASSUME NEW path, NEW i, NEW source, NEW e, NEW t, NEW r,
               TransformFailed(path, i, source) \/ TaskInputFailed(e, t) \/ TaskOutputFailed(r)
        PROVE  TypeOK' /\ OwnersExist' /\ Grows
    BY <2>2, TransformsKeepTypes, OwnersKept
  <2>3. CASE Cancel
    BY <2>3, ClosingKeepsTypes, OwnersKept
  <2> QED
    BY <1>3, <2>1, <2>2, <2>3 DEF Environment
<1>4. CASE UNCHANGED vars
  BY <1>4, OwnersKept DEF vars, TypeOK, SameKeys, SameTasks
<1> QED
  BY <1>1, <1>2, <1>3, <1>4 DEF Next, Done

\* Every field of the state always holds a value of its type.
THEOREM TypeCorrect == Spec => []TypeOK
<1>1. Init => TypeOK /\ OwnersExist
  BY InitKeepsTypes
<1>2. TypeOK /\ OwnersExist /\ [Next]_vars => (TypeOK /\ OwnersExist)'
  BY StepKeepsTypes
<1> QED
  BY <1>1, <1>2, PTL DEF Spec

\* Whatever is in a table has the owner that the code looks up for it, of the
\* kind that it expects: lookups at an operation or a report never fail.
THEOREM OwnersAlwaysExist == Spec => []OwnersExist
<1>1. Init => TypeOK /\ OwnersExist
  BY InitKeepsTypes
<1>2. TypeOK /\ OwnersExist /\ [Next]_vars => (TypeOK /\ OwnersExist)'
  BY StepKeepsTypes
<1> QED
  BY <1>1, <1>2, PTL DEF Spec

-----------------------------------------------------------------------------
(* Stopping *)

\* While an execution is stopping no call is live: what user code still does
\* is waited for, but no answer of it is taken.
NoLiveWhileStopping ==
  status = "stopping" => \A c \in DOMAIN calls : calls[c].status \notin Live

\* A stop puts every live call into the state of being cancelled.
LEMMA StopLeavesNoLive ==
  ASSUME NEW callTable, CallsOK(callTable), NEW executionTable, Stop(callTable, executionTable)
  PROVE  status' = "stopping" /\ \A c \in DOMAIN calls' : calls'[c].status \notin Live
BY CancelLiveOK DEF Stop, Live

\* A failure leaves the status alone or stops the execution.
LEMMA FailStops ==
  ASSUME NEW failure, NEW policy, NEW callTable, CallsOK(callTable), NEW executionTable,
         Fail(failure, policy, callTable, executionTable)
  PROVE  status' = status \/ NoLiveWhileStopping'
BY StopLeavesNoLive DEF Fail, NoLiveWhileStopping

\* A failing call leaves the status alone or stops the execution.
LEMMA FailCallStops ==
  ASSUME TypeOK, NEW call, NEW s \in CallStatuses, NEW cause, FailCall(call, s, cause)
  PROVE  status' = status \/ NoLiveWhileStopping'
<1>1. CallsOK(SetCall(call, s))
  BY SetCallOK DEF TypeOK
<1> QED
  BY <1>1, FailStops DEF FailCall

\* The steps of an execution that is being stopped: nothing else is possible.
LEMMA StoppingSteps ==
  ASSUME status = "stopping", NoLiveWhileStopping, [Next]_vars
  PROVE  \/ ConcludeStopping
         \/ \E c \in DOMAIN calls : calls[c].status = "cancelling" /\ CallCancelled(c)
         \/ Cancel /\ UNCHANGED <<status, calls, executions>>
         \/ UNCHANGED vars
<1>1. ~Running /\ status \notin Terminal
  BY DEF Running, Terminal
<1>2. CASE Control
  <2>1. ~Start
    BY DEF Start
  <2>2. \A path, name, trigger : ~Invoke(path, name, trigger)
    BY <1>1 DEF Invoke
  <2>3. \A path, name : ~Settle(path, name)
    BY <1>1 DEF Settle
  <2>4. \A path : ~CloseRun(path)
    BY <1>1 DEF CloseRun
  <2>5. \A path, i, source : ~Deliver(path, i, source)
    BY <1>1 DEF Deliver, Deliverable
  <2>6. \A e, t : ~TaskInput(e, t) /\ ~BeginTask(e, t)
    BY <1>1 DEF TaskInput, BeginTask
  <2>7. \A r : ~TaskOutput(r)
    BY <1>1 DEF TaskOutput, OutputPending
  <2>8. \A e : ~CloseExecution(e)
    BY <1>1 DEF CloseExecution
  <2>9. \A c : ~Fetch(c)
    BY <1>1 DEF Fetch
  <2>10. ~ConcludeRunning
    BY <1>1 DEF ConcludeRunning
  <2> QED
    BY <1>2, <2>1, <2>2, <2>3, <2>4, <2>5, <2>6, <2>7, <2>8, <2>9, <2>10 DEF Control
<1>3. ASSUME NEW c \in DOMAIN calls, Report(c)
      PROVE  calls[c].status = "cancelling" /\ CallCancelled(c)
  <2>1. ~CallReturned(c) /\ ~Yielded(c) /\ ~Ended(c) /\ \A arm : ~Judged(c, arm)
    BY <1>1 DEF CallReturned, Yielded, Ended, Judged
  <2> QED
    BY <1>3, <2>1 DEF Report, Terminated
<1>4. CASE Environment
  <2>1. \A c : ~CallFailed(c) /\ ~CallTimedOut(c) /\ ~ElementTimedOut(c)
    BY <1>1 DEF CallFailed, CallTimedOut, ElementTimedOut
  <2>2. \A path, i, source : ~TransformFailed(path, i, source)
    BY <1>1 DEF TransformFailed, Deliverable
  <2>3. \A e, t : ~TaskInputFailed(e, t)
    BY <1>1 DEF TaskInputFailed
  <2>4. \A r : ~TaskOutputFailed(r)
    BY <1>1 DEF TaskOutputFailed, OutputPending
  <2>5. \A c \in DOMAIN calls : Lost(c) => calls[c].status = "cancelling" /\ CallCancelled(c)
    BY DEF Lost, NoLiveWhileStopping
  <2>6. Cancel => UNCHANGED <<status, calls, executions>>
    BY DEF Cancel
  <2> QED
    BY <1>4, <2>1, <2>2, <2>3, <2>4, <2>5, <2>6 DEF Environment
<1>5. ~Done \/ UNCHANGED vars
  BY DEF Done
<1> QED
  BY <1>2, <1>3, <1>4, <1>5 DEF Next

\* An execution that has ended does not change any more.
LEMMA TerminalSteps ==
  ASSUME status \in Terminal, [Next]_vars
  PROVE  UNCHANGED vars
<1>1. ~Running /\ status # "stopping" /\ status # "running"
  BY DEF Running, Terminal
<1>2. ~Control
  <2>1. ~Start
    BY <1>1 DEF Start
  <2>2. \A path, name, trigger : ~Invoke(path, name, trigger)
    BY <1>1 DEF Invoke
  <2>3. \A path, name : ~Settle(path, name)
    BY <1>1 DEF Settle
  <2>4. \A path : ~CloseRun(path)
    BY <1>1 DEF CloseRun
  <2>5. \A path, i, source : ~Deliver(path, i, source)
    BY <1>1 DEF Deliver, Deliverable
  <2>6. \A e, t : ~TaskInput(e, t) /\ ~BeginTask(e, t)
    BY <1>1 DEF TaskInput, BeginTask
  <2>7. \A r : ~TaskOutput(r)
    BY <1>1 DEF TaskOutput, OutputPending
  <2>8. \A e : ~CloseExecution(e)
    BY <1>1 DEF CloseExecution
  <2>9. \A c : ~Fetch(c)
    BY <1>1 DEF Fetch
  <2>10. ~ConcludeRunning /\ ~ConcludeStopping
    BY <1>1 DEF ConcludeRunning, ConcludeStopping
  <2> QED
    BY <2>1, <2>2, <2>3, <2>4, <2>5, <2>6, <2>7, <2>8, <2>9, <2>10 DEF Control
<1>3. \A c : ~Report(c)
  <2>1. ASSUME NEW c
        PROVE  ~CallReturned(c) /\ ~Yielded(c) /\ ~Ended(c) /\ ~Terminated(c) /\ \A arm : ~Judged(c, arm)
    BY <1>1 DEF CallReturned, Yielded, Ended, Judged, Terminated
  <2> QED
    BY <2>1 DEF Report
<1>4. ~Environment
  <2>1. \A c : ~CallFailed(c) /\ ~CallTimedOut(c) /\ ~ElementTimedOut(c) /\ ~Lost(c)
    BY <1>1 DEF CallFailed, CallTimedOut, ElementTimedOut, Lost
  <2>2. \A path, i, source : ~TransformFailed(path, i, source)
    BY <1>1 DEF TransformFailed, Deliverable
  <2>3. \A e, t : ~TaskInputFailed(e, t)
    BY <1>1 DEF TaskInputFailed
  <2>4. \A r : ~TaskOutputFailed(r)
    BY <1>1 DEF TaskOutputFailed, OutputPending
  <2>5. ~Cancel
    BY <1>1 DEF Cancel
  <2> QED
    BY <2>1, <2>2, <2>3, <2>4, <2>5 DEF Environment
<1> QED
  BY <1>2, <1>3, <1>4 DEF Next, Done

\* What a call that was being cancelled leaves alone when it ends.
LEMMA CallCancelledKeeps ==
  ASSUME TypeOK, NEW c \in DOMAIN calls, calls[c].status = "cancelling", CallCancelled(c)
  PROVE  /\ UNCHANGED <<status, runs, results, taskResults, deliveries, settled, failures>>
         /\ SameKeys
         /\ \A d \in DOMAIN calls \ {c} : calls'[d] = calls[d]
         /\ calls'[c].status = "cancelled"
<1>1. UNCHANGED <<status, runs, results, taskResults, deliveries, settled, failures>>
  BY DEF CallCancelled
<1>2. SameKeys
  BY CallCancelledOK
<1>3. \A d \in DOMAIN calls \ {c} : calls'[d] = calls[d]
  BY DEF CallCancelled, SetCall
<1>4. calls'[c].status = "cancelled"
  BY DEF CallCancelled, SetCall, TypeOK, CallsOK
<1> QED
  BY <1>1, <1>2, <1>3, <1>4

\* While an execution runs, a step that stops it leaves no call live.
LEMMA RunningSteps ==
  ASSUME TypeOK, status = "running", [Next]_vars
  PROVE  NoLiveWhileStopping'
<1>2. status' = status => NoLiveWhileStopping'
  BY DEF NoLiveWhileStopping
<1>3. CallsOK(calls)
  BY DEF TypeOK
<1>4. CASE Control
  <2>1. Start => status' = status
    BY DEF Start
  <2>2. \A path, name, trigger : Invoke(path, name, trigger) => status' = status
    BY DEF Invoke
  <2>3. \A path, name : Settle(path, name) => status' = status
    BY DEF Settle
  <2>4. \A path : CloseRun(path) => status' = status
    BY DEF CloseRun
  <2>5. \A path, i, source : Deliver(path, i, source) => status' = status
    BY DEF Deliver
  <2>6. \A e, t : TaskInput(e, t) \/ BeginTask(e, t) => status' = status
    BY DEF TaskInput, BeginTask
  <2>7. \A r : TaskOutput(r) => status' = status
    BY DEF TaskOutput
  <2>8. \A e : CloseExecution(e) => status' = status
    BY DEF CloseExecution
  <2>9. \A c : Fetch(c) => status' = status
    BY DEF Fetch
  <2>10. ConcludeRunning => status' # "stopping"
    BY DEF ConcludeRunning
  <2>11. ~ConcludeStopping
    BY DEF ConcludeStopping
  <2>12. status' = status \/ status' # "stopping"
    BY <1>4, <2>1, <2>2, <2>3, <2>4, <2>5, <2>6, <2>7, <2>8, <2>9, <2>10, <2>11 DEF Control
  <2> QED
    BY <1>2, <2>12 DEF NoLiveWhileStopping
<1>5. ASSUME NEW c, Report(c)
      PROVE  status' = status
  BY <1>5 DEF Report, CallReturned, Judged, Yielded, Ended, Terminated, CallCancelled
<1>6. CASE Environment
  <2>1. ASSUME NEW c, CallFailed(c) \/ CallTimedOut(c) \/ ElementTimedOut(c)
        PROVE  NoLiveWhileStopping'
    BY <1>2, <2>1, FailCallStops DEF CallFailed, CallTimedOut, ElementTimedOut, CallStatuses
  <2>2. ASSUME NEW c, Lost(c)
        PROVE  NoLiveWhileStopping'
    BY <1>2, <2>2, FailCallStops DEF Lost, CallCancelled, CallStatuses
  <2>3. ASSUME NEW path, NEW i, NEW source, TransformFailed(path, i, source)
        PROVE  NoLiveWhileStopping'
    <3> DEFINE target == Edge(WorkflowOf(path), i).target
    <3>1. Fail(FailureAt(SettledKey(path, target), None, "transform"), PlacementOf(path, target).policy,
               calls, executions)
      BY <2>3 DEF TransformFailed
    <3> QED
      BY <1>2, <1>3, <3>1, FailStops
  <2>4. ASSUME NEW e, NEW t, TaskInputFailed(e, t)
        PROVE  NoLiveWhileStopping'
    BY <1>2, <1>3, <2>4, FailStops DEF TaskInputFailed
  <2>5. ASSUME NEW r, TaskOutputFailed(r)
        PROVE  NoLiveWhileStopping'
    BY <1>2, <1>3, <2>5, FailStops DEF TaskOutputFailed
  <2>6. Cancel => NoLiveWhileStopping'
    BY <1>3, StopLeavesNoLive DEF Cancel, NoLiveWhileStopping
  <2> QED
    BY <1>6, <2>1, <2>2, <2>3, <2>4, <2>5, <2>6 DEF Environment
<1>7. UNCHANGED vars => NoLiveWhileStopping'
  BY DEF vars, NoLiveWhileStopping
<1> QED
  BY <1>2, <1>4, <1>5, <1>6, <1>7 DEF Next, Done

\* No call of an execution that is stopping becomes live again.
LEMMA StoppingStaysQuiet ==
  ASSUME TypeOK, NoLiveWhileStopping, status = "stopping", [Next]_vars
  PROVE  NoLiveWhileStopping'
<1>1. CASE ConcludeStopping
  BY <1>1 DEF ConcludeStopping, NoLiveWhileStopping
<1>2. ASSUME NEW c \in DOMAIN calls, calls[c].status = "cancelling", CallCancelled(c)
      PROVE  NoLiveWhileStopping'
  BY <1>2, CallCancelledKeeps DEF NoLiveWhileStopping, SameKeys, Live
<1>3. UNCHANGED <<status, calls>> => NoLiveWhileStopping'
  BY DEF NoLiveWhileStopping
<1> QED
  BY <1>1, <1>2, <1>3, StoppingSteps DEF vars

\* No step makes a call live in an execution that is stopping.
LEMMA QuietKept ==
  ASSUME TypeOK, NoLiveWhileStopping, [Next]_vars
  PROVE  NoLiveWhileStopping'
<1>1. CASE status = "running"
  BY <1>1, RunningSteps
<1>2. CASE status = "stopping"
  BY <1>2, StoppingStaysQuiet
<1>3. CASE status \in Terminal
  BY <1>3, TerminalSteps DEF vars, NoLiveWhileStopping
<1> QED
  BY <1>1, <1>2, <1>3 DEF TypeOK, Statuses, Terminal

\* A step of an execution that is stopping or has ended.
LEMMA StoppedStepHolds ==
  ASSUME TypeOK, NoLiveWhileStopping, [Next]_vars
  PROVE  StoppedStep
<1>1. CASE status = "running"
  BY <1>1 DEF StoppedStep
<1>2. CASE status = "stopping"
  <2>1. CASE ConcludeStopping
    <3>1. /\ DOMAIN invocations' = DOMAIN invocations
          /\ DOMAIN executions' = DOMAIN executions
          /\ status' # "running"
      BY <2>1 DEF ConcludeStopping, MapTasks, DropUnstarted
    <3>2. UNCHANGED <<runs, calls, results, taskResults, deliveries, settled, failures>>
      BY <2>1 DEF ConcludeStopping
    <3> QED
      BY <3>1, <3>2 DEF StoppedStep
  <2>2. ASSUME NEW c \in DOMAIN calls, calls[c].status = "cancelling", CallCancelled(c)
        PROVE  StoppedStep
    BY <1>2, <2>2, CallCancelledKeeps DEF StoppedStep, SameKeys, SameTasks, CallEnded
  <2>3. Cancel /\ UNCHANGED <<status, calls, executions>> => StoppedStep
    BY <1>2 DEF Cancel, StoppedStep
  <2>4. UNCHANGED vars => StoppedStep
    BY <1>2 DEF vars, StoppedStep
  <2> QED
    BY <1>2, <2>1, <2>2, <2>3, <2>4, StoppingSteps
<1>3. CASE status \in Terminal
  BY <1>3, TerminalSteps DEF vars, StoppedStep, Terminal
<1> QED
  BY <1>1, <1>2, <1>3 DEF TypeOK, Statuses, Terminal

\* Nothing is started, accepted, delivered, settled or recorded once an
\* execution is stopping, whatever the callbacks that still run report.
THEOREM StopIsFinal == Spec => NothingAfterStop
<1>1. Init => NoLiveWhileStopping
  BY DEF Init, NoLiveWhileStopping
<1>2. TypeOK /\ NoLiveWhileStopping /\ [Next]_vars => NoLiveWhileStopping'
  BY QuietKept
<1>3. TypeOK /\ NoLiveWhileStopping /\ [Next]_vars => [StoppedStep]_vars
  BY StoppedStepHolds
<1> QED
  BY <1>1, <1>2, <1>3, TypeCorrect, PTL DEF Spec, NothingAfterStop

-----------------------------------------------------------------------------
(* Slots *)

\* A call of the task has not ended, or the workflow that it calls has not.
InFlight(e, t) ==
  \/ CallKey(e, t) \in DOMAIN calls /\ ~CallEnded(calls[CallKey(e, t)].status)
  \/ Child(e, t) \in DOMAIN runs /\ ~runs[Child(e, t)].complete

\* The tasks that are in flight or active.
Engaged(e) == {t \in DOMAIN executions[e].tasks : InFlight(e, t) \/ executions[e].tasks[t] = "active"}

\* While the execution is running, a task in flight holds a slot.
Covered ==
  status = "running" =>
    \A e \in DOMAIN executions : \A t \in DOMAIN executions[e].tasks : InFlight(e, t) => HoldsSlot(e, t)

\* A concurrency has no more tasks engaged than its limit.
WithinLimit ==
  \A e \in DOMAIN executions : Cardinality(Engaged(e)) <= ConcurrencyOf(e).limit

-----------------------------------------------------------------------------
(* Tasks *)

\* What the tables say of the tasks of a concurrency: a task is a call of a
\* function or of a workflow, never of both.
TaskFacts ==
  \A e \in DOMAIN executions :
    /\ e.run \in DOMAIN runs
    /\ ConcurrencyOf(e).limit \in Nat \ {0}
    /\ IsFiniteSet(DOMAIN executions[e].tasks)
    /\ \A t \in DOMAIN executions[e].tasks :
         /\ t # None
         /\ Child(e, t) # Root
         /\ RunOwner(Child(e, t)) = e
         /\ RunTask(Child(e, t)) = t
         /\ CallKey(e, t) \in DOMAIN calls => Child(e, t) \notin DOMAIN runs

\* The owners of calls and runs that belong to a task.
OwnerFacts ==
  /\ \A c \in DOMAIN calls : c.task # None => c.owner \in DOMAIN executions /\ c.task \in DOMAIN executions[c.owner].tasks
  /\ \A p \in DOMAIN runs \ {Root} :
       RunTask(p) # None => RunOwner(p) \in DOMAIN executions /\ RunTask(p) \in DOMAIN executions[RunOwner(p)].tasks

\* The facts about tasks follow from the types and the owners.
LEMMA OwnersGiveTasks == TypeOK /\ OwnersExist => TaskFacts /\ OwnerFacts
<1> SUFFICES ASSUME TypeOK, OwnersExist
             PROVE  TaskFacts /\ OwnerFacts
  OBVIOUS
<1>1. ASSUME NEW e \in DOMAIN executions
      PROVE  /\ e.run \in DOMAIN runs
             /\ IsSequence(e.run)
             /\ e = InvocationKey(e.run, e.placement, e.trigger)
             /\ ConcurrencyOf(e).limit \in Nat \ {0}
             /\ IsFiniteSet(DOMAIN executions[e].tasks)
             /\ None \notin DOMAIN executions[e].tasks
  <2>1. ExecutionOwned(e) /\ InvocationOwned(e)
    BY DEF OwnersExist, ExecutionOwned
  <2>2. e.run \in DOMAIN runs /\ IsSequence(e.run) /\ runs[e.run].workflow \in DOMAIN WorkflowTable
    BY <2>1 DEF InvocationOwned, TypeOK
  <2>3. e = InvocationKey(e.run, e.placement, e.trigger)
    BY <2>1 DEF InvocationOwned
  <2> DEFINE node == Node(WorkflowTable[runs[e.run].workflow], e.placement)
  <2>4. ConcurrencyOf(e) = node /\ node.type = "concurrency"
        /\ e.placement \in Placements(WorkflowTable[runs[e.run].workflow])
    BY <2>1 DEF ExecutionOwned, InvocationOwned, ConcurrencyOf, PlacementOf, WorkflowOf
  <2>5. /\ node.limit \in Nat \ {0}
        /\ IsFiniteSet(DOMAIN node.tasks)
        /\ None \notin DOMAIN node.tasks
    BY <2>2, <2>4, ConcurrencyIsValid
  <2>6. DOMAIN executions[e].tasks = DOMAIN node.tasks
    BY <2>1, <2>4 DEF ExecutionOwned
  <2> QED
    BY <2>2, <2>3, <2>4, <2>5, <2>6
<1>2. ASSUME NEW e \in DOMAIN executions, NEW t \in DOMAIN executions[e].tasks
      PROVE  /\ t # None
             /\ Child(e, t) # Root
             /\ RunOwner(Child(e, t)) = e
             /\ RunTask(Child(e, t)) = t
             /\ CallKey(e, t) \in DOMAIN calls => Child(e, t) \notin DOMAIN runs
  <2>1. t # None
    BY <1>1
  <2>2. /\ Child(e, t) # Root
        /\ RunOwner(Child(e, t)) = e
        /\ RunTask(Child(e, t)) = t
    BY <1>1, ChildPath
  <2>3. ASSUME CallKey(e, t) \in DOMAIN calls, Child(e, t) \in DOMAIN runs
        PROVE  FALSE
    <3>1. CallOwned(CallKey(e, t)) /\ RunOwned(Child(e, t))
      BY <2>2, <2>3 DEF OwnersExist
    <3>2. BodyOf(CallKey(e, t)).type = "function"
      BY <2>1, <3>1 DEF CallOwned, CallKey
    <3>3. BodyOf(CallKey(e, t)).type = "subworkflow"
      BY <2>2, <3>1 DEF RunOwned
    <3> QED
      BY <3>2, <3>3
  <2> QED
    BY <2>1, <2>2, <2>3
<1>3. TaskFacts
  BY <1>1, <1>2 DEF TaskFacts
<1>4. OwnerFacts
  <2>1. \A c \in DOMAIN calls : OwnerExists(c.owner, c.task)
    BY DEF OwnersExist, CallOwned
  <2>2. \A p \in DOMAIN runs \ {Root} : OwnerExists(RunOwner(p), RunTask(p))
    BY DEF OwnersExist, RunOwned, CallKey
  <2> QED
    BY <2>1, <2>2 DEF OwnerFacts, OwnerExists
<1> QED
  BY <1>3, <1>4

-----------------------------------------------------------------------------
(* Steps that engage no task *)

\* In the table given, no call of a task is new or revived.
CallsCalm(new) ==
  \A c \in DOMAIN new : c.task # None =>
    /\ c \in DOMAIN calls
    /\ CallEnded(calls[c].status) => CallEnded(new[c].status)
\* In the table given, no run that a task calls is new or open again.
RunsCalm(new) ==
  \A p \in DOMAIN new \ {Root} : RunTask(p) # None =>
    /\ p \in DOMAIN runs
    /\ runs[p].complete => new[p].complete
\* In the table given, no task is active that was not.
TasksCalm(new) ==
  \A e \in DOMAIN new : \A t \in DOMAIN new[e].tasks :
    new[e].tasks[t] = "active" =>
      e \in DOMAIN executions /\ t \in DOMAIN executions[e].tasks /\ executions[e].tasks[t] = "active"

\* No call of a task, and no run that a task calls, is started or revived,
\* and no task becomes active.
Calm == CallsCalm(calls') /\ RunsCalm(runs') /\ TasksCalm(executions')

\* A calm step adds nothing to the tasks engaged.
LEMMA CalmEngagesNone ==
  ASSUME TypeOK, OwnersExist, TypeOK', OwnersExist', Calm,
         NEW e \in DOMAIN executions', NEW t \in DOMAIN executions'[e].tasks
  PROVE  /\ InFlight(e, t)' => e \in DOMAIN executions /\ t \in DOMAIN executions[e].tasks /\ InFlight(e, t)
         /\ t \in Engaged(e)' => e \in DOMAIN executions /\ t \in Engaged(e)
<1>1. TaskFacts' /\ OwnerFacts
  BY OwnersGiveTasks, PTL
<1>2. t # None /\ Child(e, t) # Root /\ RunOwner(Child(e, t)) = e /\ RunTask(Child(e, t)) = t
  BY <1>1 DEF TaskFacts
<1> DEFINE call == CallKey(e, t)
           child == Child(e, t)
<1>3. call.owner = e /\ call.task = t
  BY DEF CallKey
<1> HIDE DEF call, child
<1>4. ASSUME call \in DOMAIN calls', ~CallEnded(calls'[call].status)
      PROVE  /\ e \in DOMAIN executions /\ t \in DOMAIN executions[e].tasks
             /\ call \in DOMAIN calls /\ ~CallEnded(calls[call].status)
  <2>1. call \in DOMAIN calls /\ ~CallEnded(calls[call].status)
    BY <1>2, <1>3, <1>4 DEF Calm, CallsCalm
  <2> QED
    BY <1>1, <1>2, <1>3, <2>1 DEF OwnerFacts
<1>5. ASSUME child \in DOMAIN runs', ~runs'[child].complete
      PROVE  /\ e \in DOMAIN executions /\ t \in DOMAIN executions[e].tasks
             /\ child \in DOMAIN runs /\ ~runs[child].complete
  <2>1. child \in DOMAIN runs /\ ~runs[child].complete
    BY <1>2, <1>5 DEF Calm, RunsCalm, child
  <2> QED
    BY <1>1, <1>2, <2>1 DEF OwnerFacts, child
<1>6. InFlight(e, t)' => e \in DOMAIN executions /\ t \in DOMAIN executions[e].tasks /\ InFlight(e, t)
  BY <1>4, <1>5 DEF InFlight, call, child
<1>7. t \in Engaged(e)' => e \in DOMAIN executions /\ t \in Engaged(e)
  BY <1>6 DEF Engaged, Calm, TasksCalm
<1> QED
  BY <1>6, <1>7

\* A calm step keeps the tasks engaged within the limit.
LEMMA CalmKeepsLimit ==
  ASSUME TypeOK, OwnersExist, TypeOK', OwnersExist', Grows, Calm, WithinLimit
  PROVE  WithinLimit'
<1> SUFFICES ASSUME NEW e \in DOMAIN executions'
             PROVE  Cardinality(Engaged(e)') <= ConcurrencyOf(e)'.limit
  BY DEF WithinLimit
<1>1. TaskFacts /\ TaskFacts'
  BY OwnersGiveTasks, PTL
<1>2. CASE e \in DOMAIN executions
  <2>1. Engaged(e)' \subseteq Engaged(e)
    BY CalmEngagesNone DEF Engaged
  <2>2. ConcurrencyOf(e)' = ConcurrencyOf(e) /\ ConcurrencyOf(e).limit \in Nat
    BY <1>1, <1>2, LookupsStay DEF TaskFacts
  <2>3. IsFiniteSet(Engaged(e))
    BY <1>1, <1>2, FS_Subset DEF TaskFacts, Engaged
  <2>4. Cardinality(Engaged(e)') <= Cardinality(Engaged(e)) /\ IsFiniteSet(Engaged(e)')
    BY <2>1, <2>3, FS_Subset
  <2>5. Cardinality(Engaged(e)') \in Nat /\ Cardinality(Engaged(e)) \in Nat
    BY <2>3, <2>4, FS_CardinalityType
  <2>6. Cardinality(Engaged(e)) <= ConcurrencyOf(e).limit
    BY <1>2 DEF WithinLimit
  <2> QED
    BY <2>2, <2>4, <2>5, <2>6
<1>3. CASE e \notin DOMAIN executions
  <2>1. Engaged(e)' = {}
    BY <1>3, CalmEngagesNone DEF Engaged
  <2>2. Cardinality(Engaged(e)') = 0
    BY <2>1, FS_EmptySet
  <2> QED
    BY <1>1, <2>2 DEF TaskFacts
<1> QED
  BY <1>2, <1>3

-----------------------------------------------------------------------------
(* Steps that release the slot of no task in flight *)

\* A task stops being active only if its call has ended or is being
\* cancelled, or the run it called is complete.
TasksEndLast ==
  \A e \in DOMAIN executions : \A t \in DOMAIN executions[e].tasks :
    executions[e].tasks[t] = "active" /\ executions'[e].tasks[t] # "active" =>
      \/ CallKey(e, t) \in DOMAIN calls' /\ calls'[CallKey(e, t)].status \notin Live
      \/ Child(e, t) \in DOMAIN runs' /\ runs'[Child(e, t)].complete
\* A call that is being cancelled ends, or goes on being cancelled.
CancellingEnds ==
  \A c \in DOMAIN calls : calls[c].status = "cancelling" =>
    c \in DOMAIN calls' /\ calls'[c].status \notin Live
\* Both: no task in flight loses its slot.
Orderly == TasksEndLast /\ CancellingEnds

\* A calm and orderly step leaves every task in flight with its slot.
LEMMA OrderlyKeepsCovered ==
  ASSUME TypeOK, OwnersExist, TypeOK', OwnersExist', Calm, Orderly, Covered, status = "running"
  PROVE  Covered'
<1> SUFFICES ASSUME NEW e \in DOMAIN executions', NEW t \in DOMAIN executions'[e].tasks, InFlight(e, t)'
             PROVE  HoldsSlot(e, t)'
  BY DEF Covered
<1> DEFINE call == CallKey(e, t)
           child == Child(e, t)
<1>1. TaskFacts'
  BY OwnersGiveTasks, PTL
<1>2. e \in DOMAIN executions /\ t \in DOMAIN executions[e].tasks /\ InFlight(e, t)
  BY CalmEngagesNone
<1>3. HoldsSlot(e, t)
  BY <1>2 DEF Covered
<1>4. call \in DOMAIN calls' => child \notin DOMAIN runs'
  BY <1>1 DEF TaskFacts
<1> HIDE DEF call, child
<1>5. ASSUME call \in DOMAIN calls', calls'[call].status \notin Live
      PROVE  HoldsSlot(e, t)'
  BY <1>4, <1>5 DEF InFlight, HoldsSlot, CallEnded, call, child
<1>6. CASE executions[e].tasks[t] = "active"
  <2>1. CASE executions'[e].tasks[t] = "active"
    BY <2>1 DEF HoldsSlot
  <2>2. CASE child \in DOMAIN runs' /\ runs'[child].complete
    BY <1>4, <2>2 DEF InFlight, call, child
  <2> QED
    BY <1>2, <1>5, <1>6, <2>1, <2>2 DEF Orderly, TasksEndLast, call, child
<1>7. CASE call \in DOMAIN calls /\ calls[call].status = "cancelling"
  BY <1>5, <1>7 DEF Orderly, CancellingEnds
<1> QED
  BY <1>3, <1>6, <1>7 DEF HoldsSlot, call

-----------------------------------------------------------------------------
(* The steps one by one *)

\* Tables that do not change are calm.
LEMMA SameTablesCalm ==
  /\ CallsCalm(calls)
  /\ RunsCalm(runs)
  /\ TasksCalm(executions)
BY DEF CallsCalm, RunsCalm, TasksCalm

\* A new status of a task other than active is calm, and only that task gets
\* it.
LEMMA SetTaskCalm ==
  ASSUME ExecutionsOK(executions), NEW e, NEW t, NEW s \in TaskStatuses, s # "active"
  PROVE  /\ TasksCalm(SetTask(e, t, s))
         /\ \A x \in DOMAIN executions : \A u \in DOMAIN executions[x].tasks :
              SetTask(e, t, s)[x].tasks[u] = IF x = e /\ u = t THEN s ELSE executions[x].tasks[u]
BY DEF ExecutionsOK, SetTask, TasksCalm

\* A new status of a call that has not ended is calm, and only that call gets
\* it.
LEMMA SetCallCalm ==
  ASSUME CallsOK(calls), NEW c \in DOMAIN calls, ~CallEnded(calls[c].status), NEW s \in CallStatuses
  PROVE  /\ CallsCalm(SetCall(c, s))
         /\ SetCall(c, s)[c].status = s
         /\ \A d \in DOMAIN calls \ {c} : SetCall(c, s)[d] = calls[d]
BY DEF CallsOK, SetCall, CallsCalm

\* Stopping the execution is calm.
LEMMA StopCalm ==
  ASSUME NEW callTable, CallsOK(callTable), CallsCalm(callTable),
         NEW executionTable, ExecutionsOK(executionTable), TasksCalm(executionTable),
         Stop(callTable, executionTable)
  PROVE  CallsCalm(calls') /\ TasksCalm(executions') /\ status' = "stopping"
<1>1. CallsCalm(CancelLive(callTable))
  BY CancelLiveOK DEF CallsCalm, CallEnded
<1>2. TasksCalm(DropUnstarted(executionTable))
  <2> DEFINE dropped == MapTasks(executionTable, {"pending", "ready"}, "notStarted")
  <2>1. "notStarted" \in TaskStatuses
    BY DEF TaskStatuses
  <2>2. /\ SameTasks(executionTable, dropped)
        /\ \A e \in DOMAIN executionTable : \A t \in DOMAIN executionTable[e].tasks :
             dropped[e].tasks[t] = IF executionTable[e].tasks[t] \in {"pending", "ready"} THEN "notStarted"
                                   ELSE executionTable[e].tasks[t]
    BY <2>1, MapTasksOK
  <2> HIDE DEF dropped
  <2>3. TasksCalm(dropped)
    BY <2>2 DEF TasksCalm, SameTasks
  <2> QED
    BY <2>3 DEF DropUnstarted, dropped
<1> QED
  BY <1>1, <1>2 DEF Stop

\* Recording a failure is calm, and adds nothing while the execution goes on.
LEMMA FailCalm ==
  ASSUME NEW failure, NEW policy,
         NEW callTable, CallsOK(callTable), CallsCalm(callTable),
         NEW executionTable, ExecutionsOK(executionTable), TasksCalm(executionTable),
         Fail(failure, policy, callTable, executionTable)
  PROVE  /\ CallsCalm(calls') /\ TasksCalm(executions')
         /\ status' = "running" => calls' = callTable /\ executions' = executionTable
BY StopCalm DEF Fail

\* The end of a call, or of waiting for it, with that of its task.
LEMMA EndOfCall ==
  ASSUME TypeOK, OwnersExist, NEW c \in DOMAIN calls, ~CallEnded(calls[c].status),
         NEW s \in CallStatuses \ Live, NEW x \in TaskStatuses, x # "active",
         calls' = SetCall(c, s), runs' = runs,
         executions' = executions \/ executions' = OwnerExecutions(c, x)
  PROVE  Orderly
<1>1. c = CallKey(c.owner, c.task)
  BY DEF OwnersExist, CallOwned
<1>2. /\ DOMAIN calls' = DOMAIN calls
      /\ calls'[c].status = s
      /\ \A d \in DOMAIN calls \ {c} : calls'[d] = calls[d]
  BY SetCallCalm, SetCallOK DEF TypeOK
<1>3. CancellingEnds
  BY <1>2 DEF CancellingEnds, Live
<1>4. TasksEndLast
  <2> SUFFICES ASSUME NEW e \in DOMAIN executions, NEW t \in DOMAIN executions[e].tasks,
                      executions[e].tasks[t] = "active", executions'[e].tasks[t] # "active"
               PROVE  CallKey(e, t) \in DOMAIN calls' /\ calls'[CallKey(e, t)].status \notin Live
    BY DEF TasksEndLast
  <2>1. executions' = SetTask(c.owner, c.task, x)
    BY DEF OwnerExecutions
  <2>2. e = c.owner /\ t = c.task
    BY <2>1, SetTaskCalm DEF TypeOK
  <2> QED
    BY <1>1, <1>2, <2>2
<1> QED
  BY <1>3, <1>4 DEF Orderly

\* What every step but BeginTask does to the slots.
SlotStep == Calm /\ (status' = "running" => Orderly)

\* Steps that leave calls, tasks and runs as they are.
LEMMA UnrelatedStep ==
  ASSUME UNCHANGED <<runs, calls, executions>>
  PROVE  SlotStep
BY SameTablesCalm DEF SlotStep, Calm, Orderly, TasksEndLast, CancellingEnds, Live

\* A call that fails, times out or is lost keeps the slot of its task until it
\* ends.
LEMMA FailCallStep ==
  ASSUME TypeOK, OwnersExist, NEW c \in DOMAIN calls, ~CallEnded(calls[c].status),
         NEW s \in CallStatuses \ Live, NEW cause, FailCall(c, s, cause)
  PROVE  SlotStep
<1> DEFINE et == OwnerExecutions(c, "failed")
<1>1. "failed" \in TaskStatuses /\ "failed" # "active"
  BY DEF TaskStatuses, InvocationStatuses
<1>2. ExecutionsOK(et) /\ TasksCalm(et)
  BY <1>1, SetTaskOK, SetTaskCalm, SameTablesCalm DEF TypeOK, OwnerExecutions
<1>3. CallsOK(SetCall(c, s)) /\ CallsCalm(SetCall(c, s))
  BY SetCallOK, SetCallCalm DEF TypeOK
<1>4. Fail(FailureAt(c.owner, c.task, cause), SpecOf(c).policy, SetCall(c, s), et) /\ runs' = runs
  BY DEF FailCall
<1>5. /\ CallsCalm(calls') /\ TasksCalm(executions')
      /\ status' = "running" => calls' = SetCall(c, s) /\ executions' = et
  <2> HIDE DEF et
  <2> QED
    BY <1>2, <1>3, <1>4, FailCalm
<1>6. Calm
  BY <1>4, <1>5, SameTablesCalm DEF Calm
<1>7. status' = "running" => Orderly
  BY <1>1, <1>4, <1>5, EndOfCall
<1> QED
  BY <1>6, <1>7 DEF SlotStep

\* The end of a cancelled call releases the slot of its task only.
LEMMA CallCancelledStep ==
  ASSUME TypeOK, OwnersExist, NEW c \in DOMAIN calls, calls[c].status = "cancelling", CallCancelled(c)
  PROVE  SlotStep
<1>1. "cancelled" \in TaskStatuses /\ "cancelled" \in CallStatuses \ Live /\ ~CallEnded(calls[c].status)
  BY DEF TaskStatuses, InvocationStatuses, CallStatuses, Live, CallEnded
<1>2. calls' = SetCall(c, "cancelled") /\ runs' = runs
  BY DEF CallCancelled
<1>3. executions' = executions \/ executions' = OwnerExecutions(c, "cancelled")
  BY DEF CallCancelled, SettleOwner
<1>4. CallsCalm(calls')
  BY <1>1, <1>2, SetCallCalm DEF TypeOK
<1>5. TasksCalm(executions')
  BY <1>1, <1>3, SetTaskCalm, SameTablesCalm DEF OwnerExecutions, TypeOK
<1>6. Orderly
  BY <1>1, <1>2, <1>3, EndOfCall
<1> QED
  BY <1>2, <1>4, <1>5, <1>6, SameTablesCalm DEF SlotStep, Calm

\* Every step about one call is a slot step.
LEMMA ReportStep ==
  ASSUME TypeOK, OwnersExist, NEW c \in DOMAIN calls,
         \/ Fetch(c) \/ CallReturned(c) \/ Yielded(c) \/ Ended(c) \/ Terminated(c)
         \/ CallFailed(c) \/ CallTimedOut(c) \/ ElementTimedOut(c) \/ Lost(c)
         \/ \E arm \in Arms(c) : Judged(c, arm)
  PROVE  SlotStep
<1>1. CASE Fetch(c)
  <2>1. calls' = SetCall(c, "fetching") /\ UNCHANGED <<runs, executions>> /\ calls[c].status = "running"
    BY <1>1 DEF Fetch
  <2>2. "fetching" \in CallStatuses /\ ~CallEnded(calls[c].status)
    BY <2>1 DEF CallStatuses, Live, CallEnded
  <2>3. CallsCalm(calls')
    BY <2>1, <2>2, SetCallCalm DEF TypeOK
  <2>4. Orderly
    BY <2>1, <2>2, SetCallCalm, SetCallOK DEF TypeOK, Orderly, TasksEndLast, CancellingEnds, Live
  <2> QED
    BY <2>1, <2>3, <2>4, SameTablesCalm DEF SlotStep, Calm
<1>2. CASE Yielded(c)
  <2>1. /\ calls' = [calls EXCEPT ![c] = [status |-> "running", yields |-> @.yields + 1]]
        /\ UNCHANGED <<runs, executions>>
        /\ calls[c].status = "fetching"
    BY <1>2 DEF Yielded
  <2>2. CallsCalm(calls')
    BY <2>1 DEF CallsCalm, CallEnded, Live
  <2>3. Orderly
    BY <2>1 DEF Orderly, TasksEndLast, CancellingEnds, Live
  <2> QED
    BY <2>1, <2>2, <2>3, SameTablesCalm DEF SlotStep, Calm
<1>3. ASSUME \/ CallReturned(c) \/ Ended(c) \/ \E arm \in Arms(c) : Judged(c, arm)
      PROVE  SlotStep
  <2>1. /\ calls' = SetCall(c, "returned")
        /\ runs' = runs
        /\ executions' = executions \/ executions' = OwnerExecutions(c, "succeeded")
        /\ calls[c].status \in Live
    BY <1>3 DEF CallReturned, Ended, Judged, SettleOwner, Live
  <2>2. /\ "succeeded" \in TaskStatuses
        /\ "returned" \in CallStatuses \ Live
        /\ ~CallEnded(calls[c].status)
    BY <2>1 DEF TaskStatuses, InvocationStatuses, CallStatuses, Live, CallEnded
  <2>3. CallsCalm(calls')
    BY <2>1, <2>2, SetCallCalm DEF TypeOK
  <2>4. TasksCalm(executions')
    BY <2>1, <2>2, SetTaskCalm, SameTablesCalm DEF OwnerExecutions, TypeOK
  <2>5. Orderly
    BY <2>1, <2>2, EndOfCall
  <2> QED
    BY <2>1, <2>3, <2>4, <2>5, SameTablesCalm DEF SlotStep, Calm
<1>4. CASE Terminated(c)
  BY <1>4, CallCancelledStep DEF Terminated
<1>5. CASE CallFailed(c) \/ CallTimedOut(c) \/ ElementTimedOut(c)
  BY <1>5, FailCallStep DEF CallFailed, CallTimedOut, ElementTimedOut, CallStatuses, Live, CallEnded
<1>6. CASE Lost(c)
  <2>1. CASE FailCall(c, "lost", "lost") /\ calls[c].status \in Live
    BY <2>1, FailCallStep DEF CallStatuses, Live, CallEnded
  <2> QED
    BY <1>6, <2>1, CallCancelledStep DEF Lost
<1> QED
  BY <1>1, <1>2, <1>3, <1>4, <1>5, <1>6

\* Deliveries and the transforms of tasks are slot steps.
LEMMA TransformStep ==
  ASSUME TypeOK, OwnersExist, NEW path, NEW i, NEW source, NEW e, NEW t, NEW r,
         \/ Deliver(path, i, source) \/ TransformFailed(path, i, source)
         \/ TaskInput(e, t) \/ TaskInputFailed(e, t)
         \/ TaskOutput(r) \/ TaskOutputFailed(r)
  PROVE  SlotStep
<1>1. CallsOK(calls) /\ ExecutionsOK(executions)
  BY DEF TypeOK
<1>2. ASSUME NEW failure, NEW policy, Fail(failure, policy, calls, executions), runs' = runs
      PROVE  SlotStep
  <2>1. /\ CallsCalm(calls') /\ TasksCalm(executions')
        /\ status' = "running" => calls' = calls /\ executions' = executions
    BY <1>1, <1>2, SameTablesCalm, FailCalm
  <2>2. status' = "running" => SlotStep
    BY <1>2, <2>1, UnrelatedStep
  <2> QED
    BY <1>2, <2>1, <2>2, SameTablesCalm DEF SlotStep, Calm
<1>3. CASE Deliver(path, i, source)
  BY <1>3, UnrelatedStep DEF Deliver
<1>4. CASE TransformFailed(path, i, source)
  <2> DEFINE target == Edge(WorkflowOf(path), i).target
  <2>1. /\ Fail(FailureAt(SettledKey(path, target), None, "transform"), PlacementOf(path, target).policy,
                calls, executions)
        /\ runs' = runs
    BY <1>4 DEF TransformFailed
  <2> QED
    BY <1>2, <2>1
<1>5. CASE TaskInput(e, t)
  <2>1. /\ executions' = SetTask(e, t, "ready") /\ UNCHANGED <<calls, runs>>
        /\ executions[e].tasks[t] = "pending"
        /\ "ready" \in TaskStatuses
    BY <1>5 DEF TaskInput, TaskStatuses
  <2>2. TasksCalm(executions') /\ TasksEndLast
    BY <1>1, <2>1, SetTaskCalm DEF TasksEndLast
  <2> QED
    BY <2>1, <2>2, SameTablesCalm DEF SlotStep, Calm, Orderly, CancellingEnds, Live
<1>6. CASE TaskInputFailed(e, t)
  <2> DEFINE et == SetTask(e, t, "failed")
             failure == FailureAt(e, t, "transform")
             policy == TaskSpec(e, t).policy
  <2>1. Fail(failure, policy, calls, et) /\ runs' = runs /\ executions[e].tasks[t] = "pending"
    BY <1>6 DEF TaskInputFailed
  <2>2. "failed" \in TaskStatuses
    BY DEF TaskStatuses, InvocationStatuses
  <2>3. ExecutionsOK(et) /\ TasksCalm(et)
    BY <1>1, <2>2, SetTaskOK, SetTaskCalm
  <2>4. executions' = et /\ calls' = calls => Orderly
    BY <1>1, <2>1, <2>2, SetTaskCalm DEF Orderly, TasksEndLast, CancellingEnds, Live
  <2> HIDE DEF et, failure, policy
  <2>5. /\ CallsCalm(calls') /\ TasksCalm(executions')
        /\ status' = "running" => calls' = calls /\ executions' = et
    BY <1>1, <2>1, <2>3, SameTablesCalm, FailCalm
  <2> QED
    BY <2>1, <2>4, <2>5, SameTablesCalm DEF SlotStep, Calm
<1>7. CASE TaskOutput(r)
  BY <1>7, UnrelatedStep DEF TaskOutput
<1>8. CASE TaskOutputFailed(r)
  BY <1>2, <1>8 DEF TaskOutputFailed
<1> QED
  BY <1>3, <1>4, <1>5, <1>6, <1>7, <1>8

\* An invocation begins no task: the calls and runs it makes belong to no task.
LEMMA InvokeStep ==
  ASSUME TypeOK, OwnersExist, NEW path \in DOMAIN runs, NEW name \in Placements(WorkflowOf(path)),
         NEW trigger, Invoke(path, name, trigger)
  PROVE  SlotStep
<1> DEFINE key  == InvocationKey(path, name, trigger)
           node == PlacementOf(path, name)
           call == CallKey(key, None)
           child == Child(key, None)
<1>1. key.run = path /\ IsSequence(path) /\ call.task = None
  BY DEF InvocationKey, CallKey, TypeOK
<1>2. RunTask(child) = None
  BY <1>1, ChildPath
<1> HIDE DEF key, call, child
<1>3. CASE calls' = Put(calls, call, NewCall) /\ call \notin DOMAIN calls /\ UNCHANGED <<runs, executions>>
  <2>1. CallsCalm(calls')
    BY <1>1, <1>3 DEF CallsCalm, Put
  <2>2. Orderly
    BY <1>3 DEF Orderly, TasksEndLast, CancellingEnds, Put, Live
  <2> QED
    BY <1>3, <2>1, <2>2, SameTablesCalm DEF SlotStep, Calm
<1>4. CASE child \notin DOMAIN runs /\ runs' = Put(runs, child, NewRun(node.workflow))
           /\ UNCHANGED <<calls, executions>>
  <2>1. RunsCalm(runs')
    BY <1>2, <1>4 DEF RunsCalm, Put
  <2>2. Orderly
    BY <1>4 DEF Orderly, TasksEndLast, CancellingEnds, Live
  <2> QED
    BY <1>4, <2>1, <2>2, SameTablesCalm DEF SlotStep, Calm
<1>5. ASSUME NEW init \in {"pending", "ready"}, key \notin DOMAIN executions,
             executions' = Put(executions, key, [tasks |-> [t \in DOMAIN node.tasks |-> init], complete |-> FALSE]),
             UNCHANGED <<calls, runs>>
      PROVE  SlotStep
  <2>1. TasksCalm(executions')
    BY <1>5 DEF TasksCalm, Put
  <2>2. Orderly
    BY <1>5 DEF Orderly, TasksEndLast, CancellingEnds, Put, Live
  <2> QED
    BY <1>5, <2>1, <2>2, SameTablesCalm DEF SlotStep, Calm
<1> QED
  BY <1>3, <1>4, <1>5 DEF Invoke, key, call, child

\* The steps that start, settle, close, conclude or cancel are slot steps.
LEMMA ClosingStep ==
  ASSUME TypeOK, OwnersExist, NEW path, NEW name, NEW e,
         \/ Start \/ Settle(path, name) \/ CloseExecution(e) \/ CloseRun(path)
         \/ ConcludeRunning \/ ConcludeStopping \/ Cancel
  PROVE  SlotStep
<1>1. CASE Start
  <2>1. RunsCalm(runs')
    BY <1>1 DEF Start, RunsCalm, Put
  <2>2. UNCHANGED <<calls, executions>>
    BY <1>1 DEF Start
  <2>3. Orderly
    BY <2>2 DEF Orderly, TasksEndLast, CancellingEnds, Live
  <2> QED
    BY <2>1, <2>2, <2>3, SameTablesCalm DEF SlotStep, Calm
<1>2. CASE Settle(path, name)
  BY <1>2, UnrelatedStep DEF Settle
<1>3. CASE CloseExecution(e)
  <2>1. executions' = [executions EXCEPT ![e].complete = TRUE] /\ UNCHANGED <<runs, calls>>
    BY <1>3 DEF CloseExecution
  <2>2. TasksCalm(executions') /\ TasksEndLast
    BY <2>1 DEF TasksCalm, TasksEndLast, TypeOK, ExecutionsOK
  <2> QED
    BY <2>1, <2>2, SameTablesCalm DEF SlotStep, Calm, Orderly, CancellingEnds, Live
<1>4. CASE CloseRun(path)
  <2> DEFINE owner == RunOwner(path)
             task == RunTask(path)
             outcome == settled[SettledKey(path, DesignatedOutput(path))].outcome
             reached == IF outcome = "normal" THEN "succeeded" ELSE outcome
  <2>1. path # Root /\ path = Child(owner, task)
    BY <1>4 DEF CloseRun, Open, OwnersExist, RunOwned, CallKey
  <2>2. reached \in TaskStatuses /\ reached # "active"
    BY <1>4 DEF CloseRun, IsSettled, TypeOK, Outcomes, InvocationStatuses, TaskStatuses
  <2>3. /\ runs' = [runs EXCEPT ![path].complete = TRUE]
        /\ calls' = calls
        /\ executions' = executions \/ executions' = SetTask(owner, task, reached)
    BY <1>4 DEF CloseRun
  <2> HIDE DEF owner, task, outcome, reached
  <2>4. RunsCalm(runs') /\ path \in DOMAIN runs' /\ runs'[path].complete
    BY <1>4, <2>3 DEF CloseRun, Open, RunsCalm, TypeOK
  <2>5. TasksCalm(executions')
    BY <2>2, <2>3, SetTaskCalm, SameTablesCalm DEF TypeOK
  <2>6. TasksEndLast
    <3> SUFFICES ASSUME NEW x \in DOMAIN executions, NEW u \in DOMAIN executions[x].tasks,
                        executions[x].tasks[u] = "active", executions'[x].tasks[u] # "active"
                 PROVE  Child(x, u) \in DOMAIN runs' /\ runs'[Child(x, u)].complete
      BY DEF TasksEndLast
    <3>1. x = owner /\ u = task
      BY <2>2, <2>3, SetTaskCalm DEF TypeOK
    <3> QED
      BY <2>1, <2>4, <3>1
  <2> QED
    BY <2>3, <2>4, <2>5, <2>6, SameTablesCalm DEF SlotStep, Calm, Orderly, CancellingEnds, Live
<1>5. CASE ConcludeRunning
  <2>1. /\ runs' = [runs EXCEPT ![Root].complete = TRUE]
        /\ UNCHANGED <<calls, executions>>
        /\ status' # "running"
    BY <1>5 DEF ConcludeRunning
  <2>2. RunsCalm(runs')
    BY <2>1 DEF RunsCalm
  <2> QED
    BY <2>1, <2>2, SameTablesCalm DEF SlotStep, Calm
<1>6. CASE ConcludeStopping
  <2> DEFINE dropped == DropUnstarted(executions)
  <2>1. executions' = MapTasks(dropped, {"active"}, "cancelled") /\ UNCHANGED <<calls, runs>> /\ status' # "running"
    BY <1>6 DEF ConcludeStopping
  <2>2. ExecutionsOK(dropped) /\ "cancelled" \in TaskStatuses
    BY DropUnstartedOK DEF TypeOK, TaskStatuses, InvocationStatuses
  <2> HIDE DEF dropped
  <2>3. /\ SameTasks(dropped, executions')
        /\ \A x \in DOMAIN dropped : \A t \in DOMAIN dropped[x].tasks :
             executions'[x].tasks[t] = IF dropped[x].tasks[t] \in {"active"} THEN "cancelled" ELSE dropped[x].tasks[t]
    BY <2>1, <2>2, MapTasksOK
  <2>4. \A x \in DOMAIN executions' : \A t \in DOMAIN executions'[x].tasks : executions'[x].tasks[t] # "active"
    BY <2>3 DEF SameTasks
  <2>5. TasksCalm(executions')
    BY <2>4 DEF TasksCalm
  <2> QED
    BY <2>1, <2>5, SameTablesCalm DEF SlotStep, Calm
<1>7. CASE Cancel
  <2>1. CASE status = "running" /\ Stop(calls, executions) /\ runs' = runs
    BY <2>1, SameTablesCalm, StopCalm DEF TypeOK, SlotStep, Calm
  <2>2. CASE UNCHANGED <<runs, calls, executions>>
    BY <2>2, UnrelatedStep
  <2> QED
    BY <1>7, <2>1, <2>2 DEF Cancel
<1> QED
  BY <1>1, <1>2, <1>3, <1>4, <1>5, <1>6, <1>7

-----------------------------------------------------------------------------
(* The step that engages a task *)

\* Beginning a task engages that task only, and only below the limit.
LEMMA BeginTaskStep ==
  ASSUME TypeOK, OwnersExist, TypeOK', OwnersExist', Grows, Covered, WithinLimit,
         NEW e \in DOMAIN executions, NEW t \in DOMAIN executions[e].tasks, BeginTask(e, t)
  PROVE  Covered' /\ WithinLimit'
<1> DEFINE call == CallKey(e, t)
           child == Child(e, t)
<1>1. TaskFacts /\ TaskFacts'
  BY OwnersGiveTasks, PTL
<1>2. status = "running" /\ executions' = SetTask(e, t, "active") /\ SlotsHeld(e) < ConcurrencyOf(e).limit
  BY DEF BeginTask, Running
<1>3. /\ DOMAIN executions' = DOMAIN executions
      /\ \A x \in DOMAIN executions : DOMAIN executions'[x].tasks = DOMAIN executions[x].tasks
      /\ \A x \in DOMAIN executions : \A u \in DOMAIN executions[x].tasks :
           executions'[x].tasks[u] = IF x = e /\ u = t THEN "active" ELSE executions[x].tasks[u]
  BY <1>2 DEF SetTask, TypeOK, ExecutionsOK
<1>4. /\ \A c \in DOMAIN calls' : c = call \/ (c \in DOMAIN calls /\ calls'[c] = calls[c])
      /\ \A c \in DOMAIN calls : c \in DOMAIN calls' /\ calls'[c] = calls[c]
      /\ \A p \in DOMAIN runs' : p = child \/ (p \in DOMAIN runs /\ runs'[p] = runs[p])
  <2> DEFINE run == NewRun(TaskSpec(e, t).body.workflow)
  <2>1. \/ call \notin DOMAIN calls /\ calls' = Put(calls, call, NewCall) /\ UNCHANGED runs
        \/ child \notin DOMAIN runs /\ runs' = Put(runs, child, run) /\ UNCHANGED calls
    BY DEF BeginTask
  <2> HIDE DEF call, child, run
  <2>2. CASE call \notin DOMAIN calls /\ calls' = Put(calls, call, NewCall) /\ UNCHANGED runs
    <3>1. DOMAIN calls' = DOMAIN calls \cup {call} /\ \A c \in DOMAIN calls : calls'[c] = calls[c]
      BY <2>2 DEF Put
    <3> QED
      BY <2>2, <3>1
  <2>3. CASE child \notin DOMAIN runs /\ runs' = Put(runs, child, run) /\ UNCHANGED calls
    <3>1. DOMAIN runs' = DOMAIN runs \cup {child} /\ \A p \in DOMAIN runs : runs'[p] = runs[p]
      BY <2>3 DEF Put
    <3> QED
      BY <2>3, <3>1
  <2> QED
    BY <2>1, <2>2, <2>3
<1>5. ASSUME NEW x \in DOMAIN executions, NEW u \in DOMAIN executions[x].tasks, ~(x = e /\ u = t)
      PROVE  /\ InFlight(x, u)' => InFlight(x, u)
             /\ HoldsSlot(x, u) => HoldsSlot(x, u)'
  <2>1. CallKey(x, u) # call
    BY <1>5 DEF CallKey
  <2>2. Child(x, u) # child
    BY <1>1, <1>5 DEF TaskFacts
  <2>3. InFlight(x, u)' => InFlight(x, u)
    BY <1>4, <2>1, <2>2 DEF InFlight
  <2>4. HoldsSlot(x, u) => HoldsSlot(x, u)'
    BY <1>3, <1>4, <1>5 DEF HoldsSlot
  <2> QED
    BY <2>3, <2>4
<1>6. Covered'
  <2> SUFFICES ASSUME NEW x \in DOMAIN executions', NEW u \in DOMAIN executions'[x].tasks, InFlight(x, u)'
               PROVE  HoldsSlot(x, u)'
    BY DEF Covered
  <2>1. x \in DOMAIN executions /\ u \in DOMAIN executions[x].tasks
    BY <1>3
  <2>2. CASE x = e /\ u = t
    BY <1>3, <2>1, <2>2 DEF HoldsSlot
  <2>3. CASE ~(x = e /\ u = t)
    BY <1>2, <1>5, <2>1, <2>3 DEF Covered
  <2> QED
    BY <2>2, <2>3
<1>7. WithinLimit'
  <2> SUFFICES ASSUME NEW x \in DOMAIN executions
               PROVE  Cardinality(Engaged(x)') <= ConcurrencyOf(x)'.limit
    BY <1>3 DEF WithinLimit
  <2>1. ConcurrencyOf(x)' = ConcurrencyOf(x) /\ ConcurrencyOf(x).limit \in Nat
    BY <1>1, LookupsStay DEF TaskFacts
  <2>2. IsFiniteSet(Engaged(x))
    BY <1>1, FS_Subset DEF TaskFacts, Engaged
  <2>3. Cardinality(Engaged(x)) \in Nat
    BY <2>2, FS_CardinalityType
  <2>4. CASE x # e
    <3>1. Engaged(x)' \subseteq Engaged(x)
      BY <1>3, <1>5, <2>4 DEF Engaged
    <3>2. Cardinality(Engaged(x)') <= Cardinality(Engaged(x)) /\ IsFiniteSet(Engaged(x)')
      BY <2>2, <3>1, FS_Subset
    <3>3. Cardinality(Engaged(x)') \in Nat
      BY <3>2, FS_CardinalityType
    <3>4. Cardinality(Engaged(x)) <= ConcurrencyOf(x).limit
      BY DEF WithinLimit
    <3> QED
      BY <2>1, <2>3, <3>2, <3>3, <3>4
  <2>5. CASE x = e
    <3> DEFINE held == {u \in DOMAIN executions[e].tasks : HoldsSlot(e, u)}
    <3>1. Engaged(e) \subseteq held
      BY <1>2 DEF Engaged, Covered, HoldsSlot
    <3>2. IsFiniteSet(held)
      BY <1>1, FS_Subset DEF TaskFacts
    <3>3. Cardinality(held) < ConcurrencyOf(e).limit
      BY <1>2 DEF SlotsHeld
    <3> HIDE DEF held
    <3>4. Cardinality(Engaged(e)) <= Cardinality(held) /\ Cardinality(held) \in Nat
      BY <3>1, <3>2, FS_Subset, FS_CardinalityType
    <3>5. Engaged(e)' \subseteq Engaged(e) \cup {t}
      BY <1>3, <1>5 DEF Engaged
    <3>6. /\ IsFiniteSet(Engaged(e) \cup {t})
          /\ Cardinality(Engaged(e) \cup {t}) <= Cardinality(Engaged(e)) + 1
      <4> DEFINE S == Engaged(e)
      <4>1. IsFiniteSet(S) /\ Cardinality(S) \in Nat
        BY <2>2, <2>3, <2>5
      <4> HIDE DEF S
      <4>2. /\ IsFiniteSet(S \cup {t})
            /\ Cardinality(S \cup {t}) = IF t \in S THEN Cardinality(S) ELSE Cardinality(S) + 1
        BY <4>1, FS_AddElement
      <4>3. Cardinality(S \cup {t}) <= Cardinality(S) + 1
        BY <4>1, <4>2
      <4> QED
        BY <4>2, <4>3 DEF S
    <3>7. /\ IsFiniteSet(Engaged(e)')
          /\ Cardinality(Engaged(e)') <= Cardinality(Engaged(e) \cup {t})
      BY <3>5, <3>6, FS_Subset
    <3>8. Cardinality(Engaged(e)') \in Nat /\ Cardinality(Engaged(e) \cup {t}) \in Nat
      BY <3>6, <3>7, FS_CardinalityType
    <3> QED
      BY <2>1, <2>3, <2>5, <3>3, <3>4, <3>6, <3>7, <3>8
  <2> QED
    BY <2>4, <2>5
<1> QED
  BY <1>6, <1>7

-----------------------------------------------------------------------------
(* The limit *)

\* Every step but the beginning of a task is a slot step.
LEMMA SlotSteps ==
  ASSUME TypeOK, OwnersExist, [Next]_vars
  PROVE  \/ SlotStep
         \/ \E e \in DOMAIN executions : \E t \in DOMAIN executions[e].tasks : BeginTask(e, t)
<1>1. CASE Control
  <2>1. ASSUME NEW path \in DOMAIN runs, NEW name \in Placements(WorkflowOf(path)),
               NEW trigger, Invoke(path, name, trigger)
        PROVE  SlotStep
    BY <2>1, InvokeStep
  <2>2. ASSUME NEW path, NEW name, NEW e,
               \/ Start \/ Settle(path, name) \/ CloseExecution(e) \/ CloseRun(path)
               \/ ConcludeRunning \/ ConcludeStopping
        PROVE  SlotStep
    BY <2>2, ClosingStep
  <2>3. ASSUME NEW path, NEW i, NEW source, NEW e, NEW t, NEW r,
               Deliver(path, i, source) \/ TaskInput(e, t) \/ TaskOutput(r)
        PROVE  SlotStep
    BY <2>3, TransformStep
  <2>4. ASSUME NEW c \in DOMAIN calls, Fetch(c)
        PROVE  SlotStep
    BY <2>4, ReportStep
  <2> QED
    BY <1>1, <2>1, <2>2, <2>3, <2>4 DEF Control
<1>2. ASSUME NEW c \in DOMAIN calls, Report(c)
      PROVE  SlotStep
  BY <1>2, ReportStep DEF Report
<1>3. CASE Environment
  <2>1. ASSUME NEW c \in DOMAIN calls, CallFailed(c) \/ CallTimedOut(c) \/ ElementTimedOut(c) \/ Lost(c)
        PROVE  SlotStep
    BY <2>1, ReportStep
  <2>2. ASSUME NEW path, NEW i, NEW source, NEW e, NEW t, NEW r,
               TransformFailed(path, i, source) \/ TaskInputFailed(e, t) \/ TaskOutputFailed(r)
        PROVE  SlotStep
    BY <2>2, TransformStep
  <2>3. CASE Cancel
    BY <2>3, ClosingStep
  <2> QED
    BY <1>3, <2>1, <2>2, <2>3 DEF Environment
<1>4. CASE UNCHANGED vars
  BY <1>4, UnrelatedStep DEF vars
<1> QED
  BY <1>1, <1>2, <1>3, <1>4 DEF Next, Done

\* An execution that is stopping or has ended does not run again.
LEMMA NoRestart ==
  ASSUME TypeOK, NoLiveWhileStopping, [Next]_vars, status # "running"
  PROVE  Covered'
BY StoppedStepHolds DEF StoppedStep, Covered

\* Every step keeps the tasks in flight covered by slots and within the limit.
LEMMA SlotsKept ==
  ASSUME TypeOK, OwnersExist, NoLiveWhileStopping, Covered, WithinLimit, [Next]_vars
  PROVE  Covered' /\ WithinLimit'
<1>1. TypeOK' /\ OwnersExist' /\ Grows
  BY StepKeepsTypes
<1>2. CASE SlotStep
  <2>1. WithinLimit'
    BY <1>1, <1>2, CalmKeepsLimit DEF SlotStep
  <2>2. CASE status = "running" /\ status' = "running"
    BY <1>1, <1>2, <2>1, <2>2, OrderlyKeepsCovered DEF SlotStep
  <2>3. status' # "running" => Covered'
    BY DEF Covered
  <2>4. status # "running" => Covered'
    BY NoRestart
  <2> QED
    BY <2>1, <2>2, <2>3, <2>4
<1>3. ASSUME NEW e \in DOMAIN executions, NEW t \in DOMAIN executions[e].tasks, BeginTask(e, t)
      PROVE  Covered' /\ WithinLimit'
  BY <1>1, <1>3, BeginTaskStep
<1> QED
  BY <1>2, <1>3, SlotSteps

\* The tasks occupying a concurrency are among those engaged.
LEMMA EngagedBoundsOccupied == TypeOK /\ OwnersExist /\ WithinLimit => SlotLimit
<1> SUFFICES ASSUME TypeOK, OwnersExist, WithinLimit, NEW e \in DOMAIN executions
             PROVE  Cardinality(Occupied(e)) <= ConcurrencyOf(e).limit
  BY DEF SlotLimit
<1>1. TaskFacts
  BY OwnersGiveTasks
<1>2. IsFiniteSet(Engaged(e)) /\ ConcurrencyOf(e).limit \in Nat
  BY <1>1, FS_Subset DEF TaskFacts, Engaged
<1>3. Occupied(e) \subseteq Engaged(e)
  BY DEF Occupied, Engaged, InFlight
<1>4. Cardinality(Occupied(e)) <= Cardinality(Engaged(e)) /\ IsFiniteSet(Occupied(e))
  BY <1>2, <1>3, FS_Subset
<1>5. Cardinality(Occupied(e)) \in Nat /\ Cardinality(Engaged(e)) \in Nat
  BY <1>2, <1>4, FS_CardinalityType
<1>6. Cardinality(Engaged(e)) <= ConcurrencyOf(e).limit
  BY DEF WithinLimit
<1> QED
  BY <1>2, <1>4, <1>5, <1>6

\* A concurrency never has more tasks in flight than its limit, whatever
\* fails, times out, is lost or cancelled, and however deep it is nested.
THEOREM LimitIsKept == Spec => []SlotLimit
<1>1. Init => NoLiveWhileStopping /\ Covered /\ WithinLimit
  BY DEF Init, NoLiveWhileStopping, Covered, WithinLimit
<1>2. TypeOK /\ NoLiveWhileStopping /\ [Next]_vars => NoLiveWhileStopping'
  BY QuietKept
<1>3. TypeOK /\ OwnersExist /\ NoLiveWhileStopping /\ Covered /\ WithinLimit /\ [Next]_vars
        => (Covered /\ WithinLimit)'
  BY SlotsKept
<1> QED
  BY <1>1, <1>2, <1>3, EngagedBoundsOccupied, TypeCorrect, OwnersAlwaysExist, PTL DEF Spec

-----------------------------------------------------------------------------
(* Answers, kinds and life *)

\* The result with this index was accepted from the call.
Has(c, n) ==
  IF c.task = None THEN CallResult(c, n) \in DOMAIN results
                   ELSE TaskResultKey(c.owner, c.task, n) \in DOMAIN taskResults

\* The results that a call in this state has answered.
Answered(c, n) ==
  IF IsStream(c) THEN n < calls[c].yields ELSE n = 0 /\ calls[c].status = "returned"

\* What was accepted from each call is what it answered.
Counted ==
  \A c \in DOMAIN calls :
    /\ calls[c].yields <= MaxYields
    /\ \A n \in 0..MaxYields : Has(c, n) <=> Answered(c, n)

\* The call that the result r with the kind "result" came from.
CallOf(r) == CallKey(InvocationKey(r.run, r.label.placement, r.label.trigger), r.label.task)

\* Results of calls and of tasks come from calls or called workflows that exist.
Sourced ==
  /\ \A r \in DOMAIN results : r.label.kind = "result" => CallOf(r) \in DOMAIN calls
  /\ \A r \in DOMAIN taskResults :
       CallKey(r.execution, r.task) \in DOMAIN calls \/ Child(r.execution, r.task) \in DOMAIN runs

-----------------------------------------------------------------------------
(* Keys *)

\* What the key of a call says; a task that has a call calls no workflow.
CallFacts ==
  \A c \in DOMAIN calls :
    /\ c = CallKey(c.owner, c.task)
    /\ c.owner = InvocationKey(c.owner.run, c.owner.placement, c.owner.trigger)
    /\ c.owner.run \in DOMAIN runs
    /\ c.task # None => Child(c.owner, c.task) \notin DOMAIN runs

\* The facts about calls follow from the types and the owners.
LEMMA OwnersGiveCalls == TypeOK /\ OwnersExist => CallFacts
<1> SUFFICES ASSUME TypeOK, OwnersExist, NEW c \in DOMAIN calls
             PROVE  /\ c = CallKey(c.owner, c.task)
                    /\ c.owner = InvocationKey(c.owner.run, c.owner.placement, c.owner.trigger)
                    /\ c.owner.run \in DOMAIN runs
                    /\ c.task # None => Child(c.owner, c.task) \notin DOMAIN runs
  BY DEF CallFacts
<1>1. CallOwned(c) /\ InvocationOwned(c.owner)
  BY DEF OwnersExist, CallOwned, OwnerExists
<1>2. TaskFacts /\ OwnerFacts
  BY OwnersGiveTasks
<1>3. c.task # None => Child(c.owner, c.task) \notin DOMAIN runs
  BY <1>1, <1>2 DEF CallOwned, TaskFacts, OwnerFacts
<1> QED
  BY <1>1, <1>3 DEF CallOwned, InvocationOwned

\* A call can be told from its results.
LEMMA CallOfResult ==
  ASSUME NEW c, NEW n, c = CallKey(c.owner, c.task),
         c.owner = InvocationKey(c.owner.run, c.owner.placement, c.owner.trigger)
  PROVE  /\ CallOf(CallResult(c, n)) = c
         /\ CallResult(c, n).label.kind = "result"
         /\ CallResult(c, n).label.index = n
BY DEF CallOf, CallResult, ResultKey, Label

\* The function of a call stays what it is.
LEMMA StreamsStay ==
  ASSUME TypeOK, OwnersExist, Grows, NEW c \in DOMAIN calls
  PROVE  IsStream(c)' <=> IsStream(c)
<1>1. c = CallKey(c.owner, c.task) /\ c.owner.run \in DOMAIN runs
  BY OwnersGiveCalls DEF CallFacts
<1>2. BodyOf(c)' = BodyOf(c)
  BY <1>1, LookupsStay
<1> QED
  BY <1>2 DEF IsStream

-----------------------------------------------------------------------------
(* Steps that accept nothing *)

\* Calls stay, with what they answered; new ones have answered nothing.
CallsSilent ==
  /\ \A c \in DOMAIN calls :
       /\ c \in DOMAIN calls'
       /\ calls'[c].yields = calls[c].yields
       /\ calls'[c].status = "returned" <=> calls[c].status = "returned"
  /\ \A c \in DOMAIN calls' \ DOMAIN calls : calls'[c] = NewCall

\* Results stay; new ones are not of calls.
ResultsSilent ==
  /\ DOMAIN results \subseteq DOMAIN results'
  /\ \A r \in DOMAIN results' \ DOMAIN results : r.label.kind # "result"
  /\ DOMAIN taskResults \subseteq DOMAIN taskResults'
  /\ \A r \in DOMAIN taskResults' \ DOMAIN taskResults : Child(r.execution, r.task) \in DOMAIN runs'

Silent == CallsSilent /\ ResultsSilent

\* A silent step keeps the count, and every result its source.
LEMMA SilentKeeps ==
  ASSUME TypeOK, OwnersExist, TypeOK', OwnersExist', Grows, Counted, Sourced, Silent
  PROVE  Counted' /\ Sourced'
<1>1. Sourced'
  BY DEF Sourced, Silent, CallsSilent, ResultsSilent, Grows, CallOf
<1>2. CallFacts'
  BY OwnersGiveCalls, PTL
<1>3. ASSUME NEW c \in DOMAIN calls', NEW n
      PROVE  Has(c, n)' <=> Has(c, n)
  <2>1. CASE c.task = None
    <3>1. CallResult(c, n).label.kind = "result"
      BY <1>2, CallOfResult DEF CallFacts
    <3> QED
      BY <2>1, <3>1 DEF Has, Silent, ResultsSilent
  <2>2. CASE c.task # None
    <3> DEFINE r == TaskResultKey(c.owner, c.task, n)
    <3>1. Child(c.owner, c.task) \notin DOMAIN runs'
      BY <1>2, <2>2 DEF CallFacts
    <3>2. r.execution = c.owner /\ r.task = c.task
      BY DEF TaskResultKey
    <3> HIDE DEF r
    <3>3. r \in DOMAIN taskResults' <=> r \in DOMAIN taskResults
      BY <3>1, <3>2 DEF Silent, ResultsSilent
    <3> QED
      BY <2>2, <3>3 DEF Has, r
  <2> QED
    BY <2>1, <2>2
<1>4. ASSUME NEW c \in DOMAIN calls' \ DOMAIN calls, NEW n
      PROVE  ~Has(c, n)
  <2>1. CASE c.task = None
    <3>1. CallOf(CallResult(c, n)) = c /\ CallResult(c, n).label.kind = "result"
      BY <1>2, CallOfResult DEF CallFacts
    <3> QED
      BY <1>4, <2>1, <3>1 DEF Has, Sourced
  <2>2. CASE c.task # None
    <3> DEFINE r == TaskResultKey(c.owner, c.task, n)
    <3>1. Child(c.owner, c.task) \notin DOMAIN runs
      BY <1>2, <2>2 DEF CallFacts, Grows
    <3>2. r.execution = c.owner /\ r.task = c.task
      BY DEF TaskResultKey
    <3>3. c = CallKey(c.owner, c.task)
      BY <1>2 DEF CallFacts
    <3> HIDE DEF r
    <3>4. r \notin DOMAIN taskResults
      BY <1>4, <3>1, <3>2, <3>3 DEF Sourced
    <3> QED
      BY <2>2, <3>4 DEF Has, r
  <2> QED
    BY <2>1, <2>2
<1>5. ASSUME NEW c \in DOMAIN calls'
      PROVE  /\ calls'[c].yields <= MaxYields
             /\ \A n \in 0..MaxYields : Has(c, n)' <=> Answered(c, n)'
  <2>1. CASE c \in DOMAIN calls
    <3>1. \A n : Answered(c, n)' <=> Answered(c, n)
      BY <2>1, StreamsStay DEF Answered, Silent, CallsSilent
    <3> QED
      BY <1>3, <2>1, <3>1 DEF Counted, Silent, CallsSilent
  <2>2. CASE c \notin DOMAIN calls
    <3>1. calls'[c] = NewCall
      BY <2>2 DEF Silent, CallsSilent
    <3>2. \A n \in 0..MaxYields : ~Answered(c, n)'
      BY <3>1 DEF Answered, NewCall
    <3> QED
      BY <1>3, <1>4, <2>2, <3>1, <3>2, MachineAssumption DEF NewCall
  <2> QED
    BY <2>1, <2>2
<1> QED
  BY <1>1, <1>5 DEF Counted

-----------------------------------------------------------------------------
(* Steps that accept an answer *)

\* Accepting a value adds the one result of that call with that index.
LEMMA AcceptAdds ==
  ASSUME TypeOK, OwnersExist, NEW c \in DOMAIN calls, NEW k, NEW arm, Accept(c, k, arm)
  PROVE  \A d \in DOMAIN calls : \A n : Has(d, n)' <=> (Has(d, n) \/ (d = c /\ n = k))
<1> SUFFICES ASSUME NEW d \in DOMAIN calls, NEW n
             PROVE  Has(d, n)' <=> (Has(d, n) \/ (d = c /\ n = k))
  OBVIOUS
<1>1. CallFacts
  BY OwnersGiveCalls
<1>2. CASE c.task = None
  <2> DEFINE new == CallResult(c, k)
             mine == CallResult(d, n)
             value == [arm |-> arm, list |-> {}]
  <2>1. results' = Put(results, new, value) /\ taskResults' = taskResults
    BY <1>2 DEF Accept
  <2>2. mine = new <=> d = c /\ n = k
    <3>1. /\ CallOf(new) = c /\ new.label.index = k
          /\ CallOf(mine) = d /\ mine.label.index = n
      BY <1>1, CallOfResult DEF CallFacts
    <3> QED
      BY <3>1
  <2> HIDE DEF new, value
  <2>3. DOMAIN results' = DOMAIN results \cup {new}
    BY <2>1 DEF Put
  <2> QED
    BY <1>2, <2>1, <2>2, <2>3 DEF Has
<1>3. CASE c.task # None
  <2> DEFINE new == TaskResultKey(c.owner, c.task, k)
             mine == TaskResultKey(d.owner, d.task, n)
  <2>1. taskResults' = Put(taskResults, new, "pending") /\ results' = results
    BY <1>3 DEF Accept
  <2>2. mine = new <=> d = c /\ n = k
    <3>1. c = CallKey(c.owner, c.task) /\ d = CallKey(d.owner, d.task)
      BY <1>1 DEF CallFacts
    <3>2. mine = new <=> d.owner = c.owner /\ d.task = c.task /\ n = k
      BY DEF TaskResultKey
    <3> QED
      BY <3>1, <3>2 DEF CallKey
  <2> HIDE DEF new
  <2>3. DOMAIN taskResults' = DOMAIN taskResults \cup {new}
    BY <2>1 DEF Put
  <2> QED
    BY <1>3, <2>1, <2>2, <2>3 DEF Has
<1> QED
  BY <1>2, <1>3

\* An accepted value has the call as its source.
LEMMA AcceptSourced ==
  ASSUME TypeOK, OwnersExist, Sourced, NEW c \in DOMAIN calls, NEW k, NEW arm, Accept(c, k, arm),
         DOMAIN calls' = DOMAIN calls, runs' = runs
  PROVE  Sourced'
<1>1. CallFacts
  BY OwnersGiveCalls
<1>2. CASE c.task = None
  <2> DEFINE new == CallResult(c, k)
             value == [arm |-> arm, list |-> {}]
  <2>1. results' = Put(results, new, value) /\ taskResults' = taskResults
    BY <1>2 DEF Accept
  <2>2. CallOf(new) = c
    BY <1>1, CallOfResult DEF CallFacts
  <2> HIDE DEF new, value
  <2>3. DOMAIN results' = DOMAIN results \cup {new}
    BY <2>1 DEF Put
  <2> QED
    BY <2>1, <2>2, <2>3 DEF Sourced, CallOf
<1>3. CASE c.task # None
  <2> DEFINE new == TaskResultKey(c.owner, c.task, k)
  <2>1. taskResults' = Put(taskResults, new, "pending") /\ results' = results
    BY <1>3 DEF Accept
  <2>2. CallKey(new.execution, new.task) = c
    BY <1>1 DEF CallFacts, TaskResultKey, CallKey
  <2> HIDE DEF new
  <2>3. DOMAIN taskResults' = DOMAIN taskResults \cup {new}
    BY <2>1 DEF Put
  <2> QED
    BY <2>1, <2>2, <2>3 DEF Sourced, CallOf
<1> QED
  BY <1>2, <1>3

\* An answer of one call, its last or an element, counts for that call only.
LEMMA AnswerKeeps ==
  ASSUME TypeOK, OwnersExist, Counted, Sourced, Grows, NEW c \in DOMAIN calls,
         \/ CallReturned(c) \/ Yielded(c) \/ Ended(c) \/ \E arm \in Arms(c) : Judged(c, arm)
  PROVE  Counted' /\ Sourced'
<1>1. DOMAIN calls' = DOMAIN calls /\ runs' = runs /\ \A d \in DOMAIN calls \ {c} : calls'[d] = calls[d]
  BY DEF CallReturned, Yielded, Ended, Judged, SetCall
<1>2. CallsOK(calls) /\ MaxYields \in Nat
  BY MachineAssumption DEF TypeOK
<1>3. Sourced'
  <2>1. CASE Ended(c)
    BY <1>1, <2>1 DEF Ended, Sourced, CallOf
  <2>2. ASSUME NEW k, NEW arm, Accept(c, k, arm) PROVE Sourced'
    BY <1>1, <2>2, AcceptSourced
  <2> QED
    BY <2>1, <2>2 DEF CallReturned, Yielded, Judged
<1>4. ASSUME NEW d \in DOMAIN calls, d # c
      PROVE  /\ calls'[d].yields <= MaxYields
             /\ \A n \in 0..MaxYields : Has(d, n)' <=> Answered(d, n)'
  <2>1. \A n : Has(d, n)' <=> Has(d, n)
    <3>1. CASE Ended(c)
      BY <3>1 DEF Ended, Has
    <3>2. ASSUME NEW k, NEW arm, Accept(c, k, arm)
          PROVE  \A n : Has(d, n)' <=> Has(d, n)
      BY <1>4, <3>2, AcceptAdds
    <3> QED
      BY <3>1, <3>2 DEF CallReturned, Yielded, Judged
  <2>2. \A n : Answered(d, n)' <=> Answered(d, n)
    BY <1>1, <1>4, StreamsStay DEF Answered
  <2> QED
    BY <1>1, <1>4, <2>1, <2>2 DEF Counted
<1>5. /\ calls'[c].yields <= MaxYields
      /\ \A n \in 0..MaxYields : Has(c, n)' <=> Answered(c, n)'
  <2>1. calls[c].yields \in Nat /\ calls[c].yields <= MaxYields
    BY <1>2 DEF CallsOK, Counted
  <2>2. ASSUME ~IsStream(c), calls[c].status = "running", calls' = SetCall(c, "returned"),
               NEW arm, Accept(c, 0, arm)
        PROVE  /\ calls'[c].yields <= MaxYields
               /\ \A n \in 0..MaxYields : Has(c, n)' <=> Answered(c, n)'
    <3>1. calls'[c].status = "returned" /\ calls'[c].yields = calls[c].yields
      BY <1>2, <2>2 DEF SetCall, CallsOK
    <3>2. \A n \in 0..MaxYields : Answered(c, n)' <=> n = 0
      BY <2>2, <3>1, StreamsStay DEF Answered
    <3>3. \A n \in 0..MaxYields : ~Has(c, n)
      BY <2>2 DEF Counted, Answered
    <3>4. \A n : Has(c, n)' <=> (Has(c, n) \/ n = 0)
      BY <2>2, AcceptAdds
    <3> QED
      BY <2>1, <3>1, <3>2, <3>3, <3>4
  <2>3. CASE CallReturned(c)
    BY <2>2, <2>3 DEF CallReturned
  <2>4. CASE \E arm \in Arms(c) : Judged(c, arm)
    BY <2>2, <2>4 DEF Judged, Arms, IsStream
  <2>5. CASE Yielded(c)
    <3> DEFINE k == calls[c].yields
    <3>1. /\ IsStream(c) /\ k < MaxYields /\ Accept(c, k, None)
          /\ calls' = [calls EXCEPT ![c] = [status |-> "running", yields |-> @.yields + 1]]
      BY <2>5 DEF Yielded
    <3>2. calls'[c].yields = k + 1
      BY <3>1
    <3>3. \A n \in 0..MaxYields : Answered(c, n)' <=> n < k + 1
      BY <3>1, <3>2, StreamsStay DEF Answered
    <3>4. \A n \in 0..MaxYields : Has(c, n) <=> n < k
      BY <3>1 DEF Counted, Answered
    <3>5. \A n : Has(c, n)' <=> (Has(c, n) \/ n = k)
      BY <3>1, AcceptAdds
    <3> QED
      BY <1>2, <2>1, <3>1, <3>2, <3>3, <3>4, <3>5
  <2>6. CASE Ended(c)
    <3>1. IsStream(c) /\ calls' = SetCall(c, "returned") /\ UNCHANGED <<results, taskResults>>
      BY <2>6 DEF Ended
    <3>2. calls'[c].yields = calls[c].yields
      BY <1>2, <3>1 DEF SetCall, CallsOK
    <3>3. \A n : Answered(c, n)' <=> Answered(c, n)
      BY <3>1, <3>2, StreamsStay DEF Answered
    <3>4. \A n : Has(c, n)' <=> Has(c, n)
      BY <3>1 DEF Has
    <3> QED
      BY <2>1, <3>2, <3>3, <3>4 DEF Counted
  <2> QED
    BY <2>3, <2>4, <2>5, <2>6
<1> QED
  BY <1>1, <1>3, <1>4, <1>5 DEF Counted

-----------------------------------------------------------------------------
(* The silent steps one by one *)

\* In the table given, each call has answered what it had.
SameAnswers(table) ==
  /\ DOMAIN table = DOMAIN calls
  /\ \A c \in DOMAIN calls :
       /\ table[c].yields = calls[c].yields
       /\ table[c].status = "returned" <=> calls[c].status = "returned"

\* A table with the same answers makes for a silent step, if no result is new.
LEMMA SameIsSilent ==
  ASSUME SameAnswers(calls')
  PROVE  /\ CallsSilent
         /\ results' = results /\ DOMAIN taskResults' = DOMAIN taskResults => Silent
BY DEF SameAnswers, CallsSilent, ResultsSilent, Silent

\* A new status, other than that of a return, of a call that has not ended is
\* no answer.
LEMMA SetCallSilent ==
  ASSUME CallsOK(calls), NEW c \in DOMAIN calls, ~CallEnded(calls[c].status),
         NEW s \in CallStatuses \ {"returned"}
  PROVE  SameAnswers(SetCall(c, s)) /\ CallsOK(SetCall(c, s))
<1>1. calls[c].status # "returned"
  BY DEF CallEnded, Live
<1> QED
  BY <1>1, SetCallOK DEF CallsOK, SetCall, SameAnswers

\* A stop takes no answer.
LEMMA CancelLiveSilent ==
  ASSUME NEW table, CallsOK(table), SameAnswers(table)
  PROVE  SameAnswers(CancelLive(table))
<1>1. \A c \in DOMAIN table : CancelLive(table)[c].yields = table[c].yields
  BY DEF CancelLive, CallsOK
<1> QED
  BY <1>1, CancelLiveOK DEF SameAnswers, Live

\* Recording a failure takes no answer, whatever the policy.
LEMMA FailSilent ==
  ASSUME NEW failure, NEW policy, NEW table, CallsOK(table), SameAnswers(table), NEW executionTable,
         Fail(failure, policy, table, executionTable)
  PROVE  SameAnswers(calls')
BY CancelLiveSilent DEF Fail, Stop

\* Fetching, and every end of a call but its own, are silent.
LEMMA EndIsSilent ==
  ASSUME TypeOK, NEW c \in DOMAIN calls,
         \/ Fetch(c) \/ Terminated(c)
         \/ CallFailed(c) \/ CallTimedOut(c) \/ ElementTimedOut(c) \/ Lost(c)
  PROVE  Silent
<1>1. CallsOK(calls)
  BY DEF TypeOK
<1>2. CASE Fetch(c)
  <2>1. calls' = SetCall(c, "fetching") /\ ~CallEnded(calls[c].status) /\ UNCHANGED <<results, taskResults>>
    BY <1>2 DEF Fetch, CallEnded, Live
  <2> QED
    BY <1>1, <2>1, SetCallSilent, SameIsSilent DEF CallStatuses, Live
<1>3. ASSUME calls[c].status = "cancelling", CallCancelled(c) PROVE Silent
  <2>1. calls' = SetCall(c, "cancelled") /\ ~CallEnded(calls[c].status) /\ UNCHANGED <<results, taskResults>>
    BY <1>3 DEF CallCancelled, CallEnded, Live
  <2> QED
    BY <1>1, <2>1, SetCallSilent, SameIsSilent DEF CallStatuses
<1>4. ASSUME calls[c].status \in Live, NEW s \in {"failed", "cancelling", "lost"}, NEW cause, FailCall(c, s, cause)
      PROVE  Silent
  <2> DEFINE table == SetCall(c, s)
             et == OwnerExecutions(c, "failed")
             failure == FailureAt(c.owner, c.task, cause)
             policy == SpecOf(c).policy
  <2>1. Fail(failure, policy, table, et) /\ UNCHANGED <<results, taskResults>>
    BY <1>4 DEF FailCall
  <2>2. CallsOK(table) /\ SameAnswers(table)
    BY <1>1, <1>4, SetCallSilent DEF CallStatuses, CallEnded
  <2> HIDE DEF table, et, failure, policy
  <2>3. SameAnswers(calls')
    BY <2>1, <2>2, FailSilent
  <2> QED
    BY <2>1, <2>3, SameIsSilent
<1>5. CASE Terminated(c)
  BY <1>3, <1>5 DEF Terminated
<1>6. CASE CallFailed(c)
  BY <1>4, <1>6 DEF CallFailed
<1>7. CASE CallTimedOut(c) \/ ElementTimedOut(c)
  BY <1>4, <1>7 DEF CallTimedOut, ElementTimedOut, Live
<1>8. CASE Lost(c)
  BY <1>3, <1>4, <1>8 DEF Lost
<1> QED
  BY <1>2, <1>5, <1>6, <1>7, <1>8

\* A result that is put into its table beside those that are there.
LEMMA AddSilent ==
  ASSUME UNCHANGED <<calls, taskResults>>, NEW key, key.label.kind # "result", NEW list,
         results' = results \/ AddResult(key, list)
  PROVE  Silent
<1>1. SameAnswers(calls')
  BY DEF SameAnswers
<1>2. DOMAIN results' \in {DOMAIN results, DOMAIN results \cup {key}}
  BY DEF AddResult, Put
<1> QED
  BY <1>1, <1>2, SameIsSilent DEF Silent, ResultsSilent

\* Deliveries and the transforms of tasks are silent.
LEMMA TransformIsSilent ==
  ASSUME TypeOK, NEW path, NEW i, NEW source, NEW e, NEW t, NEW r,
         \/ Deliver(path, i, source) \/ TransformFailed(path, i, source)
         \/ TaskInput(e, t) \/ TaskInputFailed(e, t)
         \/ TaskOutput(r) \/ TaskOutputFailed(r)
  PROVE  Silent
<1>1. CallsOK(calls) /\ SameAnswers(calls)
  BY DEF TypeOK, SameAnswers
<1>2. CASE Deliver(path, i, source) \/ TaskInput(e, t)
  BY <1>1, <1>2, SameIsSilent DEF Deliver, TaskInput
<1>3. ASSUME NEW failure, NEW policy, NEW et, Fail(failure, policy, calls, et),
             results' = results, DOMAIN taskResults' = DOMAIN taskResults
      PROVE  Silent
  BY <1>1, <1>3, FailSilent, SameIsSilent
<1>4. CASE TransformFailed(path, i, source)
  BY <1>3, <1>4 DEF TransformFailed
<1>5. CASE TaskInputFailed(e, t)
  BY <1>3, <1>5 DEF TaskInputFailed
<1>6. CASE TaskOutputFailed(r)
  BY <1>3, <1>6 DEF TaskOutputFailed
<1>7. CASE TaskOutput(r)
  <2> DEFINE key == TaskOutputResult(r)
  <2>1. key.label.kind = "output"
    BY DEF TaskOutputResult, ResultKey, Label
  <2>2. /\ calls' = calls /\ taskResults' = [taskResults EXCEPT ![r] = "value"]
        /\ results' = results \/ AddResult(key, {})
    BY <1>7 DEF TaskOutput
  <2> HIDE DEF key
  <2>3. DOMAIN results' \in {DOMAIN results, DOMAIN results \cup {key}} /\ DOMAIN taskResults' = DOMAIN taskResults
    BY <2>2 DEF AddResult, Put
  <2> QED
    BY <1>1, <2>1, <2>2, <2>3, SameIsSilent DEF Silent, ResultsSilent
<1> QED
  BY <1>2, <1>4, <1>5, <1>6, <1>7

\* Making a call is silent.
LEMMA CallIsSilent ==
  ASSUME NEW c, c \notin DOMAIN calls,
         calls' = calls \/ calls' = Put(calls, c, NewCall),
         UNCHANGED <<results, taskResults>>
  PROVE  Silent
<1>1. CASE calls' = calls
  BY <1>1, SameIsSilent DEF SameAnswers
<1>2. CASE calls' = Put(calls, c, NewCall)
  BY <1>2 DEF Put, Silent, CallsSilent, ResultsSilent
<1> QED
  BY <1>1, <1>2

\* Starting, invoking, settling, closing, concluding and cancelling are silent.
LEMMA ControlIsSilent ==
  ASSUME TypeOK, OwnersExist, NEW path, NEW name, NEW trigger, NEW e, NEW t,
         \/ Start \/ Invoke(path, name, trigger) \/ BeginTask(e, t) \/ Settle(path, name)
         \/ CloseExecution(e) \/ CloseRun(path) \/ ConcludeRunning \/ ConcludeStopping \/ Cancel
  PROVE  Silent
<1>1. CallsOK(calls) /\ SameAnswers(calls)
  BY DEF TypeOK, SameAnswers
<1>2. CASE Start \/ ConcludeRunning \/ ConcludeStopping
  BY <1>1, <1>2, SameIsSilent DEF Start, ConcludeRunning, ConcludeStopping
<1>3. CASE Invoke(path, name, trigger)
  <2> DEFINE c == CallKey(InvocationKey(path, name, trigger), None)
  <2>1. /\ calls' = calls \/ (c \notin DOMAIN calls /\ calls' = Put(calls, c, NewCall))
        /\ UNCHANGED <<results, taskResults>>
    BY <1>3 DEF Invoke
  <2> HIDE DEF c
  <2> QED
    BY <1>1, <2>1, CallIsSilent, SameIsSilent
<1>4. CASE BeginTask(e, t)
  <2> DEFINE c == CallKey(e, t)
  <2>1. /\ calls' = calls \/ (c \notin DOMAIN calls /\ calls' = Put(calls, c, NewCall))
        /\ UNCHANGED <<results, taskResults>>
    BY <1>4 DEF BeginTask
  <2> HIDE DEF c
  <2> QED
    BY <1>1, <2>1, CallIsSilent, SameIsSilent
<1>5. CASE Settle(path, name)
  <2> DEFINE key == AggregateResult(path, name)
  <2>1. key.label.kind = "aggregate"
    BY DEF AggregateResult, ResultKey, Label
  <2>2. UNCHANGED <<calls, taskResults>> /\ (results' = results \/ \E list : AddResult(key, list))
    BY <1>5 DEF Settle
  <2> HIDE DEF key
  <2> QED
    BY <2>1, <2>2, AddSilent
<1>6. CASE CloseExecution(e)
  <2> DEFINE key == ListResult(e)
  <2>1. key.label.kind = "list"
    BY DEF ListResult, ResultKey, Label
  <2>2. UNCHANGED <<calls, taskResults>> /\ (results' = results \/ \E list : AddResult(key, list))
    BY <1>6 DEF CloseExecution
  <2> HIDE DEF key
  <2> QED
    BY <2>1, <2>2, AddSilent
<1>7. CASE CloseRun(path)
  <2> DEFINE owner == RunOwner(path)
             task == RunTask(path)
             new == Returned(owner)
             key == TaskResultKey(owner, task, 0)
  <2>1. path # Root /\ path \in DOMAIN runs /\ path = Child(owner, task)
    BY <1>7 DEF CloseRun, Open, OwnersExist, RunOwned, CallKey
  <2>2. new.label.kind = "return"
    BY DEF Returned, ResultKey, Label
  <2>3. Child(key.execution, key.task) = path
    BY <2>1 DEF TaskResultKey
  <2>4. /\ calls' = calls /\ DOMAIN runs' = DOMAIN runs
        /\ \/ UNCHANGED taskResults /\ (results' = results \/ AddResult(new, {}))
           \/ UNCHANGED results /\ (taskResults' = taskResults \/ taskResults' = Put(taskResults, key, "pending"))
    BY <1>7 DEF CloseRun
  <2> HIDE DEF owner, task, new, key
  <2>5. CASE UNCHANGED taskResults /\ (results' = results \/ AddResult(new, {}))
    BY <2>2, <2>4, <2>5, AddSilent
  <2>6. CASE UNCHANGED results /\ (taskResults' = taskResults \/ taskResults' = Put(taskResults, key, "pending"))
    <3>1. DOMAIN taskResults' \in {DOMAIN taskResults, DOMAIN taskResults \cup {key}}
      BY <2>6 DEF Put
    <3> QED
      BY <1>1, <2>1, <2>3, <2>4, <2>6, <3>1, SameIsSilent DEF Silent, ResultsSilent
  <2> QED
    BY <2>4, <2>5, <2>6
<1>8. CASE Cancel
  <2>1. calls' = calls \/ calls' = CancelLive(calls)
    BY <1>8 DEF Cancel, Stop
  <2> QED
    BY <1>1, <1>8, <2>1, CancelLiveSilent, SameIsSilent DEF Cancel
<1> QED
  BY <1>2, <1>3, <1>4, <1>5, <1>6, <1>7, <1>8

-----------------------------------------------------------------------------
(* The results of calls *)

\* Every step keeps the count, and every result its source.
LEMMA StepKeepsCount ==
  ASSUME TypeOK, OwnersExist, Counted, Sourced, [Next]_vars
  PROVE  Counted' /\ Sourced'
<1>1. TypeOK' /\ OwnersExist' /\ Grows
  BY StepKeepsTypes
<1>2. Silent => Counted' /\ Sourced'
  BY <1>1, SilentKeeps
<1>3. CASE Control
  <2>1. ASSUME NEW path, NEW name, NEW trigger, NEW e, NEW t,
               \/ Start \/ Invoke(path, name, trigger) \/ BeginTask(e, t) \/ Settle(path, name)
               \/ CloseExecution(e) \/ CloseRun(path) \/ ConcludeRunning \/ ConcludeStopping
        PROVE  Silent
    BY <2>1, ControlIsSilent
  <2>2. ASSUME NEW path, NEW i, NEW source, NEW e, NEW t, NEW r,
               Deliver(path, i, source) \/ TaskInput(e, t) \/ TaskOutput(r)
        PROVE  Silent
    BY <2>2, TransformIsSilent
  <2>3. ASSUME NEW c \in DOMAIN calls, Fetch(c) PROVE Silent
    BY <2>3, EndIsSilent
  <2> QED
    BY <1>2, <1>3, <2>1, <2>2, <2>3 DEF Control
<1>4. ASSUME NEW c \in DOMAIN calls, Report(c) PROVE Counted' /\ Sourced'
  <2>1. CASE Terminated(c)
    BY <1>2, <2>1, EndIsSilent
  <2> QED
    BY <1>1, <1>4, <2>1, AnswerKeeps DEF Report
<1>5. CASE Environment
  <2>1. ASSUME NEW c \in DOMAIN calls, CallFailed(c) \/ CallTimedOut(c) \/ ElementTimedOut(c) \/ Lost(c)
        PROVE  Silent
    BY <2>1, EndIsSilent
  <2>2. ASSUME NEW path, NEW i, NEW source, NEW e, NEW t, NEW r,
               TransformFailed(path, i, source) \/ TaskInputFailed(e, t) \/ TaskOutputFailed(r)
        PROVE  Silent
    BY <2>2, TransformIsSilent
  <2>3. CASE Cancel
    BY <1>2, <2>3, ControlIsSilent
  <2> QED
    BY <1>2, <1>5, <2>1, <2>2, <2>3 DEF Environment
<1>6. CASE UNCHANGED vars
  BY <1>2, <1>6, SameIsSilent DEF vars, SameAnswers
<1> QED
  BY <1>3, <1>4, <1>5, <1>6 DEF Next, Done

\* The count says which results were accepted.
LEMMA CountGivesResults == TypeOK /\ Counted => ResultsMatchCalls
<1> SUFFICES ASSUME TypeOK, Counted, NEW c \in DOMAIN calls
             PROVE  Accepted(c) = IF IsStream(c) THEN 0..(calls[c].yields - 1)
                                  ELSE IF calls[c].status = "returned" THEN {0} ELSE {}
  BY DEF ResultsMatchCalls
<1>1. Accepted(c) = {n \in 0..MaxYields : Has(c, n)}
  BY DEF Accepted, Has
<1>2. Accepted(c) = {n \in 0..MaxYields : Answered(c, n)}
  BY <1>1 DEF Counted
<1>3. MaxYields \in Nat /\ calls[c].yields \in Nat /\ calls[c].yields <= MaxYields
  BY MachineAssumption DEF TypeOK, CallsOK, Counted
<1>4. CASE IsStream(c)
  <2>1. \A n \in 0..MaxYields : Answered(c, n) <=> n < calls[c].yields
    BY <1>4 DEF Answered
  <2> QED
    BY <1>2, <1>3, <1>4, <2>1
<1>5. CASE ~IsStream(c)
  BY <1>2, <1>3, <1>5 DEF Answered
<1> QED
  BY <1>4, <1>5

\* The elements accepted from a Stream call are numbered without gaps, and any
\* other call has one result exactly if it returned: whatever times out, is
\* lost, cancelled or stopped, a late answer leaves no result, and none is
\* taken twice.
THEOREM ResultsAlwaysMatch == Spec => []ResultsMatchCalls
<1>1. Init => Counted /\ Sourced
  BY DEF Init, Counted, Sourced
<1>2. TypeOK /\ OwnersExist /\ Counted /\ Sourced /\ [Next]_vars => (Counted /\ Sourced)'
  BY StepKeepsCount
<1> QED
  BY <1>1, <1>2, CountGivesResults, TypeCorrect, OwnersAlwaysExist, PTL DEF Spec

-----------------------------------------------------------------------------
(* Kinds: the derivation reaches a fixpoint *)

\* A set of natural numbers that is not empty has a least element.
LEMMA LeastNatural ==
  ASSUME NEW T, T \subseteq Nat, T # {}
  PROVE  \E n \in T : \A m \in T : n <= m
<1>1. PICK R : R = OpToRel(<, Nat)
  OBVIOUS
<1>2. \A x, y \in Nat : x < y => <<x, y>> \in R
  BY <1>1 DEF OpToRel
<1>3. IsWellFoundedOn(R, Nat)
  BY <1>1, NatLessThanWellFounded
<1>4. PICK x \in T : \A y \in T : ~(<<y, x>> \in R)
  BY <1>3, WFMin
<1>5. ASSUME NEW m \in T
      PROVE  x <= m
  <2>1. ~(m < x)
    BY <1>2, <1>4
  <2> QED
    BY <2>1
<1> QED
  BY <1>5

\* One round of the derivation.
Round(w, kinds) ==
  [name \in Placements(w) |-> OutputKind(Node(w, name), InputKind(w, name, kinds))]
NoKinds(w) == [name \in Placements(w) |-> "unknown"]
\* A placement whose kind is known in one table has it in the other.
Refines(w, old, new) ==
  \A name \in Placements(w) : old[name] # "unknown" => new[name] = old[name]

\* Rounds can be counted: there is a function of the number of rounds done.
LEMMA RoundsExist ==
  ASSUME NEW w, NEW N \in Nat
  PROVE  \E f : f = [n \in 0..N |-> IF n = 0 THEN NoKinds(w) ELSE Round(w, f[n - 1])]
<1> DEFINE Good(m) == \E f : f = [n \in 0..m |-> IF n = 0 THEN NoKinds(w) ELSE Round(w, f[n - 1])]
           T == {m \in Nat : ~Good(m)}
<1> SUFFICES ASSUME T # {}
             PROVE  FALSE
  OBVIOUS
<1>1. PICK m \in T : \A k \in T : m <= k
  BY LeastNatural
<1>2. m # 0
  <2>1. Good(0)
    <3> DEFINE f == [n \in 0..0 |-> NoKinds(w)]
    <3>1. f = [n \in 0..0 |-> IF n = 0 THEN NoKinds(w) ELSE Round(w, f[n - 1])]
      OBVIOUS
    <3> QED
      BY <3>1
  <2> QED
    BY <2>1
<1>3. m - 1 \in Nat /\ m - 1 < m /\ Good(m - 1)
  <2>1. m - 1 \in Nat /\ m - 1 < m
    BY <1>2
  <2>2. m - 1 \notin T
    BY <1>1, <2>1
  <2> QED
    BY <2>1, <2>2
<1>4. PICK f : f = [n \in 0..(m - 1) |-> IF n = 0 THEN NoKinds(w) ELSE Round(w, f[n - 1])]
  BY <1>3
<1> DEFINE g == [n \in 0..m |-> IF n = m THEN Round(w, f[m - 1]) ELSE f[n]]
<1>5. \A n \in 0..m : g[n] = IF n = 0 THEN NoKinds(w) ELSE Round(w, g[n - 1])
  <2> TAKE n \in 0..m
  <2>1. CASE n = m
    BY <2>1, <1>2, <1>3
  <2>2. CASE n # m
    <3>1. n \in 0..(m - 1) /\ g[n] = f[n]
      BY <2>2, <1>3
    <3>2. n # 0 => g[n - 1] = f[n - 1]
      BY <3>1, <1>3
    <3>3. f[n] = IF n = 0 THEN NoKinds(w) ELSE Round(w, f[n - 1])
      BY <3>1, <1>4
    <3> QED
      BY <3>1, <3>2, <3>3
  <2> QED
    BY <2>1, <2>2
<1>6. Good(m)
  <2>1. g = [n \in 0..m |-> IF n = 0 THEN NoKinds(w) ELSE Round(w, g[n - 1])]
    BY <1>5
  <2> QED
    BY <2>1
<1> QED
  BY <1>6

\* A round leaves alone what was known, given that the round before it did.
LEMMA RoundRefines ==
  ASSUME NEW w, NEW old, NEW new, Refines(w, old, new),
         IsFiniteSet(Edges(w)), \A i \in Edges(w) : Edge(w, i).source \in Placements(w)
  PROVE  Refines(w, Round(w, old), Round(w, new))
<1> SUFFICES ASSUME NEW name \in Placements(w), Round(w, old)[name] # "unknown"
             PROVE  InputKind(w, name, new) = InputKind(w, name, old)
  BY DEF Refines, Round
<1> DEFINE before == {old[Edge(w, i).source] : i \in Incoming(w, name)}
           after  == {new[Edge(w, i).source] : i \in Incoming(w, name)}
<1>1. InputKind(w, name, old) # "unknown"
  BY DEF Round, OutputKind
<1>2. CASE Incoming(w, name) = {}
  <2>1. before = {} /\ after = {}
    BY <1>2
  <2> QED
    BY <2>1 DEF InputKind
<1>3. CASE Incoming(w, name) # {}
  <2>1. before # {} /\ after # {}
    BY <1>3
  <2>2. w.entry # name /\ Cardinality(before) = 1 /\ InputKind(w, name, old) = CHOOSE k \in before : TRUE
    BY <1>1, <2>1 DEF InputKind
  <2>3. PICK k : before = {k}
    <3> DEFINE of == [i \in Incoming(w, name) |-> old[Edge(w, i).source]]
    <3>1. IsFiniteSet(Incoming(w, name))
      BY FS_Subset DEF Incoming
    <3>2. of \in Surjection(Incoming(w, name), before)
      BY DEF Surjection
    <3>3. IsFiniteSet(before)
      BY <3>1, <3>2, FS_Surjection
    <3> QED
      BY <2>2, <3>3, FS_Singleton
  <2>4. k # "unknown"
    BY <1>1, <2>2, <2>3
  <2>5. \A i \in Incoming(w, name) : old[Edge(w, i).source] = k /\ new[Edge(w, i).source] = k
    BY <2>3, <2>4 DEF Refines, Incoming
  <2>6. after = before
    BY <2>5
  <2> QED
    BY <2>6 DEF InputKind
<1> QED
  BY <1>2, <1>3

\* If the kind of every placement is derived, one more round changes none.
LEMMA KindsAreStable ==
  ASSUME NEW w, IsFiniteSet(Placements(w)),
         IsFiniteSet(Edges(w)), \A i \in Edges(w) : Edge(w, i).source \in Placements(w),
         \A name \in Placements(w) : DeriveKinds(w)[name] # "unknown"
  PROVE  /\ DeriveKinds(w) = Round(w, DeriveKinds(w))
         /\ \A name \in Placements(w) : DeriveKinds(w)[name] \in {"single", "stream"}
<1> DEFINE N == Cardinality(Placements(w))
<1>1. N \in Nat
  BY FS_CardinalityType
<1>2. PICK f : /\ f = [n \in 0..N |-> IF n = 0 THEN NoKinds(w) ELSE Round(w, f[n - 1])]
               /\ DeriveKinds(w) = f[N]
  <2> DEFINE Is(f) == f = [n \in 0..N |-> IF n = 0 THEN NoKinds(w) ELSE Round(w, f[n - 1])]
  <2>1. \E f : Is(f)
    BY <1>1, RoundsExist
  <2>2. Is(CHOOSE f : Is(f))
    BY <2>1
  <2>3. DeriveKinds(w) = (CHOOSE f : Is(f))[N]
    BY DEF DeriveKinds, Round, NoKinds
  <2> QED
    BY <2>2, <2>3
<1>3. \A n \in 1..N : Refines(w, f[n - 1], f[n])
  <2> DEFINE T == {n \in Nat : n \in 1..N /\ ~Refines(w, f[n - 1], f[n])}
  <2> SUFFICES ASSUME T # {}
               PROVE  FALSE
    BY <1>1
  <2>1. PICK n \in T : \A k \in T : n <= k
    BY LeastNatural
  <2>2. n # 1
    BY <1>1, <1>2 DEF Refines, NoKinds
  <2>3. n - 1 \in 1..N /\ n - 1 \notin T /\ n - 2 \in 0..N
    BY <1>1, <2>1, <2>2
  <2>4. Refines(w, f[n - 2], f[n - 1])
    BY <1>1, <2>3
  <2>5. f[n - 1] = Round(w, f[n - 2]) /\ f[n] = Round(w, f[n - 1])
    BY <1>1, <1>2, <2>1, <2>2, <2>3
  <2> QED
    BY <2>4, <2>5, RoundRefines
<1>6. \A n \in 0..N : \A name \in Placements(w) : f[n][name] \in {"unknown", "single", "stream"}
  <2> DEFINE Typed(k) == \A name \in Placements(w) : f[k][name] \in {"unknown", "single", "stream"}
             T == {n \in Nat : n \in 0..N /\ ~Typed(n)}
  <2> SUFFICES ASSUME T # {}
               PROVE  FALSE
    BY <1>1
  <2>1. PICK n \in T : \A k \in T : n <= k
    BY LeastNatural
  <2>2. n # 0
    BY <1>1, <1>2 DEF NoKinds
  <2>3. n \in 0..N /\ n - 1 \in 0..N /\ n - 1 \in Nat /\ ~(n <= n - 1)
    BY <1>1, <2>1, <2>2
  <2>4. Typed(n - 1)
    BY <2>1, <2>3
  <2>5. f[n] = Round(w, f[n - 1])
    BY <1>1, <1>2, <2>2, <2>3
  <2>6. PICK before : before = f[n - 1]
    OBVIOUS
  <2>7. \A name \in Placements(w) : InputKind(w, name, before) \in {"unknown", "none", "single", "stream"}
    BY <2>4, <2>6 DEF InputKind, Incoming
  <2>8. Typed(n)
    BY <2>5, <2>6, <2>7 DEF Round, OutputKind
  <2> QED
    BY <2>1, <2>8
<1>4. CASE N = 0
  <2>1. Placements(w) = {}
    BY <1>4, FS_EmptySet
  <2> QED
    BY <1>1, <1>2, <1>4, <2>1 DEF NoKinds, Round
<1>5. CASE N # 0
  <2>1. N \in 1..N /\ f[N] = Round(w, f[N - 1])
    BY <1>1, <1>2, <1>5
  <2>2. Refines(w, f[N], Round(w, f[N]))
    BY <1>3, <2>1, RoundRefines
  <2>3. \A name \in Placements(w) : f[N][name] = Round(w, f[N])[name]
    BY <1>2, <2>2 DEF Refines
  <2>4. DOMAIN f[N] = Placements(w) /\ f[N] = [name \in Placements(w) |-> f[N][name]]
    BY <2>1 DEF Round
  <2>5. f[N] = Round(w, f[N])
    BY <2>3, <2>4 DEF Round
  <2>6. \A name \in Placements(w) : f[N][name] \in {"single", "stream"}
    <3>1. N \in 0..N
      BY <1>1
    <3>2. \A name \in Placements(w) : f[N][name] \in {"unknown", "single", "stream"}
      BY <1>6, <3>1
    <3>3. f[N] = DeriveKinds(w)
      BY <1>2
    <3> QED
      BY <3>2, <3>3
  <2> QED
    BY <1>2, <2>5, <2>6
<1> QED
  BY <1>4, <1>5

-----------------------------------------------------------------------------
(* What validation says of a placement *)

NodeTypes == {"function", "subworkflow", "branch", "waitStream", "merge", "concurrency"}

\* A workflow of the library is valid, with the kinds it was given.
LEMMA WorkflowIsValid ==
  ASSUME NEW id \in DOMAIN WorkflowTable
  PROVE  LET w == WorkflowTable[id]
         IN  /\ ValidWorkflow(WorkflowTable, w)
             /\ \A name \in Placements(w) : Kinds[id][name] \in {"single", "stream"}
             /\ \A i \in Edges(w) : ValidConnection(WorkflowTable, w, Edge(w, i))
             /\ \A name \in Placements(w) : ValidPlacement(WorkflowTable, w, name, Kinds[id])
             /\ \A name \in Placements(w) :
                  Kinds[id][name] = OutputKind(Node(w, name), InputKind(w, name, Kinds[id]))
<1> DEFINE w == WorkflowTable[id]
<1>1. ValidWorkflow(WorkflowTable, w)
  BY DefinitionAssumption DEF ValidDefinition
<1> HIDE DEF w
<1>2. /\ IsFiniteSet(Placements(w)) /\ IsFiniteSet(Edges(w))
      /\ \A i \in Edges(w) : ValidConnection(WorkflowTable, w, Edge(w, i))
      /\ \A name \in Placements(w) : ValidPlacement(WorkflowTable, w, name, DeriveKinds(w))
  BY <1>1 DEF ValidWorkflow
<1>3. /\ DeriveKinds(w) = Round(w, DeriveKinds(w))
      /\ \A name \in Placements(w) : DeriveKinds(w)[name] \in {"single", "stream"}
  BY <1>2, KindsAreStable DEF ValidConnection, ValidPlacement
<1>4. Kinds[id] = DeriveKinds(w)
  BY DEF Kinds, w
<1>5. \A name \in Placements(w) :
        DeriveKinds(w)[name] = OutputKind(Node(w, name), InputKind(w, name, DeriveKinds(w)))
  BY <1>3 DEF Round
<1> QED
  BY <1>1, <1>2, <1>3, <1>4, <1>5 DEF w

\* The connections into a placement: a merge has some, all from Single
\* placements; any other has none or one, and what it takes in is of the kind
\* of its source.
LEMMA InputIsValid ==
  ASSUME NEW id \in DOMAIN WorkflowTable, NEW name \in Placements(WorkflowTable[id])
  PROVE  LET w == WorkflowTable[id]
             node == Node(w, name)
             input == InputKind(w, name, Kinds[id])
         IN  /\ node.type # "merge" => Incoming(w, name) = {} \/ \E i : Incoming(w, name) = {i}
             /\ node.type = "merge" => /\ Incoming(w, name) # {}
                                       /\ \A i \in Incoming(w, name) : Kinds[id][Edge(w, i).source] = "single"
             /\ w.entry = name => Incoming(w, name) = {} /\ node.type # "merge"
             /\ Incoming(w, name) = {} => input = IF w.entry = name THEN "single" ELSE "none"
             /\ \A i : Incoming(w, name) = {i} => input = Kinds[id][Edge(w, i).source]
<1> DEFINE w == WorkflowTable[id]
           node == Node(w, name)
           kinds == Kinds[id]
<1>1. /\ ValidWorkflow(WorkflowTable, w)
      /\ ValidPlacement(WorkflowTable, w, name, kinds)
  BY WorkflowIsValid
<1> HIDE DEF w, kinds
<1>2. IsFiniteSet(Incoming(w, name))
  <2>1. IsFiniteSet(Edges(w))
    BY <1>1 DEF ValidWorkflow
  <2> QED
    BY <2>1, FS_Subset DEF Incoming
<1>3. w.entry = name => Incoming(w, name) = {} /\ node.type # "merge"
  <2>1. None \notin Placements(w) /\ ValidEntry(WorkflowTable, w)
    BY <1>1 DEF ValidWorkflow
  <2> QED
    BY <2>1 DEF ValidEntry, w
<1>4. node.type # "merge" => Incoming(w, name) = {} \/ \E i : Incoming(w, name) = {i}
  <2> SUFFICES ASSUME node.type # "merge", Incoming(w, name) # {}
               PROVE  \E i : Incoming(w, name) = {i}
    OBVIOUS
  <2>1. Cardinality(Incoming(w, name)) \in Nat
    BY <1>2, FS_CardinalityType
  <2>2. Cardinality(Incoming(w, name)) <= 1
    BY <1>1, <2>1 DEF ValidPlacement
  <2>3. Cardinality(Incoming(w, name)) # 0
    BY <1>2, FS_EmptySet
  <2>4. Cardinality(Incoming(w, name)) = 1
    BY <2>1, <2>2, <2>3
  <2> QED
    BY <1>2, <2>4, FS_Singleton
<1>5. node.type = "merge" => /\ Incoming(w, name) # {}
                            /\ \A i \in Incoming(w, name) : kinds[Edge(w, i).source] = "single"
  BY <1>1 DEF ValidPlacement, ValidNode
<1>6. Incoming(w, name) = {} => InputKind(w, name, kinds) = IF w.entry = name THEN "single" ELSE "none"
  <2> SUFFICES ASSUME Incoming(w, name) = {}
               PROVE  InputKind(w, name, kinds) = IF w.entry = name THEN "single" ELSE "none"
    OBVIOUS
  <2>1. PICK sources : sources = {kinds[Edge(w, i).source] : i \in Incoming(w, name)}
    OBVIOUS
  <2>2. sources = {}
    BY <2>1
  <2>3. Cardinality(sources) = 0
    BY <2>2, FS_EmptySet
  <2>4. CASE w.entry = name
    BY <2>1, <2>2, <2>3, <2>4 DEF InputKind
  <2>5. CASE w.entry # name
    BY <2>1, <2>2, <2>3, <2>5 DEF InputKind
  <2> QED
    BY <2>4, <2>5
<1>7. ASSUME NEW i, Incoming(w, name) = {i}
      PROVE  InputKind(w, name, kinds) = kinds[Edge(w, i).source]
  <2> DEFINE sources == {kinds[Edge(w, j).source] : j \in Incoming(w, name)}
  <2>1. sources = {kinds[Edge(w, i).source]}
    BY <1>7
  <2>2. Cardinality(sources) = 1
    BY <2>1, FS_Singleton
  <2>3. w.entry # name
    BY <1>3, <1>7
  <2> QED
    BY <2>1, <2>2, <2>3 DEF InputKind
<1> QED
  BY <1>3, <1>4, <1>5, <1>6, <1>7 DEF w, kinds

\* The node of a placement and the kind of its results.
LEMMA OutputIsValid ==
  ASSUME NEW id \in DOMAIN WorkflowTable, NEW name \in Placements(WorkflowTable[id])
  PROVE  LET w == WorkflowTable[id]
             node == Node(w, name)
             input == InputKind(w, name, Kinds[id])
             kind == Kinds[id][name]
         IN  /\ node.type \in NodeTypes
             /\ kind \in {"single", "stream"}
             /\ node.type = "waitStream" => input = "stream" /\ kind = "single"
             /\ node.type = "merge" => kind = "single"
             /\ node.type = "branch" => input = kind /\ node.arms # {} /\ None \notin node.arms
             /\ kind = "single" /\ node.type \notin {"merge", "waitStream"} => input # "stream"
             /\ kind = "single" /\ node.type = "function" => ~FunctionTable[node.function].stream
             /\ node.type = "concurrency" => /\ node.output \in {"list", "stream"}
                                             /\ kind = "single" => node.output = "list"
<1> DEFINE w == WorkflowTable[id]
           node == Node(w, name)
           kinds == Kinds[id]
           input == InputKind(w, name, kinds)
<1>1. /\ ValidPlacement(WorkflowTable, w, name, kinds)
      /\ kinds[name] = OutputKind(node, input)
  BY WorkflowIsValid
<1>2. ValidNode(WorkflowTable, w, name, kinds) /\ kinds[name] # "unknown"
  BY <1>1 DEF ValidPlacement
<1> HIDE DEF w, kinds
<1>3. node.type \in NodeTypes /\ input # "unknown"
  BY <1>1, <1>2 DEF OutputKind, NodeTypes
<1>4. node.type = "waitStream" => input = "stream"
  BY <1>2 DEF ValidNode
<1>5. node.type = "branch" => input = kinds[name] /\ input # "none"
  BY <1>1, <1>2, <1>3 DEF OutputKind
<1>6. kinds[name] \in {"single", "stream"}
  BY <1>2, WorkflowIsValid DEF kinds, w
<1> HIDE DEF node, input
<1>7. /\ node.type = "merge" => kinds[name] = "single"
      /\ node.type = "waitStream" => kinds[name] = "single"
  BY <1>1, <1>2, <1>4 DEF OutputKind
<1>8. node.type \in {"function", "subworkflow", "concurrency", "branch"} /\ kinds[name] = "single" => input # "stream"
  BY <1>1, <1>3, <1>5 DEF OutputKind
<1>9. node.type = "function" /\ kinds[name] = "single" => ~FunctionTable[node.function].stream
  BY <1>1, <1>3 DEF OutputKind
<1>10. node.type = "concurrency" => node.output \in {"list", "stream"}
  BY <1>2 DEF ValidNode, node
<1>11. node.type = "concurrency" /\ kinds[name] = "single" => node.output # "stream"
  BY <1>1, <1>3 DEF OutputKind
<1>12. node.type = "branch" => node.arms # {} /\ None \notin node.arms
  BY <1>2 DEF ValidNode, node
<1> QED
  BY <1>3, <1>4, <1>5, <1>6, <1>7, <1>8, <1>9, <1>10, <1>11, <1>12 DEF w, kinds, node, input, NodeTypes

-----------------------------------------------------------------------------
(* Life: what the status of an owner says of what it owns *)

\* The statuses that the owner of a call with this status may have.
OwnerMay(s) ==
  CASE s \in Live -> {"active"}
    [] s = "cancelling" -> {"active", "failed"}
    [] s = "returned" -> {"succeeded"}
    [] s = "cancelled" -> {"cancelled", "failed"}
    [] OTHER -> {"failed"}

\* What was active when a stopped execution ended stays open, cancelled.
OpenWith(s) == s = "active" \/ (s = "cancelled" /\ status \in Terminal)

\* The invocation or task that called the workflow run at path.
CallerOf(path) == CallKey(RunOwner(path), RunTask(path))

CallLife == \A c \in DOMAIN calls : OwnerStatus(c) \in OwnerMay(calls[c].status)
RunLife ==
  \A p \in DOMAIN runs \ {Root} :
    IF runs[p].complete THEN OwnerStatus(CallerOf(p)) \in {"succeeded", "skipped", "failed", "upstreamFailed"}
                        ELSE OpenWith(OwnerStatus(CallerOf(p)))
ExecutionLife ==
  \A e \in DOMAIN executions :
    IF executions[e].complete
    THEN /\ invocations[e].status \in {"succeeded", "skipped"}
         /\ \A t \in DOMAIN executions[e].tasks : TaskEnded(e, t)
    ELSE OpenWith(invocations[e].status)
\* Whatever is invoked has its call, its run or its execution.
Provided(k) ==
  LET type == ConcurrencyOf(k).type
  IN  \/ type \in {"function", "branch"} /\ CallKey(k, None) \in DOMAIN calls
      \/ type = "subworkflow" /\ Child(k, None) \in DOMAIN runs
      \/ type = "concurrency" /\ k \in DOMAIN executions

Life == CallLife /\ RunLife /\ ExecutionLife /\ \A k \in DOMAIN invocations : Provided(k)

\* Statuses of tasks that have not ended.
Unstarted == {"pending", "ready"}

-----------------------------------------------------------------------------
(* Owners own one thing *)

\* A call, a run and an execution are told apart by their owners.
OwnersDiffer ==
  /\ \A c \in DOMAIN calls :
       /\ c = CallKey(c.owner, c.task)
       /\ c.owner \in DOMAIN invocations
       /\ c.task = None => c.owner \notin DOMAIN executions
       /\ c.task # None => c.owner \in DOMAIN executions /\ c.task \in DOMAIN executions[c.owner].tasks
  /\ \A p \in DOMAIN runs \ {Root} :
       /\ p = Child(RunOwner(p), RunTask(p))
       /\ CallerOf(p) \notin DOMAIN calls
       /\ RunOwner(p) \in DOMAIN invocations
       /\ RunTask(p) = None => RunOwner(p) \notin DOMAIN executions
       /\ RunTask(p) # None => /\ RunOwner(p) \in DOMAIN executions
                              /\ RunTask(p) \in DOMAIN executions[RunOwner(p)].tasks
  /\ \A e \in DOMAIN executions :
       /\ e \in DOMAIN invocations
       /\ None \notin DOMAIN executions[e].tasks
  /\ \A k \in DOMAIN invocations :
       /\ k = InvocationKey(k.run, k.placement, k.trigger)
       /\ \A t : /\ Child(k, t) # Root
                 /\ RunOwner(Child(k, t)) = k
                 /\ RunTask(Child(k, t)) = t

\* The owners differ because they are of different types.
LEMMA TypesTellOwners == TypeOK /\ OwnersExist => OwnersDiffer
<1> SUFFICES ASSUME TypeOK, OwnersExist
             PROVE  OwnersDiffer
  OBVIOUS
<1>1. TaskFacts /\ OwnerFacts
  BY OwnersGiveTasks
<1>2. ASSUME NEW c \in DOMAIN calls
      PROVE  /\ c = CallKey(c.owner, c.task)
             /\ c.owner \in DOMAIN invocations
             /\ c.task = None => c.owner \notin DOMAIN executions
             /\ c.task # None => c.owner \in DOMAIN executions /\ c.task \in DOMAIN executions[c.owner].tasks
  <2>1. CallOwned(c)
    BY DEF OwnersExist
  <2>2. ASSUME c.task = None, c.owner \in DOMAIN executions
        PROVE  FALSE
    <3>1. ExecutionOwned(c.owner)
      BY <2>2 DEF OwnersExist
    <3> QED
      BY <2>1, <2>2, <3>1 DEF CallOwned, ExecutionOwned, BodyOf, ConcurrencyOf
  <2> QED
    BY <2>1, <2>2 DEF CallOwned, OwnerExists
<1>3. ASSUME NEW p \in DOMAIN runs \ {Root}
      PROVE  /\ p = Child(RunOwner(p), RunTask(p))
             /\ CallerOf(p) \notin DOMAIN calls
             /\ RunOwner(p) \in DOMAIN invocations
             /\ RunTask(p) = None => RunOwner(p) \notin DOMAIN executions
             /\ RunTask(p) # None => /\ RunOwner(p) \in DOMAIN executions
                                    /\ RunTask(p) \in DOMAIN executions[RunOwner(p)].tasks
  <2>1. RunOwned(p)
    BY DEF OwnersExist
  <2>2. /\ p = Child(RunOwner(p), RunTask(p))
        /\ OwnerExists(RunOwner(p), RunTask(p))
        /\ BodyOf(CallerOf(p)).type = "subworkflow"
    BY <2>1 DEF RunOwned, CallerOf, CallKey
  <2>3. ASSUME CallerOf(p) \in DOMAIN calls
        PROVE  FALSE
    <3>1. CallOwned(CallerOf(p))
      BY <2>3 DEF OwnersExist
    <3> QED
      BY <2>2, <3>1 DEF CallOwned
  <2>4. ASSUME RunTask(p) = None, RunOwner(p) \in DOMAIN executions
        PROVE  FALSE
    <3>1. ExecutionOwned(RunOwner(p))
      BY <2>4 DEF OwnersExist
    <3>2. CallerOf(p).owner = RunOwner(p) /\ CallerOf(p).task = None
      BY <2>4 DEF CallerOf, CallKey
    <3> QED
      BY <2>2, <3>1, <3>2 DEF ExecutionOwned, BodyOf, ConcurrencyOf
  <2> QED
    BY <2>2, <2>3, <2>4 DEF OwnerExists
<1>4. ASSUME NEW e \in DOMAIN executions
      PROVE  e \in DOMAIN invocations /\ None \notin DOMAIN executions[e].tasks
  BY <1>1 DEF OwnersExist, ExecutionOwned, TaskFacts
<1>5. ASSUME NEW k \in DOMAIN invocations
      PROVE  /\ k = InvocationKey(k.run, k.placement, k.trigger)
             /\ \A t : /\ Child(k, t) # Root
                       /\ RunOwner(Child(k, t)) = k
                       /\ RunTask(Child(k, t)) = t
  <2>1. InvocationOwned(k)
    BY DEF OwnersExist
  <2>2. k = InvocationKey(k.run, k.placement, k.trigger) /\ IsSequence(k.run)
    BY <2>1 DEF InvocationOwned, TypeOK
  <2> QED
    BY <2>2, ChildPath
<1> QED
  BY <1>2, <1>3, <1>4, <1>5 DEF OwnersDiffer

-----------------------------------------------------------------------------
(* What has ended stays as it is *)

\* A step that changes nothing that has ended, and gives nothing new to what
\* there is but a task that is ready.
Kept ==
  /\ \A c \in DOMAIN calls : c \in DOMAIN calls' /\ (CallEnded(calls[c].status) => calls'[c] = calls[c])
  /\ \A k \in DOMAIN invocations :
       k \in DOMAIN invocations' /\ (invocations[k].status # "active" => invocations'[k] = invocations[k])
  /\ \A e \in DOMAIN executions :
       /\ e \in DOMAIN executions'
       /\ DOMAIN executions'[e].tasks = DOMAIN executions[e].tasks
       /\ executions[e].complete => executions'[e].complete
       /\ \A t \in DOMAIN executions[e].tasks :
            executions[e].tasks[t] \notin Unstarted \cup {"active"}
              => executions'[e].tasks[t] = executions[e].tasks[t]
  /\ \A p \in DOMAIN runs : p \in DOMAIN runs' /\ (runs[p].complete => runs'[p].complete)
  /\ \A c \in DOMAIN calls' \ DOMAIN calls :
       c.owner \in DOMAIN invocations => c.task # None /\ OwnerStatus(c) = "ready"
  /\ \A p \in DOMAIN runs' \ DOMAIN runs :
       p # Root /\ RunOwner(p) \in DOMAIN invocations => RunTask(p) # None /\ OwnerStatus(CallerOf(p)) = "ready"
  /\ \A e \in DOMAIN executions' \ DOMAIN executions : e \notin DOMAIN invocations

\* A task that has ended stays ended.
LEMMA EndedTaskStays ==
  ASSUME OwnersDiffer, Life, Kept, NEW e \in DOMAIN executions, NEW t \in DOMAIN executions[e].tasks, TaskEnded(e, t)
  PROVE  TaskEnded(e, t)'
<1> DEFINE call == CallKey(e, t)
           child == Child(e, t)
<1>1. e \in DOMAIN invocations /\ t # None
  BY DEF OwnersDiffer
<1>2. call.owner = e /\ call.task = t /\ child # Root /\ RunOwner(child) = e /\ RunTask(child) = t
  BY <1>1 DEF CallKey, OwnersDiffer
<1>3. executions[e].tasks[t] \notin Unstarted \cup {"active"}
  BY DEF TaskEnded, Unstarted
<1>4. executions'[e].tasks[t] = executions[e].tasks[t]
  BY <1>3 DEF Kept
<1>5. OwnerStatus(call) = executions[e].tasks[t] /\ CallerOf(child) = call
  BY <1>1, <1>2 DEF OwnerStatus, CallerOf
<1>6. call \in DOMAIN calls' => call \in DOMAIN calls
  BY <1>1, <1>2, <1>3, <1>5 DEF Kept, Unstarted
<1>7. child \in DOMAIN runs' => child \in DOMAIN runs
  BY <1>1, <1>2, <1>3, <1>5 DEF Kept, Unstarted
<1>8. call \in DOMAIN calls => calls'[call].status # "cancelling"
  <2> SUFFICES ASSUME call \in DOMAIN calls
               PROVE  CallEnded(calls[call].status)
    BY DEF Kept, CallEnded
  <2>1. OwnerStatus(call) \in OwnerMay(calls[call].status)
    BY DEF Life, CallLife
  <2>2. calls[call].status # "cancelling"
    BY DEF TaskEnded, HoldsSlot
  <2> QED
    BY <1>3, <1>5, <2>1, <2>2 DEF OwnerMay, CallEnded, Live
<1> QED
  BY <1>3, <1>4, <1>6, <1>7, <1>8 DEF TaskEnded, HoldsSlot, Kept

\* An invocation that has ended stays ended, as it is.
LEMMA EndedInvocationStays ==
  ASSUME OwnersDiffer, Kept, NEW k \in DOMAIN invocations, InvocationEnded(k)
  PROVE  invocations'[k] = invocations[k] /\ InvocationEnded(k)'
<1> DEFINE call == CallKey(k, None)
           child == Child(k, None)
<1>1. call.owner = k /\ call.task = None /\ child # Root /\ RunOwner(child) = k /\ RunTask(child) = None
  BY DEF CallKey, OwnersDiffer
<1>2. invocations'[k] = invocations[k] /\ invocations[k].status # "active"
  BY DEF Kept, InvocationEnded
<1>3. call \in DOMAIN calls' => call \in DOMAIN calls
  BY <1>1 DEF Kept
<1>4. child \in DOMAIN runs' => child \in DOMAIN runs
  BY <1>1 DEF Kept
<1>5. k \in DOMAIN executions' => k \in DOMAIN executions
  BY DEF Kept
<1>6. call \in DOMAIN calls' => CallEnded(calls'[call].status)
  BY <1>3 DEF Kept, InvocationEnded
<1>7. child \in DOMAIN runs' => runs'[child].complete
  BY <1>4 DEF Kept, InvocationEnded
<1>8. k \in DOMAIN executions' => executions'[k].complete
  BY <1>5 DEF Kept, InvocationEnded
<1> QED
  BY <1>2, <1>6, <1>7, <1>8 DEF InvocationEnded

-----------------------------------------------------------------------------
(* Steps that touch the owner of one call *)

\* A call that goes on as it was, unless it is told to stop.
CallSteady(c) ==
  calls'[c] = calls[c] \/ (calls[c].status \in Live /\ calls'[c].status = "cancelling")
\* A task that is left alone, unless it was not begun.
TaskSteady(e, t) ==
  \/ executions'[e].tasks[t] = executions[e].tasks[t]
  \/ executions[e].tasks[t] \in Unstarted /\ executions'[e].tasks[t] # "active"
SameTables ==
  /\ runs' = runs
  /\ DOMAIN calls' = DOMAIN calls
  /\ DOMAIN invocations' = DOMAIN invocations
  /\ SameTasks(executions, executions')
  /\ \A e \in DOMAIN executions : executions'[e].complete = executions[e].complete

\* Something happens to a call that has not ended, and to its owner.
CallEvent(c) ==
  /\ SameTables
  /\ ~CallEnded(calls[c].status)
  /\ \A d \in DOMAIN calls \ {c} : CallSteady(d)
  /\ OwnerStatus(c)' \in OwnerMay(calls'[c].status)
  /\ \A k \in DOMAIN invocations :
       invocations'[k] = invocations[k] \/ (c.task = None /\ k = c.owner /\ invocations[k].status = "active")
  /\ \A e \in DOMAIN executions : \A t \in DOMAIN executions[e].tasks :
       TaskSteady(e, t) \/ (e = c.owner /\ t = c.task /\ executions[e].tasks[t] = "active")

\* Nothing happens but that calls are told to stop and tasks not begun change.
Steady ==
  /\ SameTables
  /\ \A d \in DOMAIN calls : CallSteady(d)
  /\ invocations' = invocations
  /\ \A e \in DOMAIN executions : \A t \in DOMAIN executions[e].tasks : TaskSteady(e, t)

\* Steps of either form leave what has ended alone.
LEMMA EventsKeep ==
  ASSUME OwnersDiffer, Steady \/ \E c \in DOMAIN calls : CallEvent(c)
  PROVE  Kept
<1>1. SameTables /\ \A d \in DOMAIN calls : CallSteady(d) \/ ~CallEnded(calls[d].status)
  BY DEF Steady, CallEvent
<1>2. \A k \in DOMAIN invocations : invocations'[k] = invocations[k] \/ invocations[k].status = "active"
  BY DEF Steady, CallEvent
<1>3. \A e \in DOMAIN executions : \A t \in DOMAIN executions[e].tasks :
        TaskSteady(e, t) \/ executions[e].tasks[t] = "active"
  BY DEF Steady, CallEvent
<1>4. \A c \in DOMAIN calls : CallEnded(calls[c].status) => calls'[c] = calls[c]
  BY <1>1 DEF CallSteady, CallEnded
<1>5. \A e \in DOMAIN executions : \A t \in DOMAIN executions[e].tasks :
        executions[e].tasks[t] \notin Unstarted \cup {"active"}
          => executions'[e].tasks[t] = executions[e].tasks[t]
  BY <1>3 DEF TaskSteady
<1> QED
  BY <1>1, <1>2, <1>4, <1>5 DEF Kept, SameTables, SameTasks

\* The owner of a call that is not touched keeps its status.
LEMMA OthersKeepStatus ==
  ASSUME OwnersDiffer, NEW c, CallEvent(c), NEW d, d.owner \in DOMAIN invocations,
         d = CallKey(d.owner, d.task), c = CallKey(c.owner, c.task), d # c,
         d.task # None => d.owner \in DOMAIN executions /\ d.task \in DOMAIN executions[d.owner].tasks
  PROVE  OwnerStatus(d)' = OwnerStatus(d) \/ OwnerStatus(d) \in Unstarted
<1>1. d.owner # c.owner \/ d.task # c.task
  OBVIOUS
<1>2. CASE d.task = None
  BY <1>1, <1>2 DEF CallEvent, OwnerStatus
<1>3. CASE d.task # None
  BY <1>1, <1>3 DEF CallEvent, OwnerStatus, TaskSteady
<1> QED
  BY <1>2, <1>3

\* A step that touches one call, or none, keeps what owners say of what they
\* own.
LEMMA EventsKeepLife ==
  ASSUME OwnersDiffer, Life, status \notin Terminal, NEW c \in DOMAIN calls, CallEvent(c)
  PROVE  Life'
<1>1. Kept /\ SameTables
  BY EventsKeep DEF CallEvent
<1>2. ASSUME NEW d, d.owner \in DOMAIN invocations, d = CallKey(d.owner, d.task), d # c,
             d.task # None => d.owner \in DOMAIN executions /\ d.task \in DOMAIN executions[d.owner].tasks,
             OwnerStatus(d) \notin Unstarted
      PROVE  OwnerStatus(d)' = OwnerStatus(d)
  BY <1>2, OthersKeepStatus DEF OwnersDiffer
<1>3. CallLife'
  <2> SUFFICES ASSUME NEW d \in DOMAIN calls
               PROVE  OwnerStatus(d)' \in OwnerMay(calls'[d].status)
    BY <1>1 DEF CallLife, SameTables
  <2>1. CASE d = c
    BY <2>1 DEF CallEvent
  <2>2. CASE d # c
    <3>1. OwnerStatus(d) \in OwnerMay(calls[d].status)
      BY DEF Life, CallLife
    <3>2. OwnerStatus(d) \notin Unstarted
      BY <3>1 DEF OwnerMay, Unstarted
    <3>3. OwnerStatus(d)' = OwnerStatus(d)
      BY <1>2, <2>2, <3>2 DEF OwnersDiffer
    <3>4. CallSteady(d)
      BY <2>2 DEF CallEvent
    <3> QED
      BY <3>1, <3>3, <3>4 DEF CallSteady, OwnerMay, Live
  <2> QED
    BY <2>1, <2>2
<1>4. RunLife'
  <2> SUFFICES ASSUME NEW p \in DOMAIN runs \ {Root}
               PROVE  IF runs[p].complete
                      THEN OwnerStatus(CallerOf(p))' \in {"succeeded", "skipped", "failed", "upstreamFailed"}
                      ELSE OwnerStatus(CallerOf(p))' = "active"
    BY <1>1 DEF RunLife, SameTables, OpenWith
  <2> DEFINE d == CallerOf(p)
  <2>1. d.owner = RunOwner(p) /\ d.task = RunTask(p) /\ d # c
    BY DEF CallerOf, CallKey, OwnersDiffer
  <2>2. IF runs[p].complete THEN OwnerStatus(d) \in {"succeeded", "skipped", "failed", "upstreamFailed"}
                            ELSE OwnerStatus(d) = "active"
    BY DEF Life, RunLife, OpenWith
  <2>3. OwnerStatus(d) \notin Unstarted
    BY <2>2 DEF Unstarted
  <2>4. OwnerStatus(d)' = OwnerStatus(d)
    <3>1. d = CallKey(d.owner, d.task)
      BY <2>1 DEF CallerOf
    <3> QED
      BY <1>2, <2>1, <2>3, <3>1 DEF OwnersDiffer
  <2> QED
    BY <2>2, <2>4
<1>5. ExecutionLife'
  <2> SUFFICES ASSUME NEW e \in DOMAIN executions
               PROVE  IF executions[e].complete
                      THEN /\ invocations'[e].status \in {"succeeded", "skipped"}
                           /\ \A t \in DOMAIN executions[e].tasks : TaskEnded(e, t)'
                      ELSE invocations'[e].status = "active"
    BY <1>1 DEF ExecutionLife, SameTables, SameTasks, OpenWith
  <2>1. invocations'[e] = invocations[e]
    BY DEF CallEvent, OwnersDiffer
  <2> QED
    BY <1>1, <2>1, EndedTaskStays DEF Life, ExecutionLife, OpenWith
<1>6. \A k \in DOMAIN invocations' : Provided(k)'
  <2>1. \A k \in DOMAIN invocations : Provided(k)
    BY DEF Life
  <2> QED
    BY <1>1, <2>1 DEF Provided, SameTables, SameTasks, ConcurrencyOf, PlacementOf, WorkflowOf
<1> QED
  BY <1>3, <1>4, <1>5, <1>6 DEF Life

\* A step in which nothing happens to an owner of anything keeps it, too.
LEMMA SteadyKeepsLife ==
  ASSUME OwnersDiffer, Life, status \notin Terminal, Steady
  PROVE  Life'
<1>1. Kept /\ SameTables
  BY EventsKeep DEF Steady
<1>2. ASSUME NEW d, d.owner \in DOMAIN invocations, OwnerStatus(d) \notin Unstarted,
             d.task # None => d.owner \in DOMAIN executions /\ d.task \in DOMAIN executions[d.owner].tasks
      PROVE  OwnerStatus(d)' = OwnerStatus(d)
  BY <1>2 DEF Steady, OwnerStatus, TaskSteady
<1>3. CallLife'
  <2> SUFFICES ASSUME NEW d \in DOMAIN calls
               PROVE  OwnerStatus(d)' \in OwnerMay(calls'[d].status)
    BY <1>1 DEF CallLife, SameTables
  <2>1. OwnerStatus(d) \in OwnerMay(calls[d].status)
    BY DEF Life, CallLife
  <2>2. OwnerStatus(d) \notin Unstarted
    BY <2>1 DEF OwnerMay, Unstarted
  <2>3. OwnerStatus(d)' = OwnerStatus(d)
    BY <1>2, <2>2 DEF OwnersDiffer
  <2>4. CallSteady(d)
    BY DEF Steady
  <2> QED
    BY <2>1, <2>3, <2>4 DEF CallSteady, OwnerMay, Live
<1>4. RunLife'
  <2> SUFFICES ASSUME NEW p \in DOMAIN runs \ {Root}
               PROVE  IF runs[p].complete
                      THEN OwnerStatus(CallerOf(p))' \in {"succeeded", "skipped", "failed", "upstreamFailed"}
                      ELSE OwnerStatus(CallerOf(p))' = "active"
    BY <1>1 DEF RunLife, SameTables, OpenWith
  <2> DEFINE d == CallerOf(p)
  <2>1. d.owner = RunOwner(p) /\ d.task = RunTask(p)
    BY DEF CallerOf, CallKey
  <2>2. IF runs[p].complete THEN OwnerStatus(d) \in {"succeeded", "skipped", "failed", "upstreamFailed"}
                            ELSE OwnerStatus(d) = "active"
    BY DEF Life, RunLife, OpenWith
  <2>3. OwnerStatus(d) \notin Unstarted
    BY <2>2 DEF Unstarted
  <2>4. OwnerStatus(d)' = OwnerStatus(d)
    BY <1>2, <2>1, <2>3 DEF OwnersDiffer
  <2> QED
    BY <2>2, <2>4
<1>5. ExecutionLife'
  <2> SUFFICES ASSUME NEW e \in DOMAIN executions
               PROVE  IF executions[e].complete
                      THEN /\ invocations'[e].status \in {"succeeded", "skipped"}
                           /\ \A t \in DOMAIN executions[e].tasks : TaskEnded(e, t)'
                      ELSE invocations'[e].status = "active"
    BY <1>1 DEF ExecutionLife, SameTables, SameTasks, OpenWith
  <2>1. invocations'[e] = invocations[e]
    BY DEF Steady
  <2> QED
    BY <1>1, <2>1, EndedTaskStays DEF Life, ExecutionLife, OpenWith
<1>6. \A k \in DOMAIN invocations' : Provided(k)'
  <2>1. \A k \in DOMAIN invocations : Provided(k)
    BY DEF Life
  <2> QED
    BY <1>1, <2>1 DEF Provided, SameTables, SameTasks, ConcurrencyOf, PlacementOf, WorkflowOf
<1> QED
  BY <1>3, <1>4, <1>5, <1>6 DEF Life

\* So does a step that does something to the run of the main workflow only.
LEMMA RootKeepsLife ==
  ASSUME OwnersExist, OwnersDiffer, Life, status \notin Terminal, UNCHANGED <<invocations, calls, executions>>,
         Grows, \A p \in DOMAIN runs' \ {Root} : p \in DOMAIN runs /\ runs'[p] = runs[p],
         Root \in DOMAIN runs => (runs[Root].complete => runs'[Root].complete)
  PROVE  Kept /\ Life'
<1>1. Kept
  BY DEF Kept, Grows
<1>2. CallLife'
  BY DEF Life, CallLife, OwnerStatus
<1>3. RunLife'
  BY DEF Life, RunLife, OwnerStatus, OpenWith
<1>4. ExecutionLife'
  BY <1>1, EndedTaskStays DEF Life, ExecutionLife, OpenWith
<1>5. ASSUME NEW k \in DOMAIN invocations
      PROVE  Provided(k)'
  <2>1. k.run \in DOMAIN runs /\ Provided(k)
    BY DEF OwnersExist, InvocationOwned, Life
  <2>2. ConcurrencyOf(k)' = ConcurrencyOf(k)
    BY <2>1, LookupsStay
  <2> QED
    BY <2>1, <2>2 DEF Provided, Grows
<1> QED
  BY <1>1, <1>2, <1>3, <1>4, <1>5 DEF Life

-----------------------------------------------------------------------------
(* The forms of the steps *)

\* From these tables calls were told to stop and tasks not begun were dropped,
\* if anything.
StopsAtMost(callTable, executionTable) ==
  /\ DOMAIN calls' = DOMAIN callTable
  /\ \A c \in DOMAIN callTable :
       \/ calls'[c] = callTable[c]
       \/ callTable[c].status \in Live /\ calls'[c].status = "cancelling"
  /\ SameTasks(executionTable, executions')
  /\ \A e \in DOMAIN executionTable : executions'[e].complete = executionTable[e].complete
  /\ \A e \in DOMAIN executionTable : \A t \in DOMAIN executionTable[e].tasks :
       \/ executions'[e].tasks[t] = executionTable[e].tasks[t]
       \/ executionTable[e].tasks[t] \in Unstarted /\ executions'[e].tasks[t] = "notStarted"

\* Recording a failure does no more to the tables given.
LEMMA FailIsSteady ==
  ASSUME NEW failure, NEW policy, NEW callTable, CallsOK(callTable),
         NEW executionTable, ExecutionsOK(executionTable),
         Fail(failure, policy, callTable, executionTable)
  PROVE  StopsAtMost(callTable, executionTable)
<1> USE DEF StopsAtMost
<1>1. CASE policy = "stop"
  <2>1. calls' = CancelLive(callTable) /\ executions' = MapTasks(executionTable, Unstarted, "notStarted")
    BY <1>1 DEF Fail, Stop, DropUnstarted, Unstarted
  <2>2. "notStarted" \in TaskStatuses
    BY DEF TaskStatuses
  <2> QED
    BY <2>1, <2>2, MapTasksOK, CancelLiveOK DEF CallsOK
<1>2. CASE policy # "stop"
  BY <1>2 DEF Fail, SameTasks
<1> QED
  BY <1>1, <1>2

\* A new status of the owner of a call, and nothing else.
LEMMA OwnerTablesAre ==
  ASSUME TypeOK, OwnersDiffer, NEW c \in DOMAIN calls, NEW s
  PROVE  LET inv == OwnerInvocations(c, s)
             exe == OwnerExecutions(c, s)
         IN  /\ DOMAIN inv = DOMAIN invocations
             /\ \A k \in DOMAIN invocations : inv[k] = invocations[k] \/ (c.task = None /\ k = c.owner)
             /\ c.task = None => inv[c.owner].status = s
             /\ SameTasks(executions, exe)
             /\ \A e \in DOMAIN executions : exe[e].complete = executions[e].complete
             /\ \A e \in DOMAIN executions : \A t \in DOMAIN executions[e].tasks :
                  exe[e].tasks[t] = executions[e].tasks[t] \/ (e = c.owner /\ t = c.task)
             /\ c.task # None => exe[c.owner].tasks[c.task] = s
<1>1. CASE c.task = None
  BY <1>1 DEF OwnerInvocations, OwnerExecutions, SetInvocation, OwnersDiffer, TypeOK, InvocationsOK, SameTasks
<1>2. CASE c.task # None
  BY <1>2 DEF OwnerInvocations, OwnerExecutions, SetTask, OwnersDiffer, TypeOK, ExecutionsOK, SameTasks
<1> QED
  BY <1>1, <1>2

\* A call that is live belongs to an owner that is active.
LEMMA LiveIsActive ==
  ASSUME Life, NEW c \in DOMAIN calls, calls[c].status \in Live
  PROVE  OwnerStatus(c) = "active"
BY DEF Life, CallLife, OwnerMay, Live

\* A call that fails is such an event, and nothing else fails with it.
LEMMA FailCallIsEvent ==
  ASSUME TypeOK, OwnersDiffer, Life, NEW c \in DOMAIN calls, calls[c].status \in Live,
         NEW s \in {"failed", "lost", "cancelling"}, NEW cause, FailCall(c, s, cause)
  PROVE  /\ CallEvent(c)
         /\ OwnerStatus(c)' = "failed"
         /\ \A e \in DOMAIN executions : \A t \in DOMAIN executions[e].tasks :
              executions'[e].tasks[t] = "failed" => executions[e].tasks[t] = "failed" \/ (e = c.owner /\ t = c.task)
<1>1. PICK ct : ct = SetCall(c, s)
  OBVIOUS
<1>2. PICK et : et = OwnerExecutions(c, "failed")
  OBVIOUS
<1>3. /\ CallsOK(ct) /\ DOMAIN ct = DOMAIN calls
      /\ ct[c].status = s
      /\ \A d \in DOMAIN calls \ {c} : ct[d] = calls[d]
  <2>1. s \in CallStatuses /\ CallsOK(calls) /\ ~CallEnded(calls[c].status)
    BY DEF CallStatuses, TypeOK, CallEnded
  <2> QED
    BY <1>1, <2>1, SetCallOK, SetCallCalm
<1>4. /\ ExecutionsOK(et) /\ SameTasks(executions, et)
      /\ \A e \in DOMAIN executions : et[e].complete = executions[e].complete
      /\ \A e \in DOMAIN executions : \A t \in DOMAIN executions[e].tasks :
           et[e].tasks[t] = executions[e].tasks[t] \/ (e = c.owner /\ t = c.task)
      /\ c.task # None => et[c.owner].tasks[c.task] = "failed"
  BY <1>2, OwnerTablesAre, OwnerTablesOK
<1>5. /\ DOMAIN invocations' = DOMAIN invocations
      /\ \A k \in DOMAIN invocations : invocations'[k] = invocations[k] \/ (c.task = None /\ k = c.owner)
      /\ c.task = None => invocations'[c.owner].status = "failed"
  <2>1. invocations' = OwnerInvocations(c, "failed")
    BY DEF FailCall
  <2> QED
    BY <2>1, OwnerTablesAre
<1>6. /\ DOMAIN calls' = DOMAIN ct
      /\ \A d \in DOMAIN ct : calls'[d] = ct[d] \/ (ct[d].status \in Live /\ calls'[d].status = "cancelling")
      /\ SameTasks(et, executions')
      /\ \A e \in DOMAIN et : executions'[e].complete = et[e].complete
      /\ \A e \in DOMAIN et : \A t \in DOMAIN et[e].tasks :
           \/ executions'[e].tasks[t] = et[e].tasks[t]
           \/ et[e].tasks[t] \in Unstarted /\ executions'[e].tasks[t] = "notStarted"
  <2>1. PICK failure, policy : Fail(failure, policy, ct, et)
    BY <1>1, <1>2 DEF FailCall
  <2>2. CallsOK(ct) /\ ExecutionsOK(et)
    BY <1>3, <1>4
  <2> QED
    BY <2>1, <2>2, FailIsSteady DEF StopsAtMost
<1>7. OwnerStatus(c) = "active"
  BY LiveIsActive
<1>8. SameTables
  <2>1. runs' = runs
    BY DEF FailCall
  <2> QED
    BY <2>1, <1>3, <1>4, <1>5, <1>6 DEF SameTables, SameTasks
<1>9. OwnerStatus(c)' = "failed" /\ calls'[c].status = s
  <2>1. calls'[c].status = s
    BY <1>3, <1>6 DEF Live
  <2>2. CASE c.task = None
    BY <2>1, <2>2, <1>5 DEF OwnerStatus
  <2>3. CASE c.task # None
    <3>1. c.owner \in DOMAIN executions /\ c.task \in DOMAIN executions[c.owner].tasks
      BY <2>3 DEF OwnersDiffer
    <3>2. executions'[c.owner].tasks[c.task] = "failed"
      BY <2>3, <3>1, <1>4, <1>6 DEF SameTasks, Unstarted
    <3> QED
      BY <2>1, <2>3, <3>2 DEF OwnerStatus
  <2> QED
    BY <2>2, <2>3
<1>10. \A d \in DOMAIN calls \ {c} : CallSteady(d)
  BY <1>3, <1>6 DEF CallSteady
<1>11. \A k \in DOMAIN invocations :
         invocations'[k] = invocations[k] \/ (c.task = None /\ k = c.owner /\ invocations[k].status = "active")
  BY <1>5, <1>7 DEF OwnerStatus
<1>12. \A e \in DOMAIN executions : \A t \in DOMAIN executions[e].tasks :
         TaskSteady(e, t) \/ (e = c.owner /\ t = c.task /\ executions[e].tasks[t] = "active")
  <2> TAKE e \in DOMAIN executions
  <2> TAKE t \in DOMAIN executions[e].tasks
  <2>1. CASE e = c.owner /\ t = c.task
    BY <2>1, <1>7 DEF OwnerStatus, OwnersDiffer
  <2>2. CASE ~(e = c.owner /\ t = c.task)
    BY <2>2, <1>4, <1>6 DEF TaskSteady, SameTasks, Unstarted
  <2> QED
    BY <2>1, <2>2
<1>13. \A e \in DOMAIN executions : \A t \in DOMAIN executions[e].tasks :
         executions'[e].tasks[t] = "failed" => executions[e].tasks[t] = "failed" \/ (e = c.owner /\ t = c.task)
  BY <1>4, <1>6 DEF SameTasks
<1> QED
  BY <1>8, <1>9, <1>10, <1>11, <1>12, <1>13 DEF CallEvent, OwnerMay, CallEnded, Live

\* A call that goes on, whose owner is as it was.
LEMMA GoingOnIsEvent ==
  ASSUME TypeOK, OwnersDiffer, Life, NEW c \in DOMAIN calls, calls[c].status \in Live,
         DOMAIN calls' = DOMAIN calls, \A d \in DOMAIN calls \ {c} : calls'[d] = calls[d],
         calls'[c].status \in Live, UNCHANGED <<runs, invocations, executions>>
  PROVE  CallEvent(c)
<1>1. OwnerStatus(c)' = "active"
  BY LiveIsActive DEF OwnerStatus
<1>2. SameTables /\ ~CallEnded(calls[c].status)
  BY DEF SameTables, SameTasks, CallEnded
<1>3. OwnerStatus(c)' \in OwnerMay(calls'[c].status)
  BY <1>1 DEF OwnerMay, Live
<1> QED
  BY <1>2, <1>3 DEF CallEvent, CallSteady, TaskSteady

\* A call that ends, or waits for its end, with its owner.
LEMMA EndingIsEvent ==
  ASSUME TypeOK, OwnersDiffer, NEW c \in DOMAIN calls, ~CallEnded(calls[c].status), OwnerStatus(c) = "active",
         NEW s \in CallStatuses, NEW x \in OwnerMay(s),
         calls' = SetCall(c, s), SettleOwner(c, x), runs' = runs
  PROVE  CallEvent(c)
<1>1. /\ DOMAIN calls' = DOMAIN calls
      /\ calls'[c].status = s
      /\ \A d \in DOMAIN calls \ {c} : calls'[d] = calls[d]
  BY SetCallOK, SetCallCalm DEF TypeOK
<1>2. /\ DOMAIN invocations' = DOMAIN invocations
      /\ \A k \in DOMAIN invocations : invocations'[k] = invocations[k] \/ (c.task = None /\ k = c.owner)
      /\ c.task = None => invocations'[c.owner].status = x
      /\ SameTasks(executions, executions')
      /\ \A e \in DOMAIN executions : executions'[e].complete = executions[e].complete
      /\ \A e \in DOMAIN executions : \A t \in DOMAIN executions[e].tasks :
           executions'[e].tasks[t] = executions[e].tasks[t] \/ (e = c.owner /\ t = c.task)
      /\ c.task # None => executions'[c.owner].tasks[c.task] = x
  BY OwnerTablesAre DEF SettleOwner
<1>3. SameTables
  BY <1>1, <1>2 DEF SameTables
<1>4. OwnerStatus(c)' = x
  BY <1>2 DEF OwnerStatus
<1>5. \A k \in DOMAIN invocations :
        invocations'[k] = invocations[k] \/ (c.task = None /\ k = c.owner /\ invocations[k].status = "active")
  BY <1>2 DEF OwnerStatus
<1>6. \A e \in DOMAIN executions : \A t \in DOMAIN executions[e].tasks :
        TaskSteady(e, t) \/ (e = c.owner /\ t = c.task /\ executions[e].tasks[t] = "active")
  BY <1>2 DEF OwnerStatus, OwnersDiffer, TaskSteady
<1> QED
  BY <1>1, <1>3, <1>4, <1>5, <1>6 DEF CallEvent, CallSteady

\* The end of a call that was being cancelled.
LEMMA CancelledIsEvent ==
  ASSUME TypeOK, OwnersDiffer, Life, NEW c \in DOMAIN calls, calls[c].status = "cancelling", CallCancelled(c)
  PROVE  CallEvent(c)
<1>1. OwnerStatus(c) \in {"active", "failed"}
  BY DEF Life, CallLife, OwnerMay, Live
<1>2. ~CallEnded(calls[c].status) /\ "cancelled" \in CallStatuses
  BY DEF CallEnded, CallStatuses
<1>3. OwnerMay("cancelled") = {"cancelled", "failed"}
  BY DEF OwnerMay, Live
<1>4. calls' = SetCall(c, "cancelled") /\ runs' = runs
  BY DEF CallCancelled
<1>5. CASE OwnerStatus(c) = "active"
  <2>1. SettleOwner(c, "cancelled")
    BY <1>5 DEF CallCancelled
  <2> QED
    BY <1>2, <1>3, <1>4, <1>5, <2>1, EndingIsEvent
<1>6. CASE OwnerStatus(c) = "failed"
  <2>1. UNCHANGED <<invocations, executions>>
    BY <1>6 DEF CallCancelled
  <2>2. /\ DOMAIN calls' = DOMAIN calls
        /\ calls'[c].status = "cancelled"
        /\ \A d \in DOMAIN calls \ {c} : calls'[d] = calls[d]
    BY <1>2, <1>4, SetCallOK, SetCallCalm DEF TypeOK
  <2>3. OwnerStatus(c)' = "failed"
    BY <1>6, <2>1 DEF OwnerStatus
  <2>4. SameTables
    BY <1>4, <2>1, <2>2 DEF SameTables, SameTasks
  <2> QED
    BY <1>2, <1>3, <2>1, <2>2, <2>3, <2>4 DEF CallEvent, CallSteady, TaskSteady
<1> QED
  BY <1>1, <1>5, <1>6

\* The judge's choice of an arm is the end of its call.
LEMMA JudgedIsEvent ==
  ASSUME TypeOK, OwnersDiffer, Life, NEW c \in DOMAIN calls, NEW arm, Judged(c, arm)
  PROVE  CallEvent(c)
<1>1. /\ calls[c].status \in Live
      /\ c.task = None
      /\ calls' = SetCall(c, "returned")
      /\ invocations' = [invocations EXCEPT ![c.owner] = [status |-> "succeeded", arm |-> arm]]
      /\ UNCHANGED <<runs, executions>>
  BY DEF Judged, Live
<1>2. OwnerStatus(c) = "active" /\ ~CallEnded(calls[c].status) /\ "returned" \in CallStatuses
  BY <1>1, LiveIsActive DEF CallEnded, CallStatuses
<1>3. /\ DOMAIN calls' = DOMAIN calls
      /\ calls'[c].status = "returned"
      /\ \A d \in DOMAIN calls \ {c} : calls'[d] = calls[d]
  BY <1>1, <1>2, SetCallOK, SetCallCalm DEF TypeOK
<1>4. /\ DOMAIN invocations' = DOMAIN invocations
      /\ \A k \in DOMAIN invocations : k # c.owner => invocations'[k] = invocations[k]
      /\ invocations'[c.owner].status = "succeeded"
  BY <1>1 DEF OwnersDiffer
<1>5. OwnerStatus(c)' = "succeeded" /\ OwnerMay("returned") = {"succeeded"}
  BY <1>1, <1>4 DEF OwnerStatus, OwnerMay, Live
<1>6. SameTables
  BY <1>1, <1>3, <1>4 DEF SameTables, SameTasks
<1>7. \A k \in DOMAIN invocations :
        invocations'[k] = invocations[k] \/ (c.task = None /\ k = c.owner /\ invocations[k].status = "active")
  BY <1>1, <1>2, <1>4 DEF OwnerStatus
<1> QED
  BY <1>1, <1>2, <1>3, <1>5, <1>6, <1>7 DEF CallEvent, CallSteady, TaskSteady

\* A report about a call, or what its environment does to it, is an event of it.
LEMMA ReportsAreEvents ==
  ASSUME TypeOK, OwnersDiffer, Life, NEW c \in DOMAIN calls,
         \/ Fetch(c) \/ CallReturned(c) \/ Yielded(c) \/ Ended(c) \/ Terminated(c)
         \/ CallFailed(c) \/ CallTimedOut(c) \/ ElementTimedOut(c) \/ Lost(c)
         \/ \E arm \in Arms(c) : Judged(c, arm)
  PROVE  CallEvent(c)
<1>1. CASE Fetch(c)
  <2>1. calls[c].status \in Live /\ ~CallEnded(calls[c].status) /\ "fetching" \in CallStatuses \cap Live
    BY <1>1 DEF Fetch, Live, CallEnded, CallStatuses
  <2>2. calls' = SetCall(c, "fetching") /\ UNCHANGED <<runs, invocations, executions>>
    BY <1>1 DEF Fetch
  <2>3. /\ DOMAIN calls' = DOMAIN calls
        /\ calls'[c].status = "fetching"
        /\ \A d \in DOMAIN calls \ {c} : calls'[d] = calls[d]
    BY <2>1, <2>2, SetCallOK, SetCallCalm DEF TypeOK
  <2> QED
    BY <2>1, <2>2, <2>3, GoingOnIsEvent
<1>2. CASE Yielded(c)
  <2>1. calls[c].status \in Live /\ "running" \in Live
    BY <1>2 DEF Yielded, Live
  <2>2. UNCHANGED <<runs, invocations, executions>>
    BY <1>2 DEF Yielded
  <2>3. /\ DOMAIN calls' = DOMAIN calls
        /\ calls'[c].status = "running"
        /\ \A d \in DOMAIN calls \ {c} : calls'[d] = calls[d]
    BY <1>2 DEF Yielded, TypeOK, CallsOK
  <2> QED
    BY <2>1, <2>2, <2>3, GoingOnIsEvent
<1>3. CASE CallReturned(c) \/ Ended(c)
  <2>1. /\ calls[c].status \in Live /\ ~CallEnded(calls[c].status)
        /\ calls' = SetCall(c, "returned") /\ SettleOwner(c, "succeeded") /\ runs' = runs
    BY <1>3 DEF CallReturned, Ended, Live, CallEnded
  <2>2. "succeeded" \in OwnerMay("returned") /\ "returned" \in CallStatuses
    BY DEF OwnerMay, Live, CallStatuses
  <2> QED
    BY <2>1, <2>2, LiveIsActive, EndingIsEvent
<1>4. CASE Terminated(c)
  BY <1>4, CancelledIsEvent DEF Terminated
<1>5. CASE CallFailed(c)
  BY <1>5, FailCallIsEvent DEF CallFailed
<1>6. CASE CallTimedOut(c)
  BY <1>6, FailCallIsEvent DEF CallTimedOut
<1>7. CASE ElementTimedOut(c)
  BY <1>7, FailCallIsEvent DEF ElementTimedOut, Live
<1>8. CASE Lost(c)
  BY <1>8, FailCallIsEvent, CancelledIsEvent DEF Lost
<1>9. ASSUME NEW arm, Judged(c, arm)
      PROVE  CallEvent(c)
  BY <1>9, JudgedIsEvent
<1> QED
  BY <1>1, <1>2, <1>3, <1>4, <1>5, <1>6, <1>7, <1>8, <1>9

\* A step that leaves calls, invocations, executions and runs alone is steady.
LEMMA IdleIsSteady ==
  ASSUME UNCHANGED <<runs, invocations, calls, executions>>
  PROVE  Steady
BY DEF Steady, SameTables, SameTasks, CallSteady, TaskSteady

\* So is the stop of the execution.
LEMMA StopIsSteady ==
  ASSUME TypeOK, Stop(calls, executions), UNCHANGED <<runs, invocations>>
  PROVE  Steady
<1>1. calls' = CancelLive(calls) /\ executions' = MapTasks(executions, Unstarted, "notStarted")
  BY DEF Stop, DropUnstarted, Unstarted
<1>2. "notStarted" \in TaskStatuses
  BY DEF TaskStatuses
<1>3. /\ DOMAIN calls' = DOMAIN calls
      /\ \A c \in DOMAIN calls : CallSteady(c)
  BY <1>1, CancelLiveOK DEF CallSteady, TypeOK
<1>4. /\ SameTasks(executions, executions')
      /\ \A e \in DOMAIN executions : executions'[e].complete = executions[e].complete
      /\ \A e \in DOMAIN executions : \A t \in DOMAIN executions[e].tasks : TaskSteady(e, t)
  BY <1>1, <1>2, MapTasksOK DEF TypeOK, TaskSteady
<1> QED
  BY <1>3, <1>4 DEF Steady, SameTables

\* So is recording a failure that is none of a call, with that of a task that
\* was not begun.
LEMMA FailureIsSteady ==
  ASSUME TypeOK, NEW failure, NEW policy, NEW table, ExecutionsOK(table), SameTasks(executions, table),
         \A e \in DOMAIN executions : table[e].complete = executions[e].complete,
         \A e \in DOMAIN executions : \A t \in DOMAIN executions[e].tasks :
           \/ table[e].tasks[t] = executions[e].tasks[t]
           \/ executions[e].tasks[t] \in Unstarted /\ table[e].tasks[t] = "failed",
         Fail(failure, policy, calls, table), UNCHANGED <<runs, invocations>>
  PROVE  Steady
<1>1. CallsOK(calls)
  BY DEF TypeOK
<1>2. StopsAtMost(calls, table)
  BY <1>1, FailIsSteady
<1>3. /\ DOMAIN calls' = DOMAIN calls
      /\ \A c \in DOMAIN calls :
           calls'[c] = calls[c] \/ (calls[c].status \in Live /\ calls'[c].status = "cancelling")
      /\ SameTasks(table, executions')
      /\ \A e \in DOMAIN table : executions'[e].complete = table[e].complete
      /\ \A e \in DOMAIN table : \A t \in DOMAIN table[e].tasks :
           \/ executions'[e].tasks[t] = table[e].tasks[t]
           \/ table[e].tasks[t] \in Unstarted /\ executions'[e].tasks[t] = "notStarted"
  BY <1>2 DEF StopsAtMost
<1>4. SameTasks(executions, executions')
  BY <1>3 DEF SameTasks
<1>5. \A e \in DOMAIN executions : \A t \in DOMAIN executions[e].tasks : TaskSteady(e, t)
  BY <1>3 DEF SameTasks, TaskSteady, Unstarted
<1>6. \A e \in DOMAIN executions : executions'[e].complete = executions[e].complete
  BY <1>3 DEF SameTasks
<1> QED
  BY <1>3, <1>4, <1>5, <1>6 DEF Steady, SameTables, CallSteady

\* The transforms, settling and cancelling are steady.
LEMMA TransformsAreSteady ==
  ASSUME TypeOK, NEW path, NEW i, NEW source, NEW e \in DOMAIN executions, NEW t \in DOMAIN executions[e].tasks,
         NEW r, NEW name,
         \/ Deliver(path, i, source) \/ TransformFailed(path, i, source)
         \/ TaskInput(e, t) \/ TaskInputFailed(e, t)
         \/ TaskOutput(r) \/ TaskOutputFailed(r)
         \/ Settle(path, name) \/ Cancel
  PROVE  Steady
<1>1. CASE Deliver(path, i, source) \/ TaskOutput(r) \/ Settle(path, name)
  BY <1>1, IdleIsSteady DEF Deliver, TaskOutput, Settle
<1>2. CASE TransformFailed(path, i, source) \/ TaskOutputFailed(r)
  <2>1. UNCHANGED <<runs, invocations>> /\ \E failure, policy : Fail(failure, policy, calls, executions)
    BY <1>2 DEF TransformFailed, TaskOutputFailed
  <2>2. ExecutionsOK(executions) /\ SameTasks(executions, executions)
    BY DEF TypeOK, SameTasks
  <2> QED
    BY <2>1, <2>2, FailureIsSteady
<1>3. ASSUME executions[e].tasks[t] \in Unstarted, NEW s \in {"ready", "failed"}
      PROVE  LET table == SetTask(e, t, s)
             IN  /\ ExecutionsOK(table) /\ SameTasks(executions, table)
                 /\ \A x \in DOMAIN executions : table[x].complete = executions[x].complete
                 /\ \A x \in DOMAIN executions : \A u \in DOMAIN executions[x].tasks :
                      \/ table[x].tasks[u] = executions[x].tasks[u]
                      \/ executions[x].tasks[u] \in Unstarted /\ table[x].tasks[u] = s
  <2>1. s \in TaskStatuses /\ s # "active" /\ ExecutionsOK(executions)
    BY <1>3 DEF TaskStatuses, InvocationStatuses, TypeOK
  <2> QED
    BY <1>3, <2>1, SetTaskOK, SetTaskCalm DEF SetTask, ExecutionsOK
<1>4. CASE TaskInput(e, t)
  <2>1. /\ executions[e].tasks[t] \in Unstarted
        /\ executions' = SetTask(e, t, "ready") /\ UNCHANGED <<runs, invocations, calls>>
    BY <1>4 DEF TaskInput, Unstarted
  <2> QED
    BY <1>3, <2>1 DEF Steady, SameTables, CallSteady, TaskSteady
<1>5. CASE TaskInputFailed(e, t)
  <2>1. /\ executions[e].tasks[t] \in Unstarted
        /\ UNCHANGED <<runs, invocations>>
        /\ \E failure, policy : Fail(failure, policy, calls, SetTask(e, t, "failed"))
    BY <1>5 DEF TaskInputFailed, Unstarted
  <2> QED
    BY <1>3, <2>1, FailureIsSteady
<1>6. CASE Cancel
  <2>1. UNCHANGED <<runs, invocations>>
    BY <1>6 DEF Cancel
  <2> QED
    BY <1>6, <2>1, StopIsSteady, IdleIsSteady DEF Cancel
<1> QED
  BY <1>1, <1>2, <1>4, <1>5, <1>6

\* A step that only begins something: an invocation, or a task that is ready,
\* becomes active with what it owns.
Begins ==
  /\ \A c \in DOMAIN calls : c \in DOMAIN calls' /\ calls'[c] = calls[c]
  /\ \A p \in DOMAIN runs : runs'[p] = runs[p]
  /\ \A k \in DOMAIN invocations : invocations'[k] = invocations[k]
  /\ \A e \in DOMAIN executions :
       /\ executions'[e].complete = executions[e].complete
       /\ \A t \in DOMAIN executions[e].tasks :
            \/ executions'[e].tasks[t] = executions[e].tasks[t]
            \/ executions[e].tasks[t] = "ready" /\ executions'[e].tasks[t] = "active"
  /\ \A c \in DOMAIN calls' \ DOMAIN calls :
       /\ calls'[c].status \in Live /\ OwnerStatus(c)' = "active"
       /\ c.owner \in DOMAIN invocations => c.task # None /\ OwnerStatus(c) = "ready"
  /\ \A p \in DOMAIN runs' \ DOMAIN runs :
       /\ p # Root /\ ~runs'[p].complete /\ OwnerStatus(CallerOf(p))' = "active"
       /\ RunOwner(p) \in DOMAIN invocations => RunTask(p) # None /\ OwnerStatus(CallerOf(p)) = "ready"
  /\ \A e \in DOMAIN executions' \ DOMAIN executions :
       e \notin DOMAIN invocations /\ ~executions'[e].complete /\ invocations'[e].status = "active"
  /\ \A k \in DOMAIN invocations' \ DOMAIN invocations : Provided(k)'

\* Such a step keeps what there was, and what it begins is active.
LEMMA BeginsKeepsLife ==
  ASSUME OwnersExist, OwnersDiffer, Life, status \notin Terminal, Grows, Begins
  PROVE  Kept /\ Life'
<1>1. Kept
  <2>1. /\ \A c \in DOMAIN calls : c \in DOMAIN calls'
        /\ \A k \in DOMAIN invocations : k \in DOMAIN invocations'
        /\ \A p \in DOMAIN runs : p \in DOMAIN runs'
    BY DEF Grows, Begins
  <2>2. \A e \in DOMAIN executions :
          e \in DOMAIN executions' /\ DOMAIN executions'[e].tasks = DOMAIN executions[e].tasks
    BY DEF Grows
  <2>3. \A e \in DOMAIN executions : \A t \in DOMAIN executions[e].tasks :
          executions[e].tasks[t] \notin Unstarted \cup {"active"} => executions'[e].tasks[t] = executions[e].tasks[t]
    BY DEF Begins, Unstarted
  <2> QED
    BY <2>1, <2>2, <2>3 DEF Kept, Begins
<1>2. ASSUME NEW d, d.owner \in DOMAIN invocations, OwnerStatus(d) \notin Unstarted,
             d.task # None => d.owner \in DOMAIN executions /\ d.task \in DOMAIN executions[d.owner].tasks
      PROVE  OwnerStatus(d)' = OwnerStatus(d)
  BY <1>2 DEF Begins, OwnerStatus, Unstarted
<1>3. CallLife'
  <2> SUFFICES ASSUME NEW d \in DOMAIN calls'
               PROVE  OwnerStatus(d)' \in OwnerMay(calls'[d].status)
    BY DEF CallLife
  <2>1. CASE d \in DOMAIN calls
    <3>1. OwnerStatus(d) \in OwnerMay(calls[d].status)
      BY <2>1 DEF Life, CallLife
    <3>2. OwnerStatus(d) \notin Unstarted
      BY <3>1 DEF OwnerMay, Unstarted
    <3>3. OwnerStatus(d)' = OwnerStatus(d)
      BY <1>2, <2>1, <3>2 DEF OwnersDiffer
    <3> QED
      BY <2>1, <3>1, <3>3 DEF Begins
  <2>2. CASE d \notin DOMAIN calls
    BY <2>2 DEF Begins, OwnerMay, Live
  <2> QED
    BY <2>1, <2>2
<1>4. RunLife'
  <2> SUFFICES ASSUME NEW p \in DOMAIN runs' \ {Root}
               PROVE  IF runs'[p].complete
                      THEN OwnerStatus(CallerOf(p))' \in {"succeeded", "skipped", "failed", "upstreamFailed"}
                      ELSE OwnerStatus(CallerOf(p))' = "active"
    BY DEF RunLife, OpenWith
  <2> DEFINE d == CallerOf(p)
  <2>1. d.owner = RunOwner(p) /\ d.task = RunTask(p)
    BY DEF CallerOf, CallKey
  <2>2. CASE p \in DOMAIN runs
    <3>1. IF runs[p].complete THEN OwnerStatus(d) \in {"succeeded", "skipped", "failed", "upstreamFailed"}
                              ELSE OwnerStatus(d) = "active"
      BY <2>2 DEF Life, RunLife, OpenWith
    <3>2. OwnerStatus(d) \notin Unstarted
      BY <3>1 DEF Unstarted
    <3>3. OwnerStatus(d)' = OwnerStatus(d)
      BY <1>2, <2>1, <2>2, <3>2 DEF OwnersDiffer
    <3> QED
      BY <2>2, <3>1, <3>3 DEF Begins
  <2>3. CASE p \notin DOMAIN runs
    BY <2>3 DEF Begins
  <2> QED
    BY <2>2, <2>3
<1>5. ExecutionLife'
  <2> SUFFICES ASSUME NEW e \in DOMAIN executions'
               PROVE  IF executions'[e].complete
                      THEN /\ invocations'[e].status \in {"succeeded", "skipped"}
                           /\ \A t \in DOMAIN executions'[e].tasks : TaskEnded(e, t)'
                      ELSE invocations'[e].status = "active"
    BY DEF ExecutionLife, OpenWith
  <2>1. CASE e \in DOMAIN executions
    <3>1. /\ invocations'[e] = invocations[e] /\ executions'[e].complete = executions[e].complete
          /\ DOMAIN executions'[e].tasks = DOMAIN executions[e].tasks
      BY <2>1 DEF Begins, OwnersDiffer, Grows
    <3> QED
      BY <1>1, <2>1, <3>1, EndedTaskStays DEF Life, ExecutionLife, OpenWith
  <2>2. CASE e \notin DOMAIN executions
    BY <2>2 DEF Begins
  <2> QED
    BY <2>1, <2>2
<1>6. ASSUME NEW k \in DOMAIN invocations'
      PROVE  Provided(k)'
  <2>1. CASE k \in DOMAIN invocations
    <3>1. k.run \in DOMAIN runs /\ Provided(k)
      BY <2>1 DEF OwnersExist, InvocationOwned, Life
    <3>2. ConcurrencyOf(k)' = ConcurrencyOf(k)
      BY <3>1, LookupsStay
    <3> QED
      BY <3>1, <3>2 DEF Provided, Grows, Begins
  <2> QED
    BY <2>1 DEF Begins
<1> QED
  BY <1>1, <1>3, <1>4, <1>5, <1>6 DEF Life

\* An invocation begins its call, its run or its execution.
LEMMA InvokeBegins ==
  ASSUME TypeOK, OwnersExist, OwnersDiffer, NEW path \in DOMAIN runs, NEW name \in Placements(WorkflowOf(path)),
         NEW trigger, Invoke(path, name, trigger), Grows
  PROVE  Begins
<1> DEFINE key  == InvocationKey(path, name, trigger)
           node == PlacementOf(path, name)
           call == CallKey(key, None)
           child == Child(key, None)
<1>1. key.run = path /\ key.placement = name /\ key.trigger = trigger /\ call.owner = key /\ call.task = None
  BY DEF InvocationKey, CallKey
<1>2. IsSequence(path)
  BY DEF TypeOK
<1>3. child # Root /\ RunOwner(child) = key /\ RunTask(child) = None
  BY <1>1, <1>2, ChildPath
<1>4. /\ key \notin DOMAIN invocations
      /\ DOMAIN invocations' = DOMAIN invocations \cup {key}
      /\ \A k \in DOMAIN invocations : invocations'[k] = invocations[k]
      /\ invocations'[key].status = "active"
  BY DEF Invoke, Put
<1>5. OwnerStatus(call)' = "active" /\ CallerOf(child) = call
  BY <1>1, <1>3, <1>4 DEF OwnerStatus, CallerOf
<1>6. ConcurrencyOf(key)' = node
  BY <1>1, LookupsStay DEF ConcurrencyOf
<1>7. CASE node.type \in {"function", "branch"} /\ calls' = Put(calls, call, NewCall)
           /\ UNCHANGED <<runs, executions>>
  <2>1. /\ DOMAIN calls' = DOMAIN calls \cup {call}
        /\ call \notin DOMAIN calls => calls'[call].status \in Live
        /\ call \notin DOMAIN calls => \A c \in DOMAIN calls : calls'[c] = calls[c]
    BY <1>7 DEF Put, NewCall, Live
  <2>2. Provided(key)'
    BY <1>6, <1>7, <2>1 DEF Provided
  <2>3. call \notin DOMAIN calls
    BY <1>1, <1>4 DEF OwnersDiffer
  <2> HIDE DEF key, call, child
  <2> QED
    BY <1>1, <1>4, <1>5, <1>7, <2>1, <2>2, <2>3 DEF Begins
<1>8. CASE node.type = "subworkflow" /\ child \notin DOMAIN runs /\ runs' = Put(runs, child, NewRun(node.workflow))
           /\ UNCHANGED <<calls, executions>>
  <2>1. /\ DOMAIN runs' = DOMAIN runs \cup {child}
        /\ ~runs'[child].complete
        /\ \A p \in DOMAIN runs : runs'[p] = runs[p]
    BY <1>8 DEF Put, NewRun
  <2>2. Provided(key)'
    BY <1>6, <1>8, <2>1 DEF Provided
  <2>3. OwnerStatus(CallerOf(child))' = "active"
    BY <1>5
  <2> HIDE DEF key, call, child
  <2> QED
    BY <1>3, <1>4, <1>8, <2>1, <2>2, <2>3 DEF Begins
<1>9. CASE node.type = "concurrency" /\ key \notin DOMAIN executions /\ UNCHANGED <<calls, runs>>
           /\ \E tasks : executions' = Put(executions, key, [tasks |-> tasks, complete |-> FALSE])
  <2>1. /\ DOMAIN executions' = DOMAIN executions \cup {key}
        /\ ~executions'[key].complete
        /\ \A e \in DOMAIN executions : executions'[e] = executions[e]
    BY <1>9 DEF Put
  <2>2. Provided(key)'
    BY <1>6, <1>9, <2>1 DEF Provided
  <2> HIDE DEF key, call, child
  <2> QED
    BY <1>4, <1>9, <2>1, <2>2 DEF Begins
<1> QED
  BY <1>7, <1>8, <1>9 DEF Invoke

\* A task begins its call or its run.
LEMMA BeginTaskBegins ==
  ASSUME TypeOK, OwnersExist, OwnersDiffer, NEW e \in DOMAIN executions, NEW t \in DOMAIN executions[e].tasks,
         BeginTask(e, t)
  PROVE  Begins
<1> DEFINE call == CallKey(e, t)
           child == Child(e, t)
<1>1. call.owner = e /\ call.task = t /\ t # None /\ e \in DOMAIN invocations
  BY DEF CallKey, OwnersDiffer
<1>2. child # Root /\ RunOwner(child) = e /\ RunTask(child) = t
  BY <1>1 DEF OwnersDiffer
<1>3. /\ executions[e].tasks[t] = "ready" /\ invocations' = invocations
      /\ executions' = SetTask(e, t, "active")
  BY DEF BeginTask
<1>4. /\ DOMAIN executions' = DOMAIN executions
      /\ \A x \in DOMAIN executions : executions'[x].complete = executions[x].complete
      /\ \A x \in DOMAIN executions : \A u \in DOMAIN executions[x].tasks :
           executions'[x].tasks[u] = IF x = e /\ u = t THEN "active" ELSE executions[x].tasks[u]
  BY <1>3 DEF SetTask, TypeOK, ExecutionsOK
<1>5. OwnerStatus(call) = "ready" /\ OwnerStatus(call)' = "active" /\ CallerOf(child) = call
  BY <1>1, <1>2, <1>3, <1>4 DEF OwnerStatus, CallerOf
<1>6. \A x \in DOMAIN executions :
       /\ executions'[x].complete = executions[x].complete
       /\ \A u \in DOMAIN executions[x].tasks :
            \/ executions'[x].tasks[u] = executions[x].tasks[u]
            \/ executions[x].tasks[u] = "ready" /\ executions'[x].tasks[u] = "active"
  BY <1>3, <1>4
<1>7. CASE call \notin DOMAIN calls /\ calls' = Put(calls, call, NewCall) /\ UNCHANGED runs
  <2>1. /\ DOMAIN calls' = DOMAIN calls \cup {call}
        /\ calls'[call].status \in Live
        /\ \A c \in DOMAIN calls : calls'[c] = calls[c]
    BY <1>7 DEF Put, NewCall, Live
  <2> HIDE DEF call, child
  <2> QED
    BY <1>1, <1>3, <1>4, <1>5, <1>6, <1>7, <2>1 DEF Begins
<1>8. CASE child \notin DOMAIN runs /\ UNCHANGED calls /\ \E w : runs' = Put(runs, child, NewRun(w))
  <2>1. /\ DOMAIN runs' = DOMAIN runs \cup {child}
        /\ ~runs'[child].complete
        /\ \A p \in DOMAIN runs : runs'[p] = runs[p]
    BY <1>8 DEF Put, NewRun
  <2>2. OwnerStatus(CallerOf(child))' = "active" /\ OwnerStatus(CallerOf(child)) = "ready"
    BY <1>5
  <2> HIDE DEF call, child
  <2> QED
    BY <1>1, <1>2, <1>3, <1>4, <1>6, <1>8, <2>1, <2>2 DEF Begins
<1> QED
  BY <1>7, <1>8 DEF BeginTask

\* An execution closes with its invocation, once its tasks have ended.
LEMMA CloseExecutionKeepsLife ==
  ASSUME TypeOK, OwnersExist, OwnersDiffer, Life, NEW e \in DOMAIN executions, CloseExecution(e)
  PROVE  Kept /\ Life'
<1>1. /\ status = "running" /\ ~executions[e].complete
      /\ \A t \in DOMAIN executions[e].tasks : TaskEnded(e, t)
      /\ executions' = [executions EXCEPT ![e].complete = TRUE]
      /\ \E s \in {"skipped", "succeeded"} : invocations' = SetInvocation(e, s)
      /\ UNCHANGED <<runs, calls, status>>
  BY DEF CloseExecution, Running
<1>2. e \in DOMAIN invocations /\ invocations[e].status = "active"
  BY <1>1 DEF OwnersDiffer, Life, ExecutionLife, OpenWith, Terminal
<1>3. /\ DOMAIN invocations' = DOMAIN invocations
      /\ \A k \in DOMAIN invocations \ {e} : invocations'[k] = invocations[k]
      /\ invocations'[e].status \in {"skipped", "succeeded"}
  BY <1>1, <1>2 DEF SetInvocation, TypeOK, InvocationsOK
<1>4. /\ DOMAIN executions' = DOMAIN executions
      /\ \A x \in DOMAIN executions : executions'[x].tasks = executions[x].tasks
      /\ \A x \in DOMAIN executions \ {e} : executions'[x] = executions[x]
      /\ executions'[e].complete
  BY <1>1 DEF TypeOK, ExecutionsOK
<1>5. Kept
  BY <1>1, <1>2, <1>3, <1>4 DEF Kept
<1>6. ASSUME NEW d, d.task = None => d.owner \in DOMAIN invocations /\ d.owner \notin DOMAIN executions,
             d.task # None => d.owner \in DOMAIN executions
      PROVE  OwnerStatus(d)' = OwnerStatus(d)
  BY <1>3, <1>4, <1>6 DEF OwnerStatus
<1>7. CallLife'
  BY <1>1, <1>6 DEF Life, CallLife, OwnersDiffer
<1>8. RunLife'
  <2>1. ASSUME NEW p \in DOMAIN runs \ {Root}
        PROVE  OwnerStatus(CallerOf(p))' = OwnerStatus(CallerOf(p))
    <3>1. CallerOf(p).owner = RunOwner(p) /\ CallerOf(p).task = RunTask(p)
      BY DEF CallerOf, CallKey
    <3> QED
      BY <1>6, <3>1 DEF OwnersDiffer
  <2> QED
    BY <1>1, <2>1 DEF Life, RunLife, OpenWith
<1>9. ExecutionLife'
  <2> SUFFICES ASSUME NEW x \in DOMAIN executions
               PROVE  IF executions'[x].complete
                      THEN /\ invocations'[x].status \in {"succeeded", "skipped"}
                           /\ \A t \in DOMAIN executions[x].tasks : TaskEnded(x, t)'
                      ELSE invocations'[x].status = "active"
    BY <1>4 DEF ExecutionLife, OpenWith
  <2>1. \A t \in DOMAIN executions[x].tasks : TaskEnded(x, t) => TaskEnded(x, t)'
    BY <1>5, EndedTaskStays
  <2>2. CASE x = e
    BY <1>1, <1>3, <1>4, <2>1, <2>2
  <2>3. CASE x # e
    <3>1. invocations'[x] = invocations[x] /\ executions'[x] = executions[x]
      BY <1>3, <1>4, <2>3 DEF OwnersDiffer
    <3> QED
      BY <1>1, <2>1, <3>1 DEF Life, ExecutionLife, OpenWith, Terminal
  <2> QED
    BY <2>2, <2>3
<1>10. \A k \in DOMAIN invocations' : Provided(k)'
  BY <1>1, <1>3, <1>4 DEF Life, Provided, ConcurrencyOf, PlacementOf, WorkflowOf
<1> QED
  BY <1>5, <1>7, <1>8, <1>9, <1>10 DEF Life

\* A called workflow ends with the invocation or task that called it.
LEMMA CloseRunKeepsLife ==
  ASSUME TypeOK, OwnersExist, OwnersDiffer, Life, NEW path \in DOMAIN runs, CloseRun(path)
  PROVE  Kept /\ Life'
<1> DEFINE owner == RunOwner(path)
           task == RunTask(path)
           me == CallerOf(path)
           Reached == {"succeeded", "skipped", "failed", "upstreamFailed"}
<1>1. /\ status = "running" /\ path # Root /\ ~runs[path].complete
      /\ runs' = [runs EXCEPT ![path].complete = TRUE]
      /\ UNCHANGED <<calls, status>>
  BY DEF CloseRun, Running, Open
<1>2. \E s \in Reached :
        \/ task = None /\ invocations' = SetInvocation(owner, s) /\ UNCHANGED executions
        \/ task # None /\ executions' = SetTask(owner, task, s) /\ UNCHANGED invocations
  <2> DEFINE outcome == settled[SettledKey(path, DesignatedOutput(path))].outcome
             reached == IF outcome = "normal" THEN "succeeded" ELSE outcome
  <2>1. outcome \in Outcomes
    BY DEF CloseRun, IsSettled, TypeOK
  <2>2. reached \in Reached
    BY <2>1 DEF Outcomes
  <2>3. \/ task = None /\ invocations' = SetInvocation(owner, reached) /\ UNCHANGED executions
        \/ task # None /\ executions' = SetTask(owner, task, reached) /\ UNCHANGED invocations
    BY DEF CloseRun
  <2> QED
    BY <2>2, <2>3
<1>3. /\ me.owner = owner /\ me.task = task /\ owner \in DOMAIN invocations /\ me \notin DOMAIN calls
      /\ path = Child(owner, task)
      /\ task = None => owner \notin DOMAIN executions
      /\ task # None => owner \in DOMAIN executions /\ task \in DOMAIN executions[owner].tasks
  BY <1>1 DEF OwnersDiffer, CallerOf, CallKey
<1>4. OwnerStatus(me) = "active"
  BY <1>1 DEF Life, RunLife, OpenWith, Terminal
<1>5. /\ DOMAIN invocations' = DOMAIN invocations
      /\ \A k \in DOMAIN invocations : invocations'[k] = invocations[k] \/ (task = None /\ k = owner)
      /\ SameTasks(executions, executions')
      /\ \A e \in DOMAIN executions : executions'[e].complete = executions[e].complete
      /\ \A e \in DOMAIN executions : \A t \in DOMAIN executions[e].tasks :
           executions'[e].tasks[t] = executions[e].tasks[t] \/ (e = owner /\ t = task)
      /\ OwnerStatus(me)' \in Reached
  <2> HIDE DEF Reached, owner, task, me
  <2>1. CASE task = None
    <3>1. PICK s \in Reached : invocations' = SetInvocation(owner, s) /\ UNCHANGED executions
      BY <1>2, <2>1
    <3>2. /\ DOMAIN invocations' = DOMAIN invocations
          /\ \A k \in DOMAIN invocations : invocations'[k] = invocations[k] \/ k = owner
          /\ invocations'[owner].status = s
      BY <1>3, <3>1 DEF SetInvocation, TypeOK, InvocationsOK
    <3>3. OwnerStatus(me)' = s
      BY <1>3, <2>1, <3>2 DEF OwnerStatus
    <3> QED
      BY <2>1, <3>1, <3>2, <3>3 DEF SameTasks
  <2>2. CASE task # None
    <3>1. PICK s \in Reached : executions' = SetTask(owner, task, s) /\ UNCHANGED invocations
      BY <1>2, <2>2
    <3>2. /\ SameTasks(executions, executions')
          /\ \A e \in DOMAIN executions : executions'[e].complete = executions[e].complete
      BY <1>3, <2>2, <3>1 DEF SetTask, TypeOK, ExecutionsOK, SameTasks
    <3>3. \A e \in DOMAIN executions : \A t \in DOMAIN executions[e].tasks :
            executions'[e].tasks[t] = executions[e].tasks[t] \/ (e = owner /\ t = task)
      BY <1>3, <2>2, <3>1 DEF SetTask, TypeOK, ExecutionsOK
    <3>4. executions'[owner].tasks[task] = s
      BY <1>3, <2>2, <3>1 DEF SetTask, TypeOK, ExecutionsOK
    <3>5. OwnerStatus(me)' = s
      BY <1>3, <2>2, <3>4 DEF OwnerStatus
    <3> QED
      BY <3>1, <3>2, <3>3, <3>5
  <2> QED
    BY <2>1, <2>2
<1>6. /\ DOMAIN runs' = DOMAIN runs
      /\ \A p \in DOMAIN runs \ {path} : runs'[p] = runs[p]
      /\ runs'[path].complete /\ \A p \in DOMAIN runs : runs'[p].workflow = runs[p].workflow
  BY <1>1 DEF TypeOK
<1> HIDE DEF Reached
<1>7. task = None => invocations[owner].status = "active"
  BY <1>3, <1>4 DEF OwnerStatus
<1>8. task # None => executions[owner].tasks[task] = "active"
  BY <1>3, <1>4 DEF OwnerStatus
<1>9. Kept
  <2>1. \A e \in DOMAIN executions :
          /\ e \in DOMAIN executions'
          /\ DOMAIN executions'[e].tasks = DOMAIN executions[e].tasks
          /\ executions[e].complete => executions'[e].complete
          /\ \A t \in DOMAIN executions[e].tasks :
               executions[e].tasks[t] \notin Unstarted \cup {"active"}
                 => executions'[e].tasks[t] = executions[e].tasks[t]
    BY <1>3, <1>5, <1>8 DEF SameTasks
  <2>2. \A k \in DOMAIN invocations :
          k \in DOMAIN invocations' /\ (invocations[k].status # "active" => invocations'[k] = invocations[k])
    BY <1>5, <1>7
  <2>3. /\ \A p \in DOMAIN runs : p \in DOMAIN runs' /\ (runs[p].complete => runs'[p].complete)
        /\ DOMAIN runs' = DOMAIN runs /\ calls' = calls /\ DOMAIN executions' = DOMAIN executions
    BY <1>1, <1>5, <1>6 DEF SameTasks
  <2> QED
    BY <2>1, <2>2, <2>3 DEF Kept
<1>10. ASSUME NEW d, d = CallKey(d.owner, d.task), d # me, d.owner \in DOMAIN invocations,
              d.task # None => d.owner \in DOMAIN executions /\ d.task \in DOMAIN executions[d.owner].tasks
       PROVE  OwnerStatus(d)' = OwnerStatus(d)
  <2>1. d.owner # owner \/ d.task # task
    BY <1>10 DEF CallerOf
  <2> HIDE DEF owner, task, me
  <2>2. CASE d.task = None
    BY <1>5, <1>10, <2>1, <2>2 DEF OwnerStatus
  <2>3. CASE d.task # None
    BY <1>5, <1>10, <2>1, <2>3 DEF OwnerStatus
  <2> QED
    BY <2>2, <2>3
<1>11. CallLife'
  BY <1>1, <1>3, <1>10 DEF Life, CallLife, OwnersDiffer
<1>12. RunLife'
  <2> SUFFICES ASSUME NEW p \in DOMAIN runs \ {Root}
               PROVE  IF runs'[p].complete THEN OwnerStatus(CallerOf(p))' \in Reached
                                           ELSE OwnerStatus(CallerOf(p))' = "active"
    BY <1>6 DEF RunLife, OpenWith, Reached
  <2>1. CASE p = path
    BY <1>5, <1>6, <2>1
  <2>2. CASE p # path
    <3>1. CallerOf(p).owner = RunOwner(p) /\ CallerOf(p).task = RunTask(p)
      BY DEF CallerOf, CallKey
    <3>2. CallerOf(p) # me
      BY <1>3, <2>2, <3>1 DEF OwnersDiffer
    <3>3. CallerOf(p) = CallKey(CallerOf(p).owner, CallerOf(p).task)
      BY <3>1 DEF CallerOf
    <3>4. OwnerStatus(CallerOf(p))' = OwnerStatus(CallerOf(p))
      BY <1>10, <3>1, <3>2, <3>3 DEF OwnersDiffer
    <3>5. IF runs[p].complete THEN OwnerStatus(CallerOf(p)) \in Reached
                              ELSE OwnerStatus(CallerOf(p)) = "active"
      BY <1>1 DEF Life, RunLife, OpenWith, Terminal, Reached
    <3> QED
      BY <1>6, <2>2, <3>4, <3>5
  <2> QED
    BY <2>1, <2>2
<1>13. ExecutionLife'
  <2> SUFFICES ASSUME NEW e \in DOMAIN executions
               PROVE  IF executions[e].complete
                      THEN /\ invocations'[e].status \in {"succeeded", "skipped"}
                           /\ \A t \in DOMAIN executions[e].tasks : TaskEnded(e, t)'
                      ELSE invocations'[e].status = "active"
    BY <1>5 DEF ExecutionLife, SameTasks, OpenWith
  <2>1. invocations'[e] = invocations[e]
    BY <1>3, <1>5 DEF OwnersDiffer
  <2> QED
    BY <1>1, <1>9, <2>1, EndedTaskStays DEF Life, ExecutionLife, OpenWith, Terminal
<1>14. \A k \in DOMAIN invocations' : Provided(k)'
  <2>1. \A k \in DOMAIN invocations : k.run \in DOMAIN runs
    BY DEF OwnersExist, InvocationOwned
  <2> QED
    BY <1>1, <1>5, <1>6, <2>1 DEF Life, Provided, ConcurrencyOf, PlacementOf, WorkflowOf, SameTasks
<1> QED
  BY <1>9, <1>11, <1>12, <1>13, <1>14 DEF Life

\* The end of a stopped execution cancels what is active, but ends nothing else.
LEMMA ConcludeStoppingKeepsLife ==
  ASSUME TypeOK, OwnersExist, OwnersDiffer, Life, ConcludeStopping
  PROVE  Kept /\ Life'
<1>1. /\ status = "stopping" /\ \A c \in DOMAIN calls : CallEnded(calls[c].status)
      /\ status' \in Terminal
      /\ UNCHANGED <<runs, calls>>
  BY DEF ConcludeStopping, Terminal, Statuses
<1>2. /\ DOMAIN invocations' = DOMAIN invocations
      /\ \A k \in DOMAIN invocations :
           IF invocations[k].status = "active" THEN invocations'[k].status = "cancelled"
                                               ELSE invocations'[k] = invocations[k]
  BY DEF ConcludeStopping, TypeOK, InvocationsOK
<1>3. /\ SameTasks(executions, executions')
      /\ \A e \in DOMAIN executions : executions'[e].complete = executions[e].complete
      /\ \A e \in DOMAIN executions : \A t \in DOMAIN executions[e].tasks :
           executions'[e].tasks[t] = CASE executions[e].tasks[t] \in Unstarted -> "notStarted"
                                       [] executions[e].tasks[t] = "active" -> "cancelled"
                                       [] OTHER -> executions[e].tasks[t]
  <2>1. PICK table : table = DropUnstarted(executions)
    OBVIOUS
  <2>2. executions' = MapTasks(table, {"active"}, "cancelled") /\ table = MapTasks(executions, Unstarted, "notStarted")
    BY <2>1 DEF ConcludeStopping, DropUnstarted, Unstarted
  <2>3. "cancelled" \in TaskStatuses /\ "notStarted" \in TaskStatuses /\ ExecutionsOK(executions)
    BY DEF TypeOK, TaskStatuses, InvocationStatuses
  <2>4. /\ ExecutionsOK(table) /\ SameTasks(executions, table)
        /\ \A e \in DOMAIN executions : table[e].complete = executions[e].complete
        /\ \A e \in DOMAIN executions : \A t \in DOMAIN executions[e].tasks :
             table[e].tasks[t] = IF executions[e].tasks[t] \in Unstarted THEN "notStarted" ELSE executions[e].tasks[t]
    BY <2>2, <2>3, MapTasksOK
  <2>5. /\ SameTasks(table, executions')
        /\ \A e \in DOMAIN table : executions'[e].complete = table[e].complete
        /\ \A e \in DOMAIN table : \A t \in DOMAIN table[e].tasks :
             executions'[e].tasks[t] = IF table[e].tasks[t] \in {"active"} THEN "cancelled" ELSE table[e].tasks[t]
    BY <2>2, <2>3, <2>4, MapTasksOK
  <2> QED
    BY <2>4, <2>5 DEF SameTasks, Unstarted
<1>4. Kept
  <2>1. \A e \in DOMAIN executions : \A t \in DOMAIN executions[e].tasks :
          executions[e].tasks[t] \notin Unstarted \cup {"active"} => executions'[e].tasks[t] = executions[e].tasks[t]
    BY <1>3
  <2> QED
    BY <1>1, <1>2, <1>3, <2>1 DEF Kept, SameTasks
<1>5. ASSUME NEW d, d.owner \in DOMAIN invocations, OwnerStatus(d) \notin Unstarted,
             d.task # None => d.owner \in DOMAIN executions /\ d.task \in DOMAIN executions[d.owner].tasks
      PROVE  OwnerStatus(d)' = IF OwnerStatus(d) = "active" THEN "cancelled" ELSE OwnerStatus(d)
  BY <1>2, <1>3, <1>5 DEF OwnerStatus, Unstarted
<1>6. CallLife'
  <2> SUFFICES ASSUME NEW d \in DOMAIN calls
               PROVE  OwnerStatus(d)' \in OwnerMay(calls[d].status)
    BY <1>1 DEF CallLife
  <2>1. OwnerStatus(d) \in OwnerMay(calls[d].status) /\ CallEnded(calls[d].status)
    BY <1>1 DEF Life, CallLife
  <2>2. OwnerStatus(d) \notin Unstarted \cup {"active"}
    BY <2>1 DEF OwnerMay, Unstarted, CallEnded, Live
  <2> QED
    BY <1>5, <2>1, <2>2 DEF OwnersDiffer
<1>7. RunLife'
  <2> SUFFICES ASSUME NEW p \in DOMAIN runs \ {Root}
               PROVE  IF runs[p].complete
                      THEN OwnerStatus(CallerOf(p))' \in {"succeeded", "skipped", "failed", "upstreamFailed"}
                      ELSE OwnerStatus(CallerOf(p))' = "cancelled"
    BY <1>1 DEF RunLife, OpenWith
  <2>1. CallerOf(p).owner = RunOwner(p) /\ CallerOf(p).task = RunTask(p)
    BY DEF CallerOf, CallKey
  <2>2. IF runs[p].complete
        THEN OwnerStatus(CallerOf(p)) \in {"succeeded", "skipped", "failed", "upstreamFailed"}
        ELSE OwnerStatus(CallerOf(p)) = "active"
    BY <1>1 DEF Life, RunLife, OpenWith, Terminal
  <2>3. OwnerStatus(CallerOf(p)) \notin Unstarted
    BY <2>2 DEF Unstarted
  <2> QED
    BY <1>5, <2>1, <2>2, <2>3 DEF OwnersDiffer
<1>8. ExecutionLife'
  <2> SUFFICES ASSUME NEW e \in DOMAIN executions
               PROVE  IF executions[e].complete
                      THEN /\ invocations'[e].status \in {"succeeded", "skipped"}
                           /\ \A t \in DOMAIN executions[e].tasks : TaskEnded(e, t)'
                      ELSE invocations'[e].status = "cancelled"
    BY <1>1, <1>3 DEF ExecutionLife, SameTasks, OpenWith
  <2>1. IF executions[e].complete
        THEN /\ invocations[e].status \in {"succeeded", "skipped"}
             /\ \A t \in DOMAIN executions[e].tasks : TaskEnded(e, t)
        ELSE invocations[e].status = "active"
    BY <1>1 DEF Life, ExecutionLife, OpenWith, Terminal
  <2> QED
    BY <1>2, <1>4, <2>1, EndedTaskStays DEF OwnersDiffer
<1>9. \A k \in DOMAIN invocations' : Provided(k)'
  BY <1>1, <1>2, <1>3 DEF Life, Provided, ConcurrencyOf, PlacementOf, WorkflowOf, SameTasks
<1> QED
  BY <1>4, <1>6, <1>7, <1>8, <1>9 DEF Life

\* Every step keeps what has ended, and what owners say of what they own.
LEMMA StepKeepsLife ==
  ASSUME TypeOK, OwnersExist, NoLiveWhileStopping, Life, [Next]_vars
  PROVE  Kept /\ Life'
<1>1. OwnersDiffer
  BY TypesTellOwners
<1>2. Grows
  BY StepKeepsTypes
<1>3. CASE status \in Terminal
  <2>1. UNCHANGED vars
    BY <1>3, TerminalSteps
  <2>2. Kept
    BY <1>1, <2>1, EventsKeep, IdleIsSteady DEF vars
  <2>3. \A e, t : TaskEnded(e, t)' <=> TaskEnded(e, t)
    BY <2>1 DEF vars, TaskEnded, HoldsSlot
  <2>4. \A k : Provided(k)' <=> Provided(k)
    BY <2>1 DEF vars, Provided, ConcurrencyOf, PlacementOf, WorkflowOf
  <2>5. \A d : OwnerStatus(d)' = OwnerStatus(d)
    BY <2>1 DEF vars, OwnerStatus
  <2> QED
    BY <2>1, <2>2, <2>3, <2>4, <2>5 DEF vars, Life, CallLife, RunLife, ExecutionLife, OpenWith
<1>4. CASE status \notin Terminal
  <2>1. \A c \in DOMAIN calls : CallEvent(c) => Kept /\ Life'
    BY <1>1, <1>4, EventsKeep, EventsKeepLife
  <2>2. Steady => Kept /\ Life'
    BY <1>1, <1>4, EventsKeep, SteadyKeepsLife
  <2>3. Begins => Kept /\ Life'
    BY <1>1, <1>2, <1>4, BeginsKeepsLife
  <2>4. CASE Start \/ ConcludeRunning
    <3>1. UNCHANGED <<invocations, calls, executions>>
      BY <2>4 DEF Start, ConcludeRunning
    <3>2. ASSUME NEW p \in DOMAIN runs' \ {Root}
          PROVE  p \in DOMAIN runs /\ runs'[p] = runs[p]
      BY <2>4 DEF Start, ConcludeRunning, Put
    <3>3. Root \in DOMAIN runs => (runs[Root].complete => runs'[Root].complete)
      BY <2>4 DEF Start, ConcludeRunning, OwnersExist, TypeOK
    <3> QED
      BY <1>1, <1>2, <1>4, <3>1, <3>2, <3>3, RootKeepsLife
  <2>5. ASSUME NEW path \in DOMAIN runs, NEW name \in Placements(WorkflowOf(path)), NEW trigger,
               Invoke(path, name, trigger)
        PROVE  Kept /\ Life'
    BY <1>1, <1>2, <2>3, <2>5, InvokeBegins
  <2>6. ASSUME NEW path, NEW name, Settle(path, name)
        PROVE  Kept /\ Life'
    BY <2>2, <2>6, IdleIsSteady DEF Settle
  <2>7. ASSUME NEW path \in DOMAIN runs, CloseRun(path)
        PROVE  Kept /\ Life'
    BY <1>1, <2>7, CloseRunKeepsLife
  <2>8. ASSUME NEW path, NEW i, NEW source, Deliver(path, i, source)
        PROVE  Kept /\ Life'
    BY <2>2, <2>8, IdleIsSteady DEF Deliver
  <2>9. ASSUME NEW e \in DOMAIN executions, NEW t \in DOMAIN executions[e].tasks,
               TaskInput(e, t) \/ TaskInputFailed(e, t)
        PROVE  Kept /\ Life'
    BY <2>2, <2>9, TransformsAreSteady
  <2>10. ASSUME NEW e \in DOMAIN executions, NEW t \in DOMAIN executions[e].tasks, BeginTask(e, t)
         PROVE  Kept /\ Life'
    BY <1>1, <2>3, <2>10, BeginTaskBegins
  <2>11. ASSUME NEW r, TaskOutput(r)
         PROVE  Kept /\ Life'
    BY <2>2, <2>11, IdleIsSteady DEF TaskOutput
  <2>12. ASSUME NEW e \in DOMAIN executions, CloseExecution(e)
         PROVE  Kept /\ Life'
    BY <1>1, <2>12, CloseExecutionKeepsLife
  <2>13. ASSUME NEW c \in DOMAIN calls,
                \/ Fetch(c) \/ Report(c)
                \/ CallFailed(c) \/ CallTimedOut(c) \/ ElementTimedOut(c) \/ Lost(c)
         PROVE  Kept /\ Life'
    BY <1>1, <2>1, <2>13, ReportsAreEvents DEF Report
  <2>14. ASSUME NEW path, NEW i, NEW source, TransformFailed(path, i, source)
         PROVE  Kept /\ Life'
    <3>1. UNCHANGED <<runs, invocations>> /\ \E failure, policy : Fail(failure, policy, calls, executions)
      BY <2>14 DEF TransformFailed
    <3>2. ExecutionsOK(executions) /\ SameTasks(executions, executions)
      BY DEF TypeOK, SameTasks
    <3> QED
      BY <2>2, <3>1, <3>2, FailureIsSteady
  <2>15. ASSUME NEW r, TaskOutputFailed(r)
         PROVE  Kept /\ Life'
    <3>1. UNCHANGED <<runs, invocations>> /\ \E failure, policy : Fail(failure, policy, calls, executions)
      BY <2>15 DEF TaskOutputFailed
    <3>2. ExecutionsOK(executions) /\ SameTasks(executions, executions)
      BY DEF TypeOK, SameTasks
    <3> QED
      BY <2>2, <3>1, <3>2, FailureIsSteady
  <2>16. CASE ConcludeStopping
    BY <1>1, <2>16, ConcludeStoppingKeepsLife
  <2>17. CASE Cancel
    <3>1. UNCHANGED <<runs, invocations>>
      BY <2>17 DEF Cancel
    <3> QED
      BY <2>2, <2>17, <3>1, StopIsSteady, IdleIsSteady DEF Cancel
  <2>18. CASE Done \/ UNCHANGED vars
    BY <2>2, <2>18, IdleIsSteady DEF Done, vars
  <2> QED
    BY <2>4, <2>5, <2>6, <2>7, <2>8, <2>9, <2>10, <2>11, <2>12, <2>13, <2>14, <2>15, <2>16, <2>17, <2>18
    DEF Next, Control, Environment
<1> QED
  BY <1>3, <1>4

-----------------------------------------------------------------------------
(* What the driver sees of the calls *)

\* A table of calls, with the functions as they are before the step.
ViewOf(table) ==
  [c \in DOMAIN table |->
    [stream |-> IsStream(c), status |-> table[c].status, yields |-> table[c].yields]]

\* What the driver sees of every call.
ViewShows ==
  /\ DOMAIN CallsView = DOMAIN calls
  /\ CallsView = [c \in DOMAIN CallsView |-> CallsView[c]]
  /\ \A c \in DOMAIN calls :
       /\ CallsView[c].status = calls[c].status
       /\ CallsView[c].yields = calls[c].yields
       /\ CallsView[c] = [stream |-> CallsView[c].stream, status |-> calls[c].status, yields |-> calls[c].yields]

\* The view has the status and the elements of every call.
LEMMA ViewHas == ViewShows
BY DEF ViewShows, CallsView

\* Before the step the table is seen as it is.
LEMMA ViewNow == CallsView = ViewOf(calls)
BY DEF CallsView, ViewOf

\* While the calls stay the same ones, so do their functions.
LEMMA ViewAfter ==
  ASSUME TypeOK, OwnersExist, Grows, DOMAIN calls' = DOMAIN calls
  PROVE  CallsView' = ViewOf(calls')
<1>1. ASSUME NEW c \in DOMAIN calls
      PROVE  IsStream(c)' = IsStream(c)
  <2>1. IsStream(c)' <=> IsStream(c)
    BY <1>1, StreamsStay
  <2> QED
    BY <2>1 DEF IsStream
<1> QED
  BY <1>1 DEF CallsView, ViewOf

\* A call that stays is seen as it was.
LEMMA ViewStays ==
  ASSUME TypeOK, OwnersExist, Grows, NEW c \in DOMAIN calls, c \in DOMAIN calls', calls'[c] = calls[c]
  PROVE  CallsView'[c] = CallsView[c]
<1>1. IsStream(c)' = IsStream(c)
  <2>1. IsStream(c)' <=> IsStream(c)
    BY StreamsStay
  <2> QED
    BY <2>1 DEF IsStream
<1> QED
  BY <1>1 DEF CallsView
=============================================================================
