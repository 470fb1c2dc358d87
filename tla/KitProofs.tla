----------------------------- MODULE KitProofs ------------------------------
(***************************************************************************)
(* What the UI kit makes of the state of an execution: the phase it shows  *)
(* for a placement (PhasesSound), what it traces a result to, what it      *)
(* finds in a list and in the tree of runs (StatesReadable), and the       *)
(* placement and task it relates an operation to (Attributed).             *)
(*                                                                         *)
(* The kit reads all this back from keys, which the engine only ever       *)
(* builds from what it knows.  So each proof ties what is read to an       *)
(* invariant of the machine.  A placement settles, and a run completes,    *)
(* when all that its invocations own has ended.  A result is owned by what *)
(* made it (EntriesOwned), and the entries of a list are numbered without  *)
(* a gap (Lists).  The path of a run is the path of its owner and one      *)
(* segment more, so its level in the tree is its length, and within the    *)
(* limits that the kit sets (WithinBudgets) no tree is refused.  A step    *)
(* touches nothing outside the placement that its operation is about.      *)
(***************************************************************************)
EXTENDS SettlementProofs, KitProperties

-----------------------------------------------------------------------------
(* The phase of a placement *)

\* An invocation that has ended has nothing in flight: neither it nor a task
\* of it is active, and no call or called workflow of either still runs.
LEMMA EndedOwnsNothing ==
  ASSUME IInv, NEW k \in DOMAIN invocations, InvocationEnded(k)
  PROVE  /\ invocations[k].status # "active"
         /\ \A c \in DOMAIN calls : c.owner = k => CallEnded(calls[c].status)
         /\ \A p \in DOMAIN runs \ {Root} : RunOwner(p) = k => runs[p].complete
         /\ k \in DOMAIN executions =>
              /\ executions[k].complete
              /\ \A t \in DOMAIN executions[k].tasks : executions[k].tasks[t] \notin {"pending", "ready", "active"}
<1>1. OwnersDiffer
  BY TypesTellOwners DEF IInv
<1>2. ASSUME k \in DOMAIN executions
      PROVE  executions[k].complete /\ \A t \in DOMAIN executions[k].tasks : TaskEnded(k, t)
  BY <1>2 DEF InvocationEnded, IInv, Life, ExecutionLife
<1>3. ASSUME NEW c \in DOMAIN calls, c.owner = k
      PROVE  CallEnded(calls[c].status)
  <2>1. /\ c = CallKey(k, c.task)
        /\ c.task # None => k \in DOMAIN executions /\ c.task \in DOMAIN executions[k].tasks
    BY <1>1, <1>3 DEF OwnersDiffer
  <2>2. CASE c.task = None
    BY <1>3, <2>1, <2>2 DEF InvocationEnded
  <2>3. CASE c.task # None
    <3>1. TaskEnded(k, c.task)
      BY <1>2, <2>1, <2>3
    <3>2. executions[k].tasks[c.task] \in OwnerMay(calls[c].status)
      BY <1>3, <2>3 DEF IInv, Life, CallLife, OwnerStatus
    <3>3. calls[c].status \notin Live
      BY <3>1, <3>2 DEF TaskEnded, OwnerMay, Live
    <3>4. calls[c].status # "cancelling"
      BY <1>3, <2>1, <3>1 DEF TaskEnded, HoldsSlot
    <3> QED
      BY <3>3, <3>4 DEF CallEnded
  <2> QED
    BY <2>2, <2>3
<1>4. ASSUME NEW p \in DOMAIN runs \ {Root}, RunOwner(p) = k
      PROVE  runs[p].complete
  <2>1. /\ p = Child(k, RunTask(p))
        /\ RunTask(p) # None => k \in DOMAIN executions /\ RunTask(p) \in DOMAIN executions[k].tasks
    BY <1>1, <1>4 DEF OwnersDiffer
  <2>2. CASE RunTask(p) = None
    BY <1>4, <2>1, <2>2 DEF InvocationEnded
  <2>3. CASE RunTask(p) # None
    BY <1>2, <1>4, <2>1, <2>3 DEF TaskEnded
  <2> QED
    BY <2>2, <2>3
<1> QED
  BY <1>2, <1>3, <1>4 DEF InvocationEnded, TaskEnded

\* A placement all of whose invocations have ended is not busy.
LEMMA EndedIsNotBusy ==
  ASSUME IInv, NEW path, NEW name, AllEnded(path, name)
  PROVE  ~Busy(path, name)
<1>1. OwnersDiffer
  BY TypesTellOwners DEF IInv
<1>2. \A k \in DOMAIN invocations : OwnedBy(k, path, name) => InvocationEnded(k)
  BY DEF AllEnded, InvocationsOf, OwnedBy
<1>3. RunningCalls(path, name) = {}
  <2>1. \A c \in DOMAIN calls : c.owner \in DOMAIN invocations
    BY <1>1 DEF OwnersDiffer
  <2> QED
    BY <1>2, <2>1, EndedOwnsNothing DEF RunningCalls
<1>4. \A k \in InvocationsOf(path, name) : invocations[k].status # "active"
  BY DEF AllEnded, InvocationEnded
<1>5. ASSUME NEW e \in DOMAIN executions, OwnedBy(e, path, name)
      PROVE  /\ executions[e].complete
             /\ \A t \in DOMAIN executions[e].tasks : executions[e].tasks[t] \notin {"pending", "ready", "active"}
  <2>1. e \in DOMAIN invocations
    BY <1>1 DEF OwnersDiffer
  <2> QED
    BY <1>2, <1>5, <2>1, EndedOwnsNothing
<1>6. ASSUME NEW p \in DOMAIN runs \ {Root}, OwnedBy(RunOwner(p), path, name)
      PROVE  runs[p].complete
  <2>1. RunOwner(p) \in DOMAIN invocations
    BY <1>1 DEF OwnersDiffer
  <2> QED
    BY <1>2, <1>6, <2>1, EndedOwnsNothing
<1> QED
  BY <1>3, <1>4, <1>5, <1>6 DEF Busy

\* A placement that was never invoked and is not settled has no results.
LEMMA NeverInvokedHasNone ==
  ASSUME IInv, NEW path, NEW name, ~IsSettled(path, name), InvocationsOf(path, name) = {}
  PROVE  ResultsOf(path, name) = {}
<1> SUFFICES ASSUME NEW r \in DOMAIN results, r.run = path, r.label.placement = name
             PROVE  FALSE
  BY DEF ResultsOf
<1>1. OwnersDiffer
  BY TypesTellOwners DEF IInv
<1>2. InvocationOf(r) \notin DOMAIN invocations
  BY DEF InvocationOf, InvocationKey, InvocationsOf
<1>3. ResultOwned(r)
  BY DEF IInv, Books, EntriesOwned
<1>4. CASE OfCall(r)
  BY <1>1, <1>2, <1>4 DEF OfCall, CallOf, InvocationOf, CallKey, OwnersDiffer
<1>5. CASE OfTask(r)
  <2>1. TaskResultOwned(TaskResultOf(r))
    BY <1>5 DEF OfTask, IInv, Books, EntriesOwned
  <2> QED
    BY <1>1, <1>2, <2>1 DEF TaskResultOwned, TaskResultOf, TaskResultKey, OwnersDiffer
<1>6. CASE OfExecution(r)
  BY <1>1, <1>2, <1>6 DEF OfExecution, OwnersDiffer
<1>7. CASE OfRun(r)
  BY <1>2, <1>7 DEF OfRun
<1>8. CASE OfInputs(r)
  BY <1>8 DEF OfInputs
<1> QED
  BY <1>3, <1>4, <1>5, <1>6, <1>7, <1>8 DEF ResultOwned

\* What the kit shows of a placement is what is going on there: settlement
\* means that every invocation has ended, with all that it owns, and so does
\* the completion of its run.
THEOREM PhasesAreSound == Spec => []PhasesSound
<1>1. ASSUME IInv, NEW path \in DOMAIN runs, NEW name \in Placements(WorkflowOf(path))
      PROVE  /\ Phase(path, name) = "settled" => ~Busy(path, name)
             /\ Phase(path, name) = "active" => ~runs[path].complete
             /\ Phase(path, name) = "idle" => ResultsOf(path, name) = {}
  <2>1. IsSettled(path, name) => ~Busy(path, name)
    BY <1>1, EndedIsNotBusy DEF IInv, Books, Sealed, Exhausted, AllEnded, IsSettled, SettledKey
  <2>2. runs[path].complete => IsSettled(path, name)
    BY <1>1 DEF IInv, Books, CompleteIsSettled, AllSettled
  <2>3. CASE IsSettled(path, name)
    BY <2>1, <2>3 DEF Phase
  <2>4. CASE ~IsSettled(path, name) /\ Busy(path, name)
    BY <2>2, <2>4 DEF Phase
  <2>5. CASE ~IsSettled(path, name) /\ ~Busy(path, name) /\ InvocationsOf(path, name) = {}
    BY <1>1, <2>2, <2>5, NeverInvokedHasNone DEF Phase
  <2>6. CASE ~IsSettled(path, name) /\ ~Busy(path, name) /\ InvocationsOf(path, name) # {}
    BY <2>6 DEF Phase
  <2> QED
    BY <2>3, <2>4, <2>5, <2>6
<1>2. IInv => PhasesSound
  BY <1>1 DEF PhasesSound
<1> QED
  BY <1>2, BooksHold, PTL

-----------------------------------------------------------------------------
(* Where a result came from *)

\* An invocation, a call and a settlement are never the same: their keys have
\* different parts.
LEMMA KeysTellTables ==
  ASSUME TypeOK, OwnersExist, NEW path, NEW name, NEW trigger, NEW owner, NEW task
  PROVE  /\ InvocationKey(path, name, trigger) \notin DOMAIN calls
         /\ SettledKey(path, name) \notin DOMAIN calls
         /\ SettledKey(path, name) \notin DOMAIN invocations
         /\ SettledKey(path, name) \notin DOMAIN executions
         /\ CallKey(owner, task) \notin DOMAIN invocations
         /\ CallKey(owner, task) \notin DOMAIN executions
<1>1. \A c \in DOMAIN calls : DOMAIN c = {"owner", "task"}
  BY DEF OwnersExist, CallOwned, CallKey
<1>2. \A k \in DOMAIN invocations : DOMAIN k = {"run", "placement", "trigger"}
  BY DEF OwnersExist, InvocationOwned, InvocationKey
<1>3. \A e \in DOMAIN executions : e \in DOMAIN invocations
  BY DEF OwnersExist, ExecutionOwned
<1>4. /\ DOMAIN InvocationKey(path, name, trigger) = {"run", "placement", "trigger"}
      /\ DOMAIN SettledKey(path, name) = {"run", "placement"}
      /\ DOMAIN CallKey(owner, task) = {"owner", "task"}
  BY DEF InvocationKey, SettledKey, CallKey
<1>5. /\ {"owner", "task"} # {"run", "placement", "trigger"} /\ {"owner", "task"} # {"run", "placement"}
      /\ {"run", "placement"} # {"run", "placement", "trigger"}
  <2>1. "owner" \notin {"run", "placement", "trigger"} /\ "owner" \notin {"run", "placement"} /\ "trigger" \notin {"run", "placement"}
    OBVIOUS
  <2> QED
    BY <2>1
<1> QED
  BY <1>1, <1>2, <1>3, <1>4, <1>5

\* A result is a value of a call, of a task, of an execution, of a called
\* workflow or of what a placement collects, as the type of its node says.
LEMMA ResultsAreOfTheirNode ==
  ASSUME IInv, NEW r \in DOMAIN results
  PROVE  LET k == InvocationOf(r)
             node == PlacementOf(r.run, r.label.placement)
         IN  \/ /\ node.type \in {"function", "branch"}
                /\ OfCall(r) /\ k \in DOMAIN invocations
             \/ /\ node.type = "concurrency"
                /\ OfTask(r) /\ node.output # "list"
                /\ k \in DOMAIN executions /\ k \in DOMAIN invocations
             \/ /\ node.type = "concurrency"
                /\ OfExecution(r) /\ k \in DOMAIN executions /\ k \in DOMAIN invocations
             \/ /\ node.type = "subworkflow"
                /\ OfRun(r) /\ k \in DOMAIN invocations /\ k \notin DOMAIN executions
             \/ node.type \in Collecting /\ OfInputs(r)
<1> DEFINE k == InvocationOf(r)
           node == PlacementOf(r.run, r.label.placement)
<1>1. /\ k = InvocationKey(r.run, r.label.placement, r.label.trigger)
      /\ k.run = r.run /\ k.placement = r.label.placement
      /\ ConcurrencyOf(k) = node
  BY DEF InvocationOf, InvocationKey, ConcurrencyOf
<1>2. ResultOwned(r) /\ OwnersExist
  BY DEF IInv, Books, EntriesOwned
<1>3. \A e \in DOMAIN executions : e \in DOMAIN invocations /\ ConcurrencyOf(e).type = "concurrency"
  BY <1>2 DEF OwnersExist, ExecutionOwned
<1>4. CASE OfCall(r)
  <2>1. CallOf(r) = CallKey(k, None) /\ CallOf(r) \in DOMAIN calls
    BY <1>4 DEF OfCall, CallOf, InvocationOf
  <2>2. CallOwned(CallKey(k, None))
    BY <1>2, <2>1 DEF OwnersExist
  <2>3. k \in DOMAIN invocations /\ BodyOf(CallKey(k, None)).type \in {"function", "branch"}
    BY <2>2 DEF CallOwned, OwnerExists, CallKey
  <2>4. BodyOf(CallKey(k, None)) = node
    BY <1>1 DEF BodyOf, CallKey, ConcurrencyOf
  <2> QED
    BY <1>4, <2>3, <2>4
<1>5. CASE OfTask(r)
  <2>1. TaskResultOwned(TaskResultOf(r))
    BY <1>2, <1>5 DEF OfTask, IInv, Books, EntriesOwned
  <2>2. k \in DOMAIN executions
    BY <2>1 DEF TaskResultOwned, TaskResultOf, TaskResultKey
  <2>3. ConcurrencyOf(k).output # "list"
    BY <1>5 DEF OfTask
  <2> QED
    BY <1>1, <1>3, <1>5, <2>2, <2>3
<1>6. CASE OfExecution(r)
  BY <1>1, <1>3, <1>6 DEF OfExecution
<1>7. CASE OfRun(r)
  <2>1. k \in DOMAIN invocations /\ Child(k, None) \in DOMAIN runs
    BY <1>7 DEF OfRun
  <2>2. k = InvocationKey(k.run, k.placement, k.trigger) /\ IsSequence(k.run)
    BY <2>1, InvocationsAreIn DEF IInv, TypeOK
  <2>3. Child(k, None) # Root /\ RunOwner(Child(k, None)) = k /\ RunTask(Child(k, None)) = None
    BY <2>2, ChildPath
  <2>4. RunOwned(Child(k, None))
    BY <1>2, <2>1, <2>3 DEF OwnersExist
  <2>5. BodyOf(CallKey(k, None)).type = "subworkflow"
    BY <2>3, <2>4 DEF RunOwned, CallKey
  <2>6. BodyOf(CallKey(k, None)) = node
    BY <1>1 DEF BodyOf, CallKey, ConcurrencyOf
  <2> QED
    BY <1>1, <1>3, <1>7, <2>1, <2>5, <2>6
<1>8. CASE OfInputs(r)
  BY <1>8 DEF OfInputs, Collecting
<1> HIDE DEF k, node
<1> QED
  BY <1>2, <1>4, <1>5, <1>6, <1>7, <1>8 DEF ResultOwned, k, node

\* The kit finds what produced a result, and the invocation of it.
LEMMA ResultsAreTraced == IInv => ResultsTraced
<1> SUFFICES ASSUME IInv, NEW r \in DOMAIN results
             PROVE  LET type == PlacementOf(r.run, r.label.placement).type
                    IN  /\ ResultSource(r) = CASE type \in {"function", "branch"} -> "call"
                                               [] type = "concurrency" -> "execution"
                                               [] type = "subworkflow" -> "invocation"
                                               [] OTHER -> "aggregate"
                        /\ ResultSource(r) # "aggregate" =>
                             SourceInvocation(r) \in InvocationsOf(r.run, r.label.placement)
  BY DEF ResultsTraced
<1> DEFINE k == InvocationOf(r)
           type == PlacementOf(r.run, r.label.placement).type
<1>1. /\ k = InvocationKey(r.run, r.label.placement, r.label.trigger)
      /\ k.run = r.run /\ k.placement = r.label.placement
      /\ k \notin DOMAIN calls
      /\ SettledKey(r.run, r.label.placement) \notin DOMAIN calls
      /\ SettledKey(r.run, r.label.placement) \notin DOMAIN executions
      /\ SettledKey(r.run, r.label.placement) \notin DOMAIN invocations
  BY KeysTellTables DEF InvocationOf, InvocationKey, IInv
<1>2. k \in DOMAIN invocations => k \in InvocationsOf(r.run, r.label.placement)
  BY <1>1 DEF InvocationsOf
<1>3. CASE type \in {"function", "branch"} /\ OfCall(r) /\ k \in DOMAIN invocations
  <2>1. Producer(r) = CallKey(k, None) /\ CallKey(k, None) \in DOMAIN calls /\ CallKey(k, None).owner = k
    BY <1>1, <1>3 DEF Producer, OfCall, CallOf, InvocationOf, CallKey
  <2>2. ResultSource(r) = "call" /\ SourceInvocation(r) = k
    BY <2>1 DEF ResultSource, SourceInvocation
  <2> QED
    BY <1>2, <1>3, <2>2
<1>4. CASE /\ type = "concurrency" /\ (OfTask(r) \/ OfExecution(r))
           /\ k \in DOMAIN executions /\ k \in DOMAIN invocations
  <2>1. Producer(r) = k
    BY <1>1, <1>4 DEF Producer, OfTask, OfExecution
  <2>2. ResultSource(r) = "execution" /\ SourceInvocation(r) = k
    BY <1>1, <1>4, <2>1 DEF ResultSource, SourceInvocation
  <2> QED
    BY <1>2, <1>4, <2>2
<1>5. CASE type = "subworkflow" /\ OfRun(r) /\ k \in DOMAIN invocations /\ k \notin DOMAIN executions
  <2>1. Producer(r) = k
    BY <1>1, <1>5 DEF Producer, OfRun
  <2>2. ResultSource(r) = "invocation" /\ SourceInvocation(r) = k
    BY <1>1, <1>5, <2>1 DEF ResultSource, SourceInvocation
  <2> QED
    BY <1>2, <1>5, <2>2
<1>6. CASE type \in Collecting /\ OfInputs(r)
  <2>1. Producer(r) = SettledKey(r.run, r.label.placement)
    BY <1>6 DEF Producer, OfInputs
  <2>2. ResultSource(r) = "aggregate"
    BY <1>1, <2>1 DEF ResultSource
  <2> QED
    BY <1>6, <2>2 DEF Collecting
<1> QED
  BY <1>3, <1>4, <1>5, <1>6, ResultsAreOfTheirNode

-----------------------------------------------------------------------------
(* What a list holds *)

\* The values that were delivered on a connection, as the kit looks them up.
ValuesOn(path, i) == {d.source : d \in {x \in DeliveriesOn(path, i) : deliveries[x] = "value"}}

\* A connection from a Single placement brings one value at most.
LEMMA SinglesDeliverOnce ==
  ASSUME IInv, NEW path \in DOMAIN runs, NEW i \in Edges(WorkflowOf(path)),
         KindOf(path, Edge(WorkflowOf(path), i).source) = "single",
         NEW a \in ValuesOn(path, i), NEW b \in ValuesOn(path, i)
  PROVE  a = b
<1> PICK name : name = Edge(WorkflowOf(path), i).source
  OBVIOUS
<1>1. name \in Placements(WorkflowOf(path))
  BY RunsAreValid, WorkflowIsValid DEF IInv, ValidConnection
<1>2. OneResult(path, name)
  BY <1>1 DEF IInv, Books, SinglesHaveOne
<1>3. \A x \in ValuesOn(path, i) : ResultKey(path, x) \in ResultsOf(path, name)
  <2> SUFFICES ASSUME NEW d \in DOMAIN deliveries, d.run = path, d.connection = i
               PROVE  ResultKey(path, d.source) \in ResultsOf(path, name)
    BY DEF ValuesOn, DeliveriesOn
  <2>1. DeliveryOwned(d)
    BY DEF IInv, Books, EntriesOwned
  <2> QED
    BY <2>1 DEF DeliveryOwned, Eligible
<1>4. ResultKey(path, a) = ResultKey(path, b)
  BY <1>2, <1>3 DEF OneResult
<1> QED
  BY <1>4 DEF ResultKey

\* What a placement that collects was brought, connection by connection.
LEMMA ArrivedByConnection ==
  ASSUME NEW path, NEW name
  PROVE  {d.source : d \in Arrived(path, name)} = UNION {ValuesOn(path, i) : i \in Incoming(WorkflowOf(path), name)}
BY DEF Arrived, ValuesOn, DeliveriesOn

\* The kit takes the first value of each connection of a merge, which is all
\* that it brought.
LEMMA FirstIsAll ==
  ASSUME IInv, NEW path \in DOMAIN runs, NEW name \in Placements(WorkflowOf(path)),
         PlacementOf(path, name).type = "merge", NEW i \in Incoming(WorkflowOf(path), name)
  PROVE  ValuesOn(path, i) # {} => {CHOOSE x \in ValuesOn(path, i) : TRUE} = ValuesOn(path, i)
<1>1. i \in Edges(WorkflowOf(path))
  BY DEF Incoming
<1>2. KindOf(path, Edge(WorkflowOf(path), i).source) = "single"
  BY ShapesAre DEF IInv
<1>3. \A a, b \in ValuesOn(path, i) : a = b
  BY <1>1, <1>2, SinglesDeliverOnce
<1> QED
  BY <1>3

\* The kit finds in a list what the engine put there.
LEMMA MembersAreExact == IInv => MembersExact
<1> SUFFICES ASSUME IInv, NEW r \in DOMAIN results, IsList(r)
             PROVE  Members(r) = results[r].list
  BY DEF MembersExact
<1> PICK path, name, node :
      path = r.run /\ name = r.label.placement /\ node = PlacementOf(path, name)
  OBVIOUS
<1>1. Lists
  BY DEF IInv, Books
<1>2. CASE node.type \in Collecting
  <2>1. OfInputs(r) /\ path \in DOMAIN runs /\ name \in Placements(WorkflowOf(path))
    BY <1>2, ResultsAreOfTheirNode DEF Collecting, OfInputs
  <2>2. results[r].list = {d.source : d \in Arrived(path, name)}
    BY <1>1, <2>1 DEF Lists, AggregatedExactly, OfInputs
  <2>3. results[r].list = UNION {ValuesOn(path, i) : i \in Incoming(WorkflowOf(path), name)}
    BY <2>2, ArrivedByConnection
  <2>4. CASE node.type = "waitStream"
    <3>1. Members(r) = UNION {ValuesOn(path, i) : i \in Incoming(WorkflowOf(path), name)}
      BY <2>4 DEF Members, ValuesOn
    <3> QED
      BY <2>3, <3>1
  <2>5. CASE node.type = "merge"
    <3> DEFINE first(found) == IF found = {} THEN {} ELSE {CHOOSE x \in found : TRUE}
    <3>1. Members(r) = UNION {first(ValuesOn(path, i)) : i \in Incoming(WorkflowOf(path), name)}
      BY <2>5 DEF Members, ValuesOn
    <3>2. ASSUME NEW i \in Incoming(WorkflowOf(path), name)
          PROVE  first(ValuesOn(path, i)) = ValuesOn(path, i)
      BY <2>1, <2>5, FirstIsAll
    <3> HIDE DEF first
    <3>3. {first(ValuesOn(path, i)) : i \in Incoming(WorkflowOf(path), name)} =
            {ValuesOn(path, i) : i \in Incoming(WorkflowOf(path), name)}
      BY <3>2
    <3> QED
      BY <2>3, <3>1, <3>3
  <2> QED
    BY <1>2, <2>4, <2>5 DEF Collecting
<1>3. CASE node.type \notin Collecting
  <2>1. node.type = "concurrency" /\ node.output = "list"
    BY <1>3 DEF IsList, Collecting
  <2>2. OfExecution(r)
    BY <2>1, ResultsAreOfTheirNode DEF Collecting
  <2> PICK k : k = InvocationOf(r)
    OBVIOUS
  <2>3. results[r].list = ListOf(k) /\ Producer(r) = k
    BY <1>1, <2>2 DEF Lists, ListedExactly, OfExecution, Producer, InvocationOf
  <2>4. ConcurrencyOf(k) = node
    BY DEF ConcurrencyOf, InvocationOf, InvocationKey
  <2>5. \A x \in DOMAIN taskResults :
          x.execution = k /\ taskResults[x] = "value" => node.tasks[x.task].included
    BY <2>4 DEF IInv, Books, EntriesOwned, TaskResultOwned, TaskSpec
  <2>6. Members(r) = {TaskOutputResult(t).label : t \in {x \in DOMAIN taskResults :
          x.execution = k /\ node.tasks[x.task].included /\ taskResults[x] = "value"}}
    BY <2>1, <2>3 DEF Members
  <2>7. {x \in DOMAIN taskResults : x.execution = k /\ node.tasks[x.task].included /\ taskResults[x] = "value"}
          = {x \in DOMAIN taskResults : x.execution = k /\ taskResults[x] = "value"}
    BY <2>5
  <2> QED
    BY <2>3, <2>6, <2>7 DEF ListOf
<1> QED
  BY <1>2, <1>3

-----------------------------------------------------------------------------
(* The tree of runs *)

\* The run that owns a called run is known, and its path is the shorter by
\* one frame.
LEMMA ParentIsKnown ==
  ASSUME TypeOK, OwnersExist, NEW p \in DOMAIN runs \ {Root}
  PROVE  /\ RunOwner(p).run \in DOMAIN runs
         /\ Len(p) = Len(RunOwner(p).run) + 1
         /\ OwnerKnown(p)
<1> PICK k, t : k = RunOwner(p) /\ t = RunTask(p)
  OBVIOUS
<1>1. p = Child(k, t) /\ OwnerExists(k, t)
  BY DEF OwnersExist, RunOwned, CallKey
<1>2. k \in DOMAIN invocations /\ k.run \in DOMAIN runs
  BY <1>1, InvocationsAreIn DEF OwnerExists
<1>3. IsSequence(k.run)
  BY <1>2 DEF TypeOK
<1>4. Len(p) = Len(k.run) + 1
  BY <1>1, <1>3 DEF Child, IsSequence
<1>5. OwnerKnown(p)
  BY <1>1, <1>2 DEF OwnerKnown, OwnerExists
<1> QED
  BY <1>2, <1>4, <1>5

\* Only the main run has a path without frames.
LEMMA OnlyRootIsEmpty ==
  ASSUME TypeOK, NEW p \in DOMAIN runs
  PROVE  Len(p) \in Nat /\ (Len(p) = 0 <=> p = Root)
<1>1. p \in Seq({p[n] : n \in DOMAIN p})
  BY DEF TypeOK, IsSequence
<1> QED
  BY <1>1 DEF Root

\* The runs with this many frames in their path.
OfLength(n) == {p \in DOMAIN runs : Len(p) = n}

\* The levels of the tree, as a table: each is the runs whose owner is in a
\* run of the level above.
IsLevels(level) ==
  level = [n \in 0..KitDepth + 1 |->
            IF n = 0 THEN {Root} \cap DOMAIN runs
            ELSE {p \in DOMAIN runs \ {Root} : RunOwner(p).run \in level[n - 1]}]

\* There is such a table: the runs by the lengths of their paths.
LEMMA LengthsAreLevels ==
  ASSUME TypeOK, OwnersExist
  PROVE  IsLevels([n \in 0..KitDepth + 1 |-> OfLength(n)])
<1> DEFINE level == [n \in 0..KitDepth + 1 |-> OfLength(n)]
<1>1. KitDepth \in Nat
  BY KitAssumption
<1>2. ASSUME NEW n \in 0..KitDepth + 1
      PROVE  level[n] = IF n = 0 THEN {Root} \cap DOMAIN runs
                        ELSE {p \in DOMAIN runs \ {Root} : RunOwner(p).run \in level[n - 1]}
  <2>1. level[n] = OfLength(n)
    OBVIOUS
  <2>2. CASE n = 0
    BY <2>1, <2>2, OnlyRootIsEmpty DEF OfLength
  <2>3. CASE n # 0
    <3>1. n - 1 \in 0..KitDepth + 1 /\ level[n - 1] = OfLength(n - 1)
      BY <1>1, <2>3
    <3>2. \A p \in DOMAIN runs \ {Root} : Len(p) = n <=> RunOwner(p).run \in OfLength(n - 1)
      <4> SUFFICES ASSUME NEW p \in DOMAIN runs \ {Root}
                   PROVE  Len(p) = n <=> RunOwner(p).run \in OfLength(n - 1)
        OBVIOUS
      <4>1. RunOwner(p).run \in DOMAIN runs /\ Len(p) = Len(RunOwner(p).run) + 1
        BY ParentIsKnown
      <4>2. Len(p) \in Nat /\ Len(RunOwner(p).run) \in Nat
        BY <4>1, OnlyRootIsEmpty
      <4> QED
        BY <1>1, <4>1, <4>2 DEF OfLength
    <3>3. \A p \in OfLength(n) : p \in DOMAIN runs \ {Root} /\ Len(p) = n
      BY <2>3, OnlyRootIsEmpty DEF OfLength
    <3>4. \A p \in DOMAIN runs \ {Root} : Len(p) = n => p \in OfLength(n)
      BY DEF OfLength
    <3> HIDE DEF level
    <3> QED
      BY <2>1, <2>3, <3>1, <3>2, <3>3, <3>4
  <2> QED
    BY <2>2, <2>3
<1> HIDE DEF level
<1>3. level = [n \in 0..KitDepth + 1 |-> level[n]]
  BY DEF level
<1> QED
  BY <1>2, <1>3 DEF IsLevels, level

\* And no other: two such tables agree on every level, or there would be a
\* first one that they do not agree on.
LEMMA LevelsAreUnique ==
  ASSUME NEW one, IsLevels(one), NEW other, IsLevels(other)
  PROVE  one = other
<1> DEFINE Bad == {n \in 0..KitDepth + 1 : one[n] # other[n]}
<1>1. KitDepth \in Nat
  BY KitAssumption
<1>2. /\ one = [n \in 0..KitDepth + 1 |-> one[n]]
      /\ \A n \in 0..KitDepth + 1 :
           one[n] = IF n = 0 THEN {Root} \cap DOMAIN runs
                    ELSE {p \in DOMAIN runs \ {Root} : RunOwner(p).run \in one[n - 1]}
  BY DEF IsLevels
<1>3. /\ other = [n \in 0..KitDepth + 1 |-> other[n]]
      /\ \A n \in 0..KitDepth + 1 :
           other[n] = IF n = 0 THEN {Root} \cap DOMAIN runs
                      ELSE {p \in DOMAIN runs \ {Root} : RunOwner(p).run \in other[n - 1]}
  BY DEF IsLevels
<1>4. ASSUME Bad # {}
      PROVE  FALSE
  <2>1. Bad \subseteq Nat
    BY <1>1
  <2>2. PICK n \in Bad : \A m \in Bad : n <= m
    BY <1>4, <2>1, LeastNatural
  <2>3. n \in 0..KitDepth + 1 /\ one[n] # other[n]
    OBVIOUS
  <2>4. n # 0
    BY <1>2, <1>3, <2>3
  <2>5. n - 1 \in 0..KitDepth + 1 /\ n - 1 \notin Bad
    BY <1>1, <2>2, <2>3, <2>4
  <2>6. one[n - 1] = other[n - 1]
    BY <2>5
  <2> DEFINE Below(S) == {p \in DOMAIN runs \ {Root} : RunOwner(p).run \in S}
  <2>7. one[n] = Below(one[n - 1])
    BY <1>2, <2>3, <2>4
  <2>8. other[n] = Below(other[n - 1])
    BY <1>3, <2>3, <2>4
  <2> HIDE DEF Below, Bad
  <2> QED
    BY <2>3, <2>6, <2>7, <2>8
<1>5. \A n \in 0..KitDepth + 1 : one[n] = other[n]
  BY <1>4
<1> HIDE DEF Bad
<1> QED
  BY <1>2, <1>3, <1>5

\* The depth of a run in the tree is the number of frames in its path.
LEMMA LevelsAreLengths ==
  ASSUME TypeOK, OwnersExist
  PROVE  Levels = [n \in 0..KitDepth + 1 |-> OfLength(n)]
<1>1. Levels = CHOOSE level : IsLevels(level)
  BY DEF Levels, IsLevels
<1>2. IsLevels(Levels)
  BY <1>1, LengthsAreLevels
<1> QED
  BY <1>2, LengthsAreLevels, LevelsAreUnique

\* Within its budgets the kit reads the tree of runs of every state.
LEMMA TreesAreRead ==
  ASSUME TypeOK, OwnersExist, WithinBudgets
  PROVE  TreeReads
<1>1. KitDepth \in Nat
  BY KitAssumption
<1>2. Levels = [n \in 0..KitDepth + 1 |-> OfLength(n)]
  BY LevelsAreLengths
<1>3. \A p \in DOMAIN runs : Len(p) \in 0..KitDepth
  BY <1>1, OnlyRootIsEmpty DEF WithinBudgets
<1>4. Levels[KitDepth + 1] = {}
  BY <1>1, <1>2, <1>3 DEF OfLength
<1>5. UNION {Levels[n] : n \in 0..KitDepth} = DOMAIN runs
  <2>1. \A n \in 0..KitDepth : Levels[n] = OfLength(n)
    BY <1>1, <1>2
  <2>2. \A p \in DOMAIN runs : p \in Levels[Len(p)]
    BY <1>3, <2>1 DEF OfLength
  <2>3. \A n \in 0..KitDepth : Levels[n] \subseteq DOMAIN runs
    BY <2>1 DEF OfLength
  <2> QED
    BY <1>3, <2>2, <2>3
<1>6. /\ \A k \in DOMAIN invocations : k.run \in DOMAIN runs
      /\ \A e \in DOMAIN executions : e \in DOMAIN invocations
  BY DEF OwnersExist, InvocationOwned, ExecutionOwned
<1>7. \A path \in DOMAIN runs \ {Root} : OwnerKnown(path)
  BY ParentIsKnown
<1> QED
  BY <1>4, <1>5, <1>6, <1>7 DEF TreeReads, WithinBudgets

\* What the kit is given of an execution it can show: every result leads back
\* to what produced it, every list to its members and, unless the state is too
\* large for the kit, every run to its place in the tree.
THEOREM StatesAreReadable == Spec => [](ResultsTraced /\ MembersExact /\ (WithinBudgets => StatesReadable))
<1>1. IInv => ResultsTraced /\ MembersExact
  BY ResultsAreTraced, MembersAreExact
<1>2. IInv /\ WithinBudgets => StatesReadable
  BY <1>1, TreesAreRead DEF IInv, StatesReadable
<1> QED
  BY <1>1, <1>2, BooksHold, PTL

-----------------------------------------------------------------------------
(* What an operation is about *)

\* What a step adds to each table, and the calls it ends, are at one placement
\* of one run and, where tasks matter, of one task.
FailuresTouch(run, placement, task) ==
  \A n \in DOMAIN failures' \ DOMAIN failures :
    failures'[n].run = run /\ failures'[n].placement = placement /\ failures'[n].task = task
ResultsTouch(run, placement) ==
  \A r \in DOMAIN results' \ DOMAIN results : r.run = run /\ r.label.placement = placement
TaskResultsTouch(run, placement, task) ==
  \A r \in DOMAIN taskResults' \ DOMAIN taskResults :
    r.execution.run = run /\ r.execution.placement = placement /\ r.task = task
InvocationsTouch(run, placement) ==
  \A k \in DOMAIN invocations' \ DOMAIN invocations : k.run = run /\ k.placement = placement
NewCallsTouch(run, placement) ==
  \A c \in DOMAIN calls' \ DOMAIN calls : c.owner.run = run /\ c.owner.placement = placement
CallsTouch(run, placement, task) ==
  \A c \in DOMAIN calls :
    calls'[c].status # calls[c].status /\ calls'[c].status # "cancelling" =>
      c.owner.run = run /\ c.owner.placement = placement /\ c.task = task
Touches(run, placement, task) ==
  /\ FailuresTouch(run, placement, task)
  /\ ResultsTouch(run, placement)
  /\ TaskResultsTouch(run, placement, task)
  /\ InvocationsTouch(run, placement)
  /\ NewCallsTouch(run, placement)
  /\ CallsTouch(run, placement, task)

\* A step that leaves a table alone touches nothing in it.
LEMMA SameTouches ==
  ASSUME NEW run, NEW placement, NEW task
  PROVE  /\ failures' = failures => FailuresTouch(run, placement, task)
         /\ results' = results => ResultsTouch(run, placement)
         /\ taskResults' = taskResults => TaskResultsTouch(run, placement, task)
         /\ DOMAIN invocations' = DOMAIN invocations => InvocationsTouch(run, placement)
         /\ DOMAIN calls' = DOMAIN calls => NewCallsTouch(run, placement)
         /\ (\A c \in DOMAIN calls : calls'[c].status = calls[c].status \/ calls'[c].status = "cancelling") =>
              CallsTouch(run, placement, task)
BY DEF FailuresTouch, ResultsTouch, TaskResultsTouch, InvocationsTouch, NewCallsTouch, CallsTouch

\* Putting one entry into a table touches what that entry is at.
LEMMA PutTouches ==
  ASSUME NEW run, NEW placement, NEW task, NEW key, NEW value
  PROVE  /\ results' = Put(results, key, value) /\ key.run = run /\ key.label.placement = placement =>
              ResultsTouch(run, placement)
         /\ /\ taskResults' = Put(taskResults, key, value)
            /\ key.execution.run = run /\ key.execution.placement = placement /\ key.task = task
            => TaskResultsTouch(run, placement, task)
         /\ invocations' = Put(invocations, key, value) /\ key.run = run /\ key.placement = placement =>
              InvocationsTouch(run, placement)
         /\ /\ key \notin DOMAIN calls
            /\ calls' = Put(calls, key, value) /\ key.owner.run = run /\ key.owner.placement = placement
            => NewCallsTouch(run, placement) /\ CallsTouch(run, placement, task)
BY DEF Put, ResultsTouch, TaskResultsTouch, InvocationsTouch, NewCallsTouch, CallsTouch

\* Recording a failure touches where it is recorded: of the calls, it does no
\* more than tell them to stop.
LEMMA FailTouches ==
  ASSUME TypeOK, NEW owner, NEW task, NEW cause, NEW policy,
         NEW callTable, CallsOK(callTable), DOMAIN callTable = DOMAIN calls, NEW executionTable,
         Fail(FailureAt(owner, task, cause), policy, callTable, executionTable)
  PROVE  /\ FailuresTouch(owner.run, owner.placement, task)
         /\ DOMAIN calls' = DOMAIN calls
         /\ \A c \in DOMAIN calls : calls'[c].status = callTable[c].status \/ calls'[c].status = "cancelling"
<1> PICK failure : failure = FailureAt(owner, task, cause)
  OBVIOUS
<1>1. failures' = Append(failures, failure) /\ (calls' = callTable \/ calls' = CancelLive(callTable))
  BY DEF Fail, Stop
<1>2. /\ DOMAIN failures' = 1..(Len(failures) + 1) /\ DOMAIN failures = 1..Len(failures)
      /\ Len(failures) \in Nat
      /\ failures'[Len(failures) + 1] = failure
  BY <1>1, AppendIsSequence DEF TypeOK
<1>3. \A n \in DOMAIN failures' \ DOMAIN failures : failures'[n] = failure
  BY <1>2
<1>4. failure.run = owner.run /\ failure.placement = owner.placement /\ failure.task = task
  BY DEF FailureAt
<1>5. FailuresTouch(owner.run, owner.placement, task)
  BY <1>3, <1>4 DEF FailuresTouch
<1> QED
  BY <1>1, <1>5, CancelLiveOK

\* A new status of a call, or none, touches that call.
LEMMA SetCallTouches ==
  ASSUME CallsOK(calls), NEW call, NEW s, calls' = SetCall(call, s)
  PROVE  /\ DOMAIN calls' = DOMAIN calls
         /\ CallsTouch(call.owner.run, call.owner.placement, call.task)
<1>1. DOMAIN calls' = DOMAIN calls /\ \A c \in DOMAIN calls \ {call} : calls'[c] = calls[c]
  BY DEF SetCall
<1> QED
  BY <1>1 DEF CallsTouch

\* The owner of a call is there before and after it ends.
LEMMA SettleOwnerTouches ==
  ASSUME NEW call, NEW s, NEW run, NEW placement, SettleOwner(call, s)
  PROVE  InvocationsTouch(run, placement)
BY SameTouches DEF SettleOwner, OwnerInvocations, SetInvocation

\* A value of a call is at the placement, and the task, of the call.
LEMMA AcceptTouches ==
  ASSUME NEW call, NEW index, NEW arm, Accept(call, index, arm)
  PROVE  /\ ResultsTouch(call.owner.run, call.owner.placement)
         /\ TaskResultsTouch(call.owner.run, call.owner.placement, call.task)
<1>1. CASE call.task = None
  <2>1. CallResult(call, index).run = call.owner.run /\ CallResult(call, index).label.placement = call.owner.placement
    BY DEF CallResult, ResultKey, Label
  <2> QED
    BY <1>1, <2>1, PutTouches, SameTouches DEF Accept
<1>2. CASE call.task # None
  <2>1. /\ TaskResultKey(call.owner, call.task, index).execution = call.owner
        /\ TaskResultKey(call.owner, call.task, index).task = call.task
    BY DEF TaskResultKey
  <2> QED
    BY <1>2, <2>1, PutTouches, SameTouches DEF Accept
<1> QED
  BY <1>1, <1>2

\* A call that fails touches itself.
LEMMA FailCallTouches ==
  ASSUME TypeOK, NEW call, NEW s \in CallStatuses, NEW cause, FailCall(call, s, cause)
  PROVE  Touches(call.owner.run, call.owner.placement, call.task)
<1> DEFINE run == call.owner.run
           placement == call.owner.placement
<1>1. /\ Fail(FailureAt(call.owner, call.task, cause), SpecOf(call).policy,
              SetCall(call, s), OwnerExecutions(call, "failed"))
      /\ invocations' = OwnerInvocations(call, "failed")
      /\ results' = results /\ taskResults' = taskResults
  BY DEF FailCall
<1>2. CallsOK(SetCall(call, s)) /\ DOMAIN SetCall(call, s) = DOMAIN calls
      /\ \A c \in DOMAIN calls \ {call} : SetCall(call, s)[c] = calls[c]
  BY SetCallOK DEF TypeOK, SetCall
<1>3. /\ FailuresTouch(run, placement, call.task)
      /\ DOMAIN calls' = DOMAIN calls
      /\ \A c \in DOMAIN calls : calls'[c].status = SetCall(call, s)[c].status \/ calls'[c].status = "cancelling"
  BY <1>1, <1>2, FailTouches
<1>4. CallsTouch(run, placement, call.task)
  BY <1>2, <1>3 DEF CallsTouch
<1>5. DOMAIN invocations' = DOMAIN invocations
  BY <1>1 DEF OwnerInvocations, SetInvocation
<1> QED
  BY <1>1, <1>3, <1>4, <1>5, SameTouches DEF Touches

\* A call that is over after it was told to stop touches itself.
LEMMA CallCancelledTouches ==
  ASSUME TypeOK, NEW call, CallCancelled(call)
  PROVE  Touches(call.owner.run, call.owner.placement, call.task)
<1>1. calls' = SetCall(call, "cancelled") /\ failures' = failures /\ results' = results /\ taskResults' = taskResults
  BY DEF CallCancelled
<1>2. InvocationsTouch(call.owner.run, call.owner.placement)
  BY SettleOwnerTouches, SameTouches DEF CallCancelled
<1> QED
  BY <1>1, <1>2, SetCallTouches, SameTouches DEF Touches, TypeOK

\* What a callback reports of its call, and what happens to it, touches it.
LEMMA CallsTouchThemselves ==
  ASSUME TypeOK, NEW c \in DOMAIN calls,
         \/ Fetch(c) \/ CallReturned(c) \/ Yielded(c) \/ Ended(c) \/ Terminated(c)
         \/ CallFailed(c) \/ CallTimedOut(c) \/ ElementTimedOut(c) \/ Lost(c)
         \/ \E arm \in Arms(c) : Judged(c, arm)
  PROVE  Touches(c.owner.run, c.owner.placement, c.task)
<1> DEFINE run == c.owner.run
           placement == c.owner.placement
<1>1. CallsOK(calls)
  BY DEF TypeOK
<1>2. CASE Fetch(c)
  BY <1>1, <1>2, SetCallTouches, SameTouches DEF Fetch, Touches
<1>3. CASE CallReturned(c)
  BY <1>1, <1>3, SetCallTouches, SameTouches, SettleOwnerTouches, AcceptTouches DEF CallReturned, Touches
<1>4. CASE Yielded(c)
  <2>1. /\ DOMAIN calls' = DOMAIN calls
        /\ \A d \in DOMAIN calls \ {c} : calls'[d] = calls[d]
    BY <1>4 DEF Yielded
  <2>2. CallsTouch(run, placement, c.task)
    BY <2>1 DEF CallsTouch
  <2>3. ResultsTouch(run, placement) /\ TaskResultsTouch(run, placement, c.task)
    BY <1>4, AcceptTouches DEF Yielded
  <2>4. failures' = failures /\ invocations' = invocations
    BY <1>4 DEF Yielded
  <2> QED
    BY <2>1, <2>2, <2>3, <2>4, SameTouches DEF Touches
<1>5. CASE Ended(c)
  BY <1>1, <1>5, SetCallTouches, SameTouches, SettleOwnerTouches DEF Ended, Touches
<1>6. CASE Terminated(c)
  BY <1>6, CallCancelledTouches DEF Terminated
<1>7. CASE CallFailed(c) \/ CallTimedOut(c) \/ ElementTimedOut(c) \/ Lost(c)
  BY <1>7, FailCallTouches, CallCancelledTouches DEF CallFailed, CallTimedOut, ElementTimedOut, Lost, CallStatuses
<1>8. ASSUME NEW arm \in Arms(c), Judged(c, arm)
      PROVE  Touches(run, placement, c.task)
  <2>1. DOMAIN invocations' = DOMAIN invocations /\ failures' = failures /\ calls' = SetCall(c, "returned")
    BY <1>8 DEF Judged
  <2>2. ResultsTouch(run, placement) /\ TaskResultsTouch(run, placement, c.task)
    BY <1>8, AcceptTouches DEF Judged
  <2> QED
    BY <1>1, <2>1, <2>2, SetCallTouches, SameTouches DEF Touches
<1> QED
  BY <1>2, <1>3, <1>4, <1>5, <1>6, <1>7, <1>8

\* Invoking and settling a placement touch it.
LEMMA PlacementsTouchThemselves ==
  ASSUME NEW path, NEW name, NEW trigger, Invoke(path, name, trigger) \/ Settle(path, name)
  PROVE  Touches(path, name, None)
<1>1. CASE Invoke(path, name, trigger)
  <2> PICK key : key = InvocationKey(path, name, trigger)
    OBVIOUS
  <2>1. key.run = path /\ key.placement = name /\ CallKey(key, None).owner = key
    BY DEF InvocationKey, CallKey
  <2>2. /\ invocations' = Put(invocations, key, [status |-> "active", arm |-> None])
        /\ results' = results /\ taskResults' = taskResults /\ failures' = failures
        /\ \/ calls' = calls
           \/ CallKey(key, None) \notin DOMAIN calls /\ calls' = Put(calls, CallKey(key, None), NewCall)
    BY <1>1 DEF Invoke
  <2>3. InvocationsTouch(path, name)
    BY <2>1, <2>2, PutTouches
  <2>4. NewCallsTouch(path, name) /\ CallsTouch(path, name, None)
    BY <2>1, <2>2, PutTouches, SameTouches
  <2> QED
    BY <2>2, <2>3, <2>4, SameTouches DEF Touches
<1>2. CASE Settle(path, name)
  <2>1. /\ calls' = calls /\ invocations' = invocations /\ taskResults' = taskResults /\ failures' = failures
        /\ \/ results' = results
           \/ \E list : results' = Put(results, AggregateResult(path, name), [arm |-> None, list |-> list])
    BY <1>2 DEF Settle, AddResult
  <2>2. AggregateResult(path, name).run = path /\ AggregateResult(path, name).label.placement = name
    BY DEF AggregateResult, ResultKey, Label, InvocationKey
  <2>3. ResultsTouch(path, name)
    BY <2>1, <2>2, PutTouches, SameTouches
  <2> QED
    BY <2>1, <2>3, SameTouches DEF Touches
<1> QED
  BY <1>1, <1>2

\* A transform that fails is recorded at the target of its connection.
LEMMA DeliveriesTouchTargets ==
  ASSUME TypeOK, NEW path, NEW i, NEW source, Deliver(path, i, source) \/ TransformFailed(path, i, source)
  PROVE  Touches(path, Edge(WorkflowOf(path), i).target, None)
<1> PICK name : name = Edge(WorkflowOf(path), i).target
  OBVIOUS
<1>1. CASE Deliver(path, i, source)
  BY <1>1, SameTouches DEF Deliver, Touches
<1>2. CASE TransformFailed(path, i, source)
  <2> PICK owner, policy : owner = SettledKey(path, name) /\ policy = PlacementOf(path, name).policy
    OBVIOUS
  <2>1. /\ Fail(FailureAt(owner, None, "transform"), policy, calls, executions)
        /\ invocations' = invocations /\ results' = results /\ taskResults' = taskResults
    BY <1>2 DEF TransformFailed
  <2>2. owner.run = path /\ owner.placement = name
    BY DEF SettledKey
  <2>3. /\ FailuresTouch(path, name, None) /\ DOMAIN calls' = DOMAIN calls
        /\ \A c \in DOMAIN calls : calls'[c].status = calls[c].status \/ calls'[c].status = "cancelling"
    BY <2>1, <2>2, FailTouches DEF TypeOK
  <2> QED
    BY <2>1, <2>3, SameTouches DEF Touches
<1> QED
  BY <1>1, <1>2

\* What is done to a task, its inputs and its results touches it.
LEMMA TasksTouchThemselves ==
  ASSUME TypeOK, NEW e, NEW t, NEW n,
         \/ TaskInput(e, t) \/ TaskInputFailed(e, t) \/ BeginTask(e, t)
         \/ TaskOutput(TaskResultKey(e, t, n)) \/ TaskOutputFailed(TaskResultKey(e, t, n))
  PROVE  Touches(e.run, e.placement, t)
<1> PICK r : r = TaskResultKey(e, t, n)
  OBVIOUS
<1>1. r.execution = e /\ r.task = t
  BY DEF TaskResultKey
<1>2. CASE TaskInput(e, t)
  BY <1>2, SameTouches DEF TaskInput, Touches
<1>3. CASE TaskInputFailed(e, t)
  <2> PICK policy, table : policy = TaskSpec(e, t).policy /\ table = SetTask(e, t, "failed")
    OBVIOUS
  <2>1. /\ Fail(FailureAt(e, t, "transform"), policy, calls, table)
        /\ invocations' = invocations /\ results' = results /\ taskResults' = taskResults
    BY <1>3 DEF TaskInputFailed
  <2>2. /\ FailuresTouch(e.run, e.placement, t) /\ DOMAIN calls' = DOMAIN calls
        /\ \A c \in DOMAIN calls : calls'[c].status = calls[c].status \/ calls'[c].status = "cancelling"
    BY <2>1, FailTouches DEF TypeOK
  <2> QED
    BY <2>1, <2>2, SameTouches DEF Touches
<1>4. CASE BeginTask(e, t)
  <2>1. /\ invocations' = invocations /\ results' = results /\ taskResults' = taskResults /\ failures' = failures
        /\ \/ calls' = calls
           \/ CallKey(e, t) \notin DOMAIN calls /\ calls' = Put(calls, CallKey(e, t), NewCall)
    BY <1>4 DEF BeginTask
  <2>2. CallKey(e, t).owner = e
    BY DEF CallKey
  <2>3. NewCallsTouch(e.run, e.placement) /\ CallsTouch(e.run, e.placement, t)
    BY <2>1, <2>2, PutTouches, SameTouches
  <2> QED
    BY <2>1, <2>3, SameTouches DEF Touches
<1>5. CASE TaskOutput(r)
  <2>1. /\ calls' = calls /\ invocations' = invocations /\ failures' = failures
        /\ DOMAIN taskResults' = DOMAIN taskResults
        /\ \/ results' = results
           \/ results' = Put(results, TaskOutputResult(r), [arm |-> None, list |-> {}])
    BY <1>5 DEF TaskOutput, AddResult
  <2>2. TaskOutputResult(r).run = e.run /\ TaskOutputResult(r).label.placement = e.placement
    BY <1>1 DEF TaskOutputResult, ResultKey, Label
  <2>3. ResultsTouch(e.run, e.placement)
    BY <2>1, <2>2, PutTouches, SameTouches
  <2>4. TaskResultsTouch(e.run, e.placement, t)
    BY <2>1 DEF TaskResultsTouch
  <2> QED
    BY <2>1, <2>3, <2>4, SameTouches DEF Touches
<1>6. CASE TaskOutputFailed(r)
  <2> PICK policy : policy = TaskSpec(e, t).policy
    OBVIOUS
  <2>1. /\ Fail(FailureAt(e, t, "transform"), policy, calls, executions)
        /\ invocations' = invocations /\ results' = results /\ DOMAIN taskResults' = DOMAIN taskResults
    BY <1>1, <1>6 DEF TaskOutputFailed
  <2>2. /\ FailuresTouch(e.run, e.placement, t) /\ DOMAIN calls' = DOMAIN calls
        /\ \A c \in DOMAIN calls : calls'[c].status = calls[c].status \/ calls'[c].status = "cancelling"
    BY <2>1, FailTouches DEF TypeOK
  <2>3. TaskResultsTouch(e.run, e.placement, t)
    BY <2>1 DEF TaskResultsTouch
  <2> QED
    BY <2>1, <2>2, <2>3, SameTouches DEF Touches
<1> QED
  BY <1>2, <1>3, <1>4, <1>5, <1>6

\* The end of an execution, or of a called workflow, touches what called it.
LEMMA ClosingTouchesOwners ==
  ASSUME NEW e, NEW path
  PROVE  /\ CloseExecution(e) => Touches(e.run, e.placement, None)
         /\ CloseRun(path) => Touches(RunOwner(path).run, RunOwner(path).placement, RunTask(path))
<1>1. ASSUME CloseExecution(e)
      PROVE  Touches(e.run, e.placement, None)
  <2>1. /\ calls' = calls /\ taskResults' = taskResults /\ failures' = failures
        /\ DOMAIN invocations' = DOMAIN invocations
        /\ \/ results' = results
           \/ \E list : results' = Put(results, ListResult(e), [arm |-> None, list |-> list])
    BY <1>1 DEF CloseExecution, AddResult, SetInvocation
  <2>2. ListResult(e).run = e.run /\ ListResult(e).label.placement = e.placement
    BY DEF ListResult, ResultKey, Label
  <2>3. ResultsTouch(e.run, e.placement)
    BY <2>1, <2>2, PutTouches, SameTouches
  <2> QED
    BY <2>1, <2>3, SameTouches DEF Touches
<1>2. ASSUME CloseRun(path)
      PROVE  Touches(RunOwner(path).run, RunOwner(path).placement, RunTask(path))
  <2> PICK k, t : k = RunOwner(path) /\ t = RunTask(path)
    OBVIOUS
  <2>1. /\ calls' = calls /\ failures' = failures /\ DOMAIN invocations' = DOMAIN invocations
        /\ \/ results' = results
           \/ results' = Put(results, Returned(k), [arm |-> None, list |-> {}])
        /\ \/ taskResults' = taskResults
           \/ taskResults' = Put(taskResults, TaskResultKey(k, t, 0), "pending")
    BY <1>2 DEF CloseRun, AddResult, SetInvocation
  <2>2. Returned(k).run = k.run /\ Returned(k).label.placement = k.placement
    BY DEF Returned, ResultKey, Label
  <2>3. TaskResultKey(k, t, 0).execution = k /\ TaskResultKey(k, t, 0).task = t
    BY DEF TaskResultKey
  <2>4. ResultsTouch(k.run, k.placement) /\ TaskResultsTouch(k.run, k.placement, t)
    BY <2>1, <2>2, <2>3, PutTouches, SameTouches
  <2> QED
    BY <2>1, <2>4, SameTouches DEF Touches
<1> QED
  BY <1>1, <1>2

\* Starting, cancelling and concluding an execution touch nothing.
LEMMA ExecutionsTouchNothing ==
  ASSUME TypeOK, Start \/ Cancel \/ ConcludeRunning \/ ConcludeStopping, NEW run, NEW placement, NEW task
  PROVE  Touches(run, placement, task)
<1>1. /\ failures' = failures /\ results' = results /\ taskResults' = taskResults
      /\ DOMAIN invocations' = DOMAIN invocations
      /\ calls' = calls \/ calls' = CancelLive(calls)
  BY DEF Start, Cancel, Stop, ConcludeRunning, ConcludeStopping
<1>2. /\ DOMAIN calls' = DOMAIN calls
      /\ \A c \in DOMAIN calls : calls'[c].status = calls[c].status \/ calls'[c].status = "cancelling"
  BY <1>1, CancelLiveOK DEF TypeOK
<1> QED
  BY <1>1, <1>2, SameTouches DEF Touches

\* The operations that the records can hold, by the table they are about.
LEMMA OpsAre ==
  ASSUME NEW op \in Ops
  PROVE  \/ /\ op.type \in {"fetch", "ended", "failed", "lost", "terminated", "returned", "yielded", "timedOut", "judged"}
            /\ op.call \in DOMAIN calls
            /\ op.type = "judged" => op.arm \in Arms(op.call)
         \/ /\ op.type \in {"taskInput", "taskInputFailed", "beginTask"}
            /\ op.execution \in DOMAIN executions
         \/ /\ op.type \in {"taskOutput", "taskOutputFailed"}
            /\ \E r \in DOMAIN taskResults : op.execution = r.execution /\ op.task = r.task /\ op.index = r.index
         \/ /\ op.type \in {"invoke", "settle"}
         \/ /\ op.type = "closeRun" /\ op.run \in DOMAIN runs \ {Root}
         \/ /\ op.type \in {"deliver", "transformFailed"}
            /\ \E r \in DOMAIN results : op.run = r.run
         \/ op.type = "closeExecution" /\ op.execution \in DOMAIN executions
         \/ op.type \in {"start", "cancel", "conclude"}
<1>1. CASE op \in CallOps
  BY <1>1 DEF CallOps
<1>2. CASE op \in TaskOps
  <2> DEFINE of(e) == [type : {"taskInput", "taskInputFailed", "beginTask"}, execution : {e},
                       task : DOMAIN executions[e].tasks]
             inputs == UNION {of(e) : e \in DOMAIN executions}
             outputs == {[type |-> t, execution |-> r.execution, task |-> r.task, index |-> r.index] :
                           t \in {"taskOutput", "taskOutputFailed"}, r \in DOMAIN taskResults}
  <2>1. TaskOps = inputs \cup outputs
    BY DEF TaskOps
  <2>2. CASE op \in inputs
    <3>1. PICK e \in DOMAIN executions : op \in of(e)
      BY <2>2
    <3> QED
      BY <3>1
  <2>3. CASE op \in outputs
    BY <2>3
  <2> HIDE DEF inputs, outputs
  <2> QED
    BY <1>2, <2>1, <2>2, <2>3
<1>3. CASE op \in RunOps
  <2> DEFINE invoke(p, n) == [type : {"invoke"}, run : {p}, placement : {n}, trigger : Triggers(p, n)]
             at(p, n) == invoke(p, n) \cup {[type |-> "settle", run |-> p, placement |-> n]}
             in(p) == UNION {at(p, n) : n \in Placements(WorkflowOf(p))}
             of(r) == [type : {"deliver", "transformFailed"}, run : {r.run}, connection : Edges(WorkflowOf(r.run)),
                       source : {r.label}]
             placements == UNION {in(p) : p \in DOMAIN runs}
             closings == {[type |-> "closeRun", run |-> p] : p \in DOMAIN runs \ {Root}}
             deliverable == UNION {of(r) : r \in DOMAIN results}
  <2>1. RunOps = placements \cup closings \cup deliverable
    BY DEF RunOps
  <2>2. CASE op \in placements
    <3>1. PICK p \in DOMAIN runs : op \in in(p)
      BY <2>2
    <3>2. PICK n \in Placements(WorkflowOf(p)) : op \in at(p, n)
      BY <3>1
    <3> QED
      BY <3>2
  <2>3. CASE op \in closings
    BY <2>3
  <2>4. CASE op \in deliverable
    <3>1. PICK r \in DOMAIN results : op \in of(r)
      BY <2>4
    <3> QED
      BY <3>1
  <2> HIDE DEF placements, closings, deliverable
  <2> QED
    BY <1>3, <2>1, <2>2, <2>3, <2>4
<1>4. CASE op \in {[type |-> "closeExecution", execution |-> e] : e \in DOMAIN executions}
  BY <1>4
<1>5. CASE op \in {[type |-> t] : t \in {"start", "cancel", "conclude"}}
  BY <1>5
<1> QED
  BY <1>1, <1>2, <1>3, <1>4, <1>5 DEF Ops

\* The calls that a step finds are there after it.
LEMMA CallsStay ==
  ASSUME Kept
  PROVE  DOMAIN calls \subseteq DOMAIN calls'
BY DEF Kept

\* The owner of a called workflow is known in every state.
OwnersKnown == \A p \in DOMAIN runs \ {Root} : OwnerKnown(p)

\* It is in every state with the types and owners of the machine.
LEMMA OwnersAreKnown == TypeOK /\ OwnersExist => OwnersKnown
BY ParentIsKnown DEF OwnersKnown

\* What an operation did, read off the state after it, is what it is related
\* to, and that is all it touched.
LEMMA OperationsTouchRelated ==
  ASSUME IInv, IInv', Grows, DOMAIN calls \subseteq DOMAIN calls', NEW op \in Ops, Does(op)
  PROVE  \E run, placement, task : Relation(op)' = About(run, placement, task) /\ Touches(run, placement, task)
<1>1. TypeOK /\ OwnersExist /\ EntriesOwned
  BY DEF IInv, Books
<1>2. CASE /\ op.type \in {"fetch", "ended", "failed", "lost", "terminated", "returned", "yielded", "timedOut", "judged"}
           /\ op.call \in DOMAIN calls
           /\ op.type = "judged" => op.arm \in Arms(op.call)
  <2> PICK c : c = op.call
    OBVIOUS
  <2>1. \/ Fetch(c) \/ CallReturned(c) \/ Yielded(c) \/ Ended(c) \/ Terminated(c)
        \/ CallFailed(c) \/ CallTimedOut(c) \/ ElementTimedOut(c) \/ Lost(c)
        \/ \E arm \in Arms(c) : Judged(c, arm)
    BY <1>2 DEF Does
  <2>2. Touches(c.owner.run, c.owner.placement, c.task)
    BY <1>1, <1>2, <2>1, CallsTouchThemselves
  <2>3. Relation(op)' = About(c.owner.run, c.owner.placement, c.task)
    BY <1>2 DEF Relation, OwnerRelation
  <2> QED
    BY <2>2, <2>3
<1>3. CASE op.type \in {"taskInput", "taskInputFailed", "beginTask"} /\ op.execution \in DOMAIN executions
  <2> PICK e, t : e = op.execution /\ t = op.task
    OBVIOUS
  <2>1. TaskInput(e, t) \/ TaskInputFailed(e, t) \/ BeginTask(e, t)
    BY <1>3 DEF Does
  <2>2. Touches(e.run, e.placement, t)
    BY <1>1, <2>1, TasksTouchThemselves
  <2>3. Relation(op)' = About(e.run, e.placement, t)
    BY <1>3 DEF Relation, OwnerRelation, Grows
  <2> QED
    BY <2>2, <2>3
<1>4. CASE /\ op.type \in {"taskOutput", "taskOutputFailed"}
           /\ \E r \in DOMAIN taskResults : op.execution = r.execution /\ op.task = r.task /\ op.index = r.index
  <2> PICK e, t, n : e = op.execution /\ t = op.task /\ n = op.index
    OBVIOUS
  <2>1. TaskOutput(TaskResultKey(e, t, n)) \/ TaskOutputFailed(TaskResultKey(e, t, n))
    BY <1>4 DEF Does
  <2>2. Touches(e.run, e.placement, t)
    BY <1>1, <2>1, TasksTouchThemselves
  <2>3. e \in DOMAIN executions
    BY <1>1, <1>4 DEF EntriesOwned, TaskResultOwned
  <2>4. Relation(op)' = About(e.run, e.placement, t)
    BY <1>4, <2>3 DEF Relation, OwnerRelation, Grows
  <2> QED
    BY <2>2, <2>4
<1>5. CASE op.type \in {"invoke", "settle"}
  <2>1. Invoke(op.run, op.placement, op.trigger) \/ Settle(op.run, op.placement)
    BY <1>5 DEF Does
  <2>2. Touches(op.run, op.placement, None)
    BY <2>1, PlacementsTouchThemselves
  <2>3. Relation(op)' = About(op.run, op.placement, None)
    BY <1>5 DEF Relation
  <2> QED
    BY <2>2, <2>3
<1>6. CASE op.type = "closeRun" /\ op.run \in DOMAIN runs \ {Root}
  <2> PICK p, k, t : p = op.run /\ k = RunOwner(p) /\ t = RunTask(p)
    OBVIOUS
  <2>1. CloseRun(p)
    BY <1>6 DEF Does
  <2>2. Touches(k.run, k.placement, t)
    BY <2>1, ClosingTouchesOwners
  <2>3. OwnerKnown(p)'
    <3>1. (TypeOK /\ OwnersExist)' => OwnersKnown'
      BY OwnersAreKnown, PTL
    <3>2. p \in DOMAIN runs' \ {Root}
      BY <1>6 DEF Grows
    <3> QED
      BY <3>1, <3>2 DEF IInv, OwnersKnown
  <2>4. Relation(op)' = About(k.run, k.placement, t)
    BY <1>6, <2>3 DEF Relation, OwnerRelation
  <2> QED
    BY <2>2, <2>4
<1>7. CASE op.type \in {"deliver", "transformFailed"} /\ \E r \in DOMAIN results : op.run = r.run
  <2> PICK path, i, name : path = op.run /\ i = op.connection /\ name = Edge(WorkflowOf(path), i).target
    OBVIOUS
  <2>1. Deliver(path, i, op.source) \/ TransformFailed(path, i, op.source)
    BY <1>7 DEF Does
  <2>2. Touches(path, name, None)
    BY <1>1, <2>1, DeliveriesTouchTargets
  <2>3. path \in DOMAIN runs
    BY <1>1, <1>7, ResultsAreIn
  <2>4. WorkflowOf(path)' = WorkflowOf(path)
    BY <1>1, <2>3, LookupsSame
  <2>5. Relation(op)' = About(path, name, None)
    BY <1>7, <2>4 DEF Relation
  <2> QED
    BY <2>2, <2>5
<1>8. CASE op.type = "closeExecution" /\ op.execution \in DOMAIN executions
  <2> PICK e : e = op.execution
    OBVIOUS
  <2>1. CloseExecution(e)
    BY <1>8 DEF Does
  <2>2. Touches(e.run, e.placement, None)
    BY <2>1, ClosingTouchesOwners
  <2>3. Relation(op)' = About(e.run, e.placement, None)
    BY <1>8 DEF Relation, OwnerRelation, Grows
  <2> QED
    BY <2>2, <2>3
<1>9. CASE op.type \in {"start", "cancel", "conclude"}
  <2>1. Start \/ Cancel \/ ConcludeRunning \/ ConcludeStopping
    BY <1>9 DEF Does
  <2>2. \A run, placement, task : Touches(run, placement, task)
    BY <1>1, <2>1, ExecutionsTouchNothing
  <2>3. \E run, placement, task : Relation(op)' = About(run, placement, task)
    BY <1>9 DEF Relation, Unrelated
  <2> QED
    BY <2>2, <2>3
<1> QED
  BY <1>2, <1>3, <1>4, <1>5, <1>6, <1>7, <1>8, <1>9, OpsAre

\* Every operation of a call is one that the records can hold.
LEMMA CallStepsAreOps ==
  ASSUME NEW c \in DOMAIN calls,
         \/ Fetch(c) \/ CallReturned(c) \/ Yielded(c) \/ Ended(c) \/ Terminated(c)
         \/ CallFailed(c) \/ CallTimedOut(c) \/ ElementTimedOut(c) \/ Lost(c)
         \/ \E arm \in Arms(c) : Judged(c, arm)
  PROVE  \E op \in Ops : Does(op)
<1> DEFINE plain(t) == [type |-> t, call |-> c]
           timedOut(b) == [type |-> "timedOut", call |-> c, element |-> b]
           judged(arm) == [type |-> "judged", call |-> c, arm |-> arm]
<1>1. \A t \in {"fetch", "ended", "failed", "lost", "terminated", "returned", "yielded"} : plain(t) \in Ops
  BY DEF Ops, CallOps
<1>2. timedOut(TRUE) \in Ops /\ timedOut(FALSE) \in Ops
  BY DEF Ops, CallOps
<1>3. \A arm \in Arms(c) : judged(arm) \in Ops
  BY DEF Ops, CallOps
<1>4. CASE Fetch(c)
  <2>1. Does(plain("fetch"))
    BY <1>4 DEF Does
  <2> QED
    BY <1>1, <2>1
<1>5. CASE CallReturned(c)
  <2>1. Does(plain("returned"))
    BY <1>5 DEF Does
  <2> QED
    BY <1>1, <2>1
<1>6. CASE Yielded(c)
  <2>1. Does(plain("yielded"))
    BY <1>6 DEF Does
  <2> QED
    BY <1>1, <2>1
<1>7. CASE Ended(c)
  <2>1. Does(plain("ended"))
    BY <1>7 DEF Does
  <2> QED
    BY <1>1, <2>1
<1>8. CASE Terminated(c)
  <2>1. Does(plain("terminated"))
    BY <1>8 DEF Does
  <2> QED
    BY <1>1, <2>1
<1>9. CASE CallFailed(c)
  <2>1. Does(plain("failed"))
    BY <1>9 DEF Does
  <2> QED
    BY <1>1, <2>1
<1>10. CASE CallTimedOut(c)
  <2>1. Does(timedOut(FALSE))
    BY <1>10 DEF Does
  <2> QED
    BY <1>2, <2>1
<1>11. CASE ElementTimedOut(c)
  <2>1. Does(timedOut(TRUE))
    BY <1>11 DEF Does
  <2> QED
    BY <1>2, <2>1
<1>12. CASE Lost(c)
  <2>1. Does(plain("lost"))
    BY <1>12 DEF Does
  <2> QED
    BY <1>1, <2>1
<1>13. ASSUME NEW arm \in Arms(c), Judged(c, arm)
       PROVE  \E op \in Ops : Does(op)
  <2>1. Does(judged(arm))
    BY <1>13 DEF Does
  <2> QED
    BY <1>3, <2>1
<1> HIDE DEF plain, timedOut, judged
<1> QED
  BY <1>4, <1>5, <1>6, <1>7, <1>8, <1>9, <1>10, <1>11, <1>12, <1>13

\* And every operation on a task, or on a result of one.
LEMMA TaskStepsAreOps ==
  ASSUME NEW e \in DOMAIN executions, NEW t \in DOMAIN executions[e].tasks,
         TaskInput(e, t) \/ TaskInputFailed(e, t) \/ BeginTask(e, t)
  PROVE  \E op \in Ops : Does(op)
<1> DEFINE input(type) == [type |-> type, execution |-> e, task |-> t]
           of(x) == [type : {"taskInput", "taskInputFailed", "beginTask"}, execution : {x},
                     task : DOMAIN executions[x].tasks]
<1>1. \A type \in {"taskInput", "taskInputFailed", "beginTask"} : input(type) \in Ops
  <2>1. \A type \in {"taskInput", "taskInputFailed", "beginTask"} : input(type) \in of(e)
    OBVIOUS
  <2>2. UNION {of(x) : x \in DOMAIN executions} \subseteq TaskOps
    BY DEF TaskOps
  <2> HIDE DEF of, input
  <2>3. of(e) \subseteq UNION {of(x) : x \in DOMAIN executions}
    OBVIOUS
  <2> QED
    BY <2>1, <2>2, <2>3 DEF Ops
<1>2. CASE TaskInput(e, t)
  <2>1. Does(input("taskInput"))
    BY <1>2 DEF Does
  <2> QED
    BY <1>1, <2>1
<1>3. CASE TaskInputFailed(e, t)
  <2>1. Does(input("taskInputFailed"))
    BY <1>3 DEF Does
  <2> QED
    BY <1>1, <2>1
<1>4. CASE BeginTask(e, t)
  <2>1. Does(input("beginTask"))
    BY <1>4 DEF Does
  <2> QED
    BY <1>1, <2>1
<1> QED
  BY <1>2, <1>3, <1>4

\* An output of a task comes from a result of that task that has been recorded.
LEMMA OutputStepsAreOps ==
  ASSUME EntriesOwned, NEW r \in DOMAIN taskResults, TaskOutput(r) \/ TaskOutputFailed(r)
  PROVE  \E op \in Ops : Does(op)
<1> DEFINE output(type) == [type |-> type, execution |-> r.execution, task |-> r.task, index |-> r.index]
<1>1. \A type \in {"taskOutput", "taskOutputFailed"} : output(type) \in Ops
  BY DEF Ops, TaskOps
<1>2. r = TaskResultKey(r.execution, r.task, r.index)
  BY DEF EntriesOwned, TaskResultOwned
<1>3. CASE TaskOutput(r)
  <2>1. Does(output("taskOutput"))
    BY <1>2, <1>3 DEF Does
  <2> QED
    BY <1>1, <2>1
<1>4. CASE TaskOutputFailed(r)
  <2>1. Does(output("taskOutputFailed"))
    BY <1>2, <1>4 DEF Does
  <2> QED
    BY <1>1, <2>1
<1> QED
  BY <1>3, <1>4

\* And every operation on a run: on its placements, connections and its end.
LEMMA PlacementStepsAreOps ==
  ASSUME NEW p \in DOMAIN runs, NEW n \in Placements(WorkflowOf(p)),
         Settle(p, n) \/ \E trigger \in Triggers(p, n) : Invoke(p, n, trigger)
  PROVE  \E op \in Ops : Does(op)
<1> DEFINE settle == [type |-> "settle", run |-> p, placement |-> n]
           invoke(trigger) == [type |-> "invoke", run |-> p, placement |-> n, trigger |-> trigger]
           at(x, y) == [type : {"invoke"}, run : {x}, placement : {y}, trigger : Triggers(x, y)] \cup
                       {[type |-> "settle", run |-> x, placement |-> y]}
           in(x) == UNION {at(x, y) : y \in Placements(WorkflowOf(x))}
<1>1. at(p, n) \subseteq Ops
  <2>1. UNION {in(x) : x \in DOMAIN runs} \subseteq RunOps
    BY DEF RunOps
  <2> HIDE DEF at
  <2>2. at(p, n) \subseteq in(p)
    OBVIOUS
  <2> HIDE DEF in
  <2>3. in(p) \subseteq UNION {in(x) : x \in DOMAIN runs}
    OBVIOUS
  <2> QED
    BY <2>1, <2>2, <2>3 DEF Ops
<1>2. CASE Settle(p, n)
  <2>1. Does(settle)
    BY <1>2 DEF Does
  <2> QED
    BY <1>1, <2>1
<1>3. ASSUME NEW trigger \in Triggers(p, n), Invoke(p, n, trigger)
      PROVE  \E op \in Ops : Does(op)
  <2>1. Does(invoke(trigger))
    BY <1>3 DEF Does
  <2> QED
    BY <1>1, <2>1
<1> QED
  BY <1>2, <1>3

\* Only runs and executions that are known are closed, and never the root.
LEMMA ClosingStepsAreOps ==
  ASSUME NEW p, NEW e,
         (p \in DOMAIN runs /\ CloseRun(p)) \/ (e \in DOMAIN executions /\ CloseExecution(e))
  PROVE  \E op \in Ops : Does(op)
<1> DEFINE run == [type |-> "closeRun", run |-> p]
           execution == [type |-> "closeExecution", execution |-> e]
<1>1. CASE p \in DOMAIN runs /\ CloseRun(p)
  <2>1. p # Root
    BY <1>1 DEF CloseRun
  <2>2. run \in Ops
    BY <1>1, <2>1 DEF Ops, RunOps
  <2>3. Does(run)
    BY <1>1 DEF Does
  <2> QED
    BY <2>2, <2>3
<1>2. CASE e \in DOMAIN executions /\ CloseExecution(e)
  <2>1. execution \in Ops
    BY <1>2 DEF Ops
  <2>2. Does(execution)
    BY <1>2 DEF Does
  <2> QED
    BY <2>1, <2>2
<1> QED
  BY <1>1, <1>2

\* A delivery takes a result of the source of its connection to a target.
LEMMA DeliveryStepsAreOps ==
  ASSUME NEW r \in DOMAIN results, NEW i \in Edges(WorkflowOf(r.run)),
         Deliver(r.run, i, r.label) \/ TransformFailed(r.run, i, r.label)
  PROVE  \E op \in Ops : Does(op)
<1> DEFINE deliver(type) == [type |-> type, run |-> r.run, connection |-> i, source |-> r.label]
           of(x) == [type : {"deliver", "transformFailed"}, run : {x.run}, connection : Edges(WorkflowOf(x.run)),
                     source : {x.label}]
<1>1. \A type \in {"deliver", "transformFailed"} : deliver(type) \in Ops
  <2>1. \A type \in {"deliver", "transformFailed"} : deliver(type) \in of(r)
    OBVIOUS
  <2>2. UNION {of(x) : x \in DOMAIN results} \subseteq RunOps
    BY DEF RunOps
  <2> HIDE DEF of, deliver
  <2>3. of(r) \subseteq UNION {of(x) : x \in DOMAIN results}
    OBVIOUS
  <2> QED
    BY <2>1, <2>2, <2>3 DEF Ops
<1>2. CASE Deliver(r.run, i, r.label)
  <2>1. Does(deliver("deliver"))
    BY <1>2 DEF Does
  <2> QED
    BY <1>1, <2>1
<1>3. CASE TransformFailed(r.run, i, r.label)
  <2>1. Does(deliver("transformFailed"))
    BY <1>3 DEF Does
  <2> QED
    BY <1>1, <2>1
<1> QED
  BY <1>2, <1>3

\* The whole execution is started, cancelled and concluded.
LEMMA ExecutionStepsAreOps ==
  ASSUME Start \/ Cancel \/ ConcludeRunning \/ ConcludeStopping
  PROVE  \E op \in Ops : Does(op)
<1> DEFINE whole(type) == [type |-> type]
<1>1. \A type \in {"start", "cancel", "conclude"} : whole(type) \in Ops
  BY DEF Ops
<1>2. CASE Start
  <2>1. Does(whole("start"))
    BY <1>2 DEF Does
  <2> QED
    BY <1>1, <2>1
<1>3. CASE Cancel
  <2>1. Does(whole("cancel"))
    BY <1>3 DEF Does
  <2> QED
    BY <1>1, <2>1
<1>4. CASE ConcludeRunning \/ ConcludeStopping
  <2>1. Does(whole("conclude"))
    BY <1>4 DEF Does
  <2> QED
    BY <1>1, <2>1
<1> QED
  BY <1>2, <1>3, <1>4

\* Whatever an execution does is an operation that the records can hold.
LEMMA StepsAreOps ==
  ASSUME EntriesOwned, Next
  PROVE  (\E op \in Ops : Does(op)) \/ UNCHANGED vars
<1>1. CASE Control
  <2>1. CASE Start \/ ConcludeRunning \/ ConcludeStopping
    BY <2>1, ExecutionStepsAreOps
  <2>2. CASE \E path \in DOMAIN runs : \E name \in Placements(WorkflowOf(path)) :
               (\E trigger \in Triggers(path, name) : Invoke(path, name, trigger)) \/ Settle(path, name)
    BY <2>2, PlacementStepsAreOps
  <2>3. CASE (\E path \in DOMAIN runs : CloseRun(path)) \/ \E e \in DOMAIN executions : CloseExecution(e)
    BY <2>3, ClosingStepsAreOps
  <2>4. CASE \E r \in DOMAIN results : \E i \in Edges(WorkflowOf(r.run)) : Deliver(r.run, i, r.label)
    BY <2>4, DeliveryStepsAreOps
  <2>5. CASE \E e \in DOMAIN executions : \E t \in DOMAIN executions[e].tasks : TaskInput(e, t) \/ BeginTask(e, t)
    BY <2>5, TaskStepsAreOps
  <2>6. CASE \E r \in DOMAIN taskResults : TaskOutput(r)
    BY <2>6, OutputStepsAreOps
  <2>7. CASE \E c \in DOMAIN calls : Fetch(c)
    BY <2>7, CallStepsAreOps
  <2> QED
    BY <1>1, <2>1, <2>2, <2>3, <2>4, <2>5, <2>6, <2>7 DEF Control
<1>2. CASE \E c \in DOMAIN calls : Report(c)
  BY <1>2, CallStepsAreOps DEF Report
<1>3. CASE Environment
  <2>1. CASE \E c \in DOMAIN calls : CallFailed(c) \/ CallTimedOut(c) \/ ElementTimedOut(c) \/ Lost(c)
    BY <2>1, CallStepsAreOps
  <2>2. CASE \E r \in DOMAIN results : \E i \in Edges(WorkflowOf(r.run)) : TransformFailed(r.run, i, r.label)
    BY <2>2, DeliveryStepsAreOps
  <2>3. CASE \E e \in DOMAIN executions : \E t \in DOMAIN executions[e].tasks : TaskInputFailed(e, t)
    BY <2>3, TaskStepsAreOps
  <2>4. CASE \E r \in DOMAIN taskResults : TaskOutputFailed(r)
    BY <2>4, OutputStepsAreOps
  <2>5. CASE Cancel
    BY <2>5, ExecutionStepsAreOps
  <2> QED
    BY <1>3, <2>1, <2>2, <2>3, <2>4, <2>5 DEF Environment
<1>4. CASE Done
  BY <1>4 DEF Done
<1> QED
  BY <1>1, <1>2, <1>3, <1>4 DEF Next

\* The journal has an operation for every step, and the kit shows each at the
\* placement and task that it did something to.
THEOREM StepsAreAttributed == Spec => Attributed
<1> DEFINE Shown ==
             /\ \E op \in Ops : Does(op)
             /\ \A op \in Ops : Does(op) =>
                  LET about == Relation(op)'
                      at(run, placement) == run = about.run /\ placement = about.placement
                  IN  /\ \A n \in DOMAIN failures' \ DOMAIN failures :
                           at(failures'[n].run, failures'[n].placement) /\ failures'[n].task = about.task
                      /\ \A r \in DOMAIN results' \ DOMAIN results : at(r.run, r.label.placement)
                      /\ \A r \in DOMAIN taskResults' \ DOMAIN taskResults :
                           at(r.execution.run, r.execution.placement) /\ r.task = about.task
                      /\ \A k \in DOMAIN invocations' \ DOMAIN invocations : at(k.run, k.placement)
                      /\ \A c \in DOMAIN calls' \ DOMAIN calls : at(c.owner.run, c.owner.placement)
                      /\ \A c \in DOMAIN calls :
                           calls'[c].status # calls[c].status /\ calls'[c].status # "cancelling" =>
                             at(c.owner.run, c.owner.placement) /\ c.task = about.task
<1>1. IInv /\ [Next]_vars => [Shown]_vars
  <2> SUFFICES ASSUME IInv, [Next]_vars, ~UNCHANGED vars
               PROVE  Shown
    OBVIOUS
  <2>1. IInv' /\ Grows /\ DOMAIN calls \subseteq DOMAIN calls'
    BY StepKeepsBooks, CallsStay
  <2>2. \E op \in Ops : Does(op)
    BY StepsAreOps DEF IInv, Books
  <2>3. ASSUME NEW op \in Ops, Does(op)
        PROVE  LET about == Relation(op)'
                   at(run, placement) == run = about.run /\ placement = about.placement
               IN  /\ \A n \in DOMAIN failures' \ DOMAIN failures :
                        at(failures'[n].run, failures'[n].placement) /\ failures'[n].task = about.task
                   /\ \A r \in DOMAIN results' \ DOMAIN results : at(r.run, r.label.placement)
                   /\ \A r \in DOMAIN taskResults' \ DOMAIN taskResults :
                        at(r.execution.run, r.execution.placement) /\ r.task = about.task
                   /\ \A k \in DOMAIN invocations' \ DOMAIN invocations : at(k.run, k.placement)
                   /\ \A c \in DOMAIN calls' \ DOMAIN calls : at(c.owner.run, c.owner.placement)
                   /\ \A c \in DOMAIN calls :
                        calls'[c].status # calls[c].status /\ calls'[c].status # "cancelling" =>
                          at(c.owner.run, c.owner.placement) /\ c.task = about.task
    <3>1. PICK run, placement, task : Relation(op)' = About(run, placement, task) /\ Touches(run, placement, task)
      BY <2>1, <2>3, OperationsTouchRelated
    <3>2. Relation(op)'.run = run /\ Relation(op)'.placement = placement /\ Relation(op)'.task = task
      BY <3>1 DEF About
    <3> QED
      BY <3>1, <3>2 DEF Touches, FailuresTouch, ResultsTouch, TaskResultsTouch, InvocationsTouch, NewCallsTouch,
        CallsTouch
  <2> QED
    BY <2>2, <2>3
<1> QED
  BY <1>1, BooksHold, PTL DEF Spec, Attributed
=============================================================================
