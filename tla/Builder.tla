------------------------------ MODULE Builder -------------------------------
(***************************************************************************)
(* The fluent construction of a definition, after builder.ts: every call    *)
(* of DefinitionBuilder and WorkflowBuilder that changes the definition or   *)
(* gives out a handle.  A handle carries the types of what it stands for,   *)
(* and the compiler lets a call through when the types of its handles       *)
(* agree.  To the compiler a declared type is the TypeScript type it is     *)
(* over, Type<T> with T (never any): two names may be over one type, and a  *)
(* name may be over a list of another.  What the calls themselves check,    *)
(* owners, duplicate names, endpoints and entries, is their guard: a call   *)
(* that throws changes nothing.                                            *)
(*                                                                         *)
(* Functions, judges and transforms are declared first.  Settings (policies *)
(* and timeouts) are copied as they are and left out.                      *)
(***************************************************************************)
EXTENDS Typing, Functions, TLC

CONSTANTS
  TypeScript,                   \* the name of a type -> the TypeScript type it is over
  WorkflowIds,                  \* what workflows are created
  Inputs,                       \* id -> what it and its concurrencies are declared to take
  Names,                        \* id -> the names of its placements, in the order they are used
  TaskNames,
  Foreign,                      \* [bodies, judges, transforms]: another builder's handles
  Collectors, Outputs,          \* what is collected: [type, element], [output, element]
  MaxPlacements,                \* of all workflows together
  MaxParts                      \* connections, tasks and called bodies together

VARIABLES
  workflows,  \* id -> [input, entry, placements, connections], as Typing has them
  handles,    \* Node and Branch: [graph, name, input, output, arms]
  bodies,     \* WorkflowBody: [owner, body, input, output]
  tasks       \* IncludedTask and ExcludedTask: [owner, input, output, data]

vars == <<workflows, handles, bodies, tasks>>

Self == "self"

\* The bound: how much is made besides placements.
PartsLeft ==
  SumFunction([id \in DOMAIN workflows |-> Len(workflows[id].connections)])
    + Cardinality(tasks) + Cardinality(bodies) < MaxParts

\* The bound on placements: a workflow counts as one until it has one.
RoomFor(id) ==
  LET placed(k) == IF k \in DOMAIN workflows THEN Cardinality(Placements(workflows[k])) ELSE 0
  IN  SumFunction([k \in DOMAIN workflows \cup {id} |->
        IF k = id THEN placed(k) + 1 ELSE IF placed(k) = 0 THEN 1 ELSE placed(k)]) <= MaxPlacements

\* Names tell placements apart and nothing else, so one order of them is enough.
NextName(id) ==
  LET used == Cardinality(Placements(workflows[id]))
  IN  IF used < Len(Names[id]) THEN {Names[id][used + 1]} ELSE {}

-----------------------------------------------------------------------------
(* The handles of what is declared *)

FunctionRefs ==
  {[owner |-> Self, body |-> [type |-> "function", function |-> f],
    input |-> FunctionTypes[f].input, output |-> FunctionTypes[f].output] : f \in DOMAIN FunctionTypes}

JudgeRefs ==
  {[owner |-> Self, id |-> j, input |-> JudgeTypes[j].input, arms |-> JudgeTypes[j].arms] : j \in DOMAIN JudgeTypes}

TransformRefs ==
  {[owner |-> Self, id |-> t, input |-> TransformTypes[t].input, output |-> TransformTypes[t].output] :
   t \in DOMAIN TransformTypes}

\* discard(input) belongs to no builder.
Discard(input) == [owner |-> Self, id |-> Discarded, input |-> input, output |-> NoType]

\* The type the compiler sees: no value is void, and a list is an array.
Compiled(t) ==
  IF t = NoType THEN NoType
  ELSE [TypeScript[t.name] EXCEPT !.depth = @ + t.depth]

Interchangeable(t1, t2) == Compiled(t1) = Compiled(t2)

\* The transforms the compiler accepts between two types.
Via(from, to) ==
  {t \in TransformRefs \cup Foreign.transforms : Interchangeable(t.input, from) /\ Interchangeable(t.output, to)}
    \cup (IF Compiled(to) = NoType THEN {Discard(from)} ELSE {})

Bodies == FunctionRefs \cup bodies \cup Foreign.bodies

-----------------------------------------------------------------------------
(* DefinitionBuilder *)

\* workflow: reserve refuses an id that is taken.
NewWorkflow(id, input) ==
  /\ id \notin DOMAIN workflows
  /\ workflows' = workflows @@ (id :> [input |-> input, entry |-> None, placements |-> <<>>, connections |-> <<>>])
  /\ UNCHANGED <<handles, bodies, tasks>>

Owned(parts) == \A p \in parts : p.owner = Self

AddTask(input, output, data) ==
  /\ PartsLeft
  /\ tasks' = tasks \cup {[owner |-> Self, input |-> input, output |-> output, data |-> data]}
  /\ UNCHANGED <<workflows, handles, bodies>>

TaskData(name, body, input, output) ==
  [name |-> name, body |-> body, inputTransform |-> input, outputTransform |-> output]

\* The output transforms of a body: an included task has one.
OutputsOf(ref) == {t \in TransformRefs \cup Foreign.transforms : Interchangeable(t.input, ref.output)}

\* task, sideTask: the input of the concurrency is passed on or discarded.
Task(name, ref, via, out) ==
  /\ Owned({ref, via, out})
  /\ AddTask(via.input, out.output, TaskData(name, ref.body, via.id, out.id))

SideTask(name, ref, via) ==
  /\ Owned({ref, via})
  /\ AddTask(via.input, NoType, TaskData(name, ref.body, via.id, None))

\* taskNoInput, sideTaskNoInput: for a concurrency that takes none.
TaskNoInput(name, ref, out) ==
  /\ Owned({ref, out})
  /\ AddTask(NoType, out.output, TaskData(name, ref.body, None, out.id))

SideTaskNoInput(name, ref) ==
  /\ Owned({ref})
  /\ AddTask(NoType, NoType, TaskData(name, ref.body, None, None))

-----------------------------------------------------------------------------
(* WorkflowBuilder *)

\* add: a placement and the handle of it.
Place(id, name, node, input, output, arms) ==
  /\ name \notin Placements(workflows[id])
  /\ workflows' = [workflows EXCEPT ![id].placements = @ @@ (name :> node)]
  /\ handles' = handles \cup {[graph |-> id, name |-> name, input |-> input, output |-> output, arms |-> arms]}
  /\ UNCHANGED <<bodies, tasks>>

Call(id, name, ref) ==
  /\ ref.owner = Self
  /\ Place(id, name, ref.body, ref.input, ref.output, {})

Branch(id, name, judge) ==
  /\ judge.owner = Self
  /\ Place(id, name, [type |-> "branch", judge |-> judge.id, arms |-> judge.arms], judge.input, judge.input, judge.arms)

Collector(id, name, type, element) ==
  Place(id, name, [type |-> type, element |-> element], element, ListOf(element), {})

\* The compiler lets in tasks that take the input and give the element.
Concurrency(id, name, input, element, output, chosen) ==
  /\ \A task \in chosen :
       /\ Interchangeable(task.input, input)
       /\ task.data.outputTransform # None => Interchangeable(task.output, element)
  /\ Owned(chosen)
  /\ Place(id, name,
           [type |-> "concurrency", input |-> input, element |-> element, output |-> output,
            tasks |-> {task.data : task \in chosen}],
           input, IF output = "list" THEN ListOf(element) ELSE element, {})

Entry(id, target) ==
  /\ target.graph = id
  /\ workflows[id].input # NoType
  /\ workflows[id].entry = None
  /\ Interchangeable(target.input, workflows[id].input)
  /\ workflows' = [workflows EXCEPT ![id].entry = target.name]
  /\ UNCHANGED <<handles, bodies, tasks>>

ArmsOf(handle) == IF handle.arms = {} THEN {None} ELSE handle.arms

\* A mutation of Connect: whose transform it is is not asked.
ConnectAnyones(id, source, arm, target, via) ==
  /\ {source.graph, target.graph} = {id}
  /\ PartsLeft
  /\ workflows' = [workflows EXCEPT ![id].connections =
       Append(@, [source |-> source.name, arm |-> arm, target |-> target.name, transform |-> via.id])]
  /\ UNCHANGED <<handles, bodies, tasks>>

Connect(id, source, arm, target, via) ==
  /\ {source.graph, target.graph} = {id}
  /\ via.owner = Self
  /\ PartsLeft
  /\ workflows' = [workflows EXCEPT ![id].connections =
       Append(@, [source |-> source.name, arm |-> arm, target |-> target.name, transform |-> via.id])]
  /\ UNCHANGED <<handles, bodies, tasks>>

\* body: a branch has no output of its own, and an endpoint no connections
\* (so far: more may follow, which validation finds).
Body(id, endpoint) ==
  /\ endpoint.graph = id
  /\ endpoint.arms = {}
  /\ IsEndpoint(workflows[id], endpoint.name)
  /\ PartsLeft
  /\ bodies' = bodies \cup
       {[owner |-> Self, body |-> [type |-> "subworkflow", workflow |-> id, output |-> endpoint.name],
         input |-> workflows[id].input, output |-> endpoint.output]}
  /\ UNCHANGED <<workflows, handles, tasks>>

-----------------------------------------------------------------------------
Init == workflows = <<>> /\ handles = {} /\ bodies = {} /\ tasks = {}

\* What a task takes of the concurrency is known to the compiler alone.
Declare ==
  \/ \E id \in WorkflowIds : \E input \in Inputs[id] : RoomFor(id) /\ NewWorkflow(id, input)
  \/ \E name \in TaskNames, ref \in Bodies :
       \/ \E from \in {Compiled(t) : t \in UNION Range(Inputs)} \ {NoType} : \E via \in Via(from, ref.input) :
            \/ \E out \in OutputsOf(ref) : Task(name, ref, via, out)
            \/ SideTask(name, ref, via)
       \/ /\ Compiled(ref.input) = NoType
          /\ \/ \E out \in OutputsOf(ref) : TaskNoInput(name, ref, out)
             \/ SideTaskNoInput(name, ref)

\* A concurrency without tasks is refused whatever its types, and not tried.
AddPlacement(id) ==
  RoomFor(id) /\ \E name \in NextName(id) :
    \/ \E ref \in Bodies : Call(id, name, ref)
    \/ \E judge \in JudgeRefs \cup Foreign.judges : Branch(id, name, judge)
    \/ \E c \in Collectors : Collector(id, name, c.type, c.element)
    \/ \E input \in Inputs[id], out \in Outputs, chosen \in SUBSET tasks \ {{}} :
         Concurrency(id, name, input, out.element, out.output, chosen)

Join(id) ==
  \E source \in handles, target \in handles :
    \E arm \in ArmsOf(source), via \in Via(source.output, target.input) : Connect(id, source, arm, target, via)

Next ==
  \/ Declare
  \/ \E id \in DOMAIN workflows :
       \/ AddPlacement(id)
       \/ \E target \in handles : Entry(id, target)
       \/ Join(id)
       \/ \E endpoint \in handles : Body(id, endpoint)

Spec == Init /\ [][Next]_vars
=============================================================================
