------------------------------- MODULE Typing -------------------------------
(***************************************************************************)
(* The value types of a definition, after definition.ts.  Definition says  *)
(* whether a value is passed; here every value has a type, and validation  *)
(* asks that transforms take and return what their two ends call for.      *)
(*                                                                         *)
(* A type is a name under a number of lists.  In a typed library a          *)
(* workflow has the type its input is declared with, and a connection the   *)
(* transform it passes its value through; Untyped forgets both, which      *)
(* gives the workflows that Definition and the machine are about.          *)
(***************************************************************************)
EXTENDS Definition

CONSTANTS
  FunctionTypes,  \* id -> [input: a type or NoType, output: a type, stream]
  JudgeTypes,     \* id -> [input: a type, arms: what its handle offers]
  TransformTypes  \* id -> [input, output: types]

Discarded == "discard"
NoType == [depth |-> 0, name |-> None]
TypeNamed(name) == [depth |-> 0, name |-> name]
ListOf(t) == [t EXCEPT !.depth = @ + 1]

\* Definition knows of a function what its declaration here says.
ASSUME TypingAssumption ==
  /\ Functions = [f \in DOMAIN FunctionTypes |->
                    [input  |-> FunctionTypes[f].input # NoType,
                     stream |-> FunctionTypes[f].stream]]
  /\ Discarded \notin DOMAIN TransformTypes

-----------------------------------------------------------------------------
(* Forgetting the types *)

UntypedTask(task) ==
  [body           |-> task.body,
   inputTransform |-> CASE task.inputTransform = None      -> "none"
                        [] task.inputTransform = Discarded -> "discard"
                        [] OTHER                           -> "value",
   included       |-> task.outputTransform # None,
   timeouts       |-> {}]

UntypedNode(node) ==
  CASE node.type = "function"    -> [type |-> "function", function |-> node.function, timeouts |-> {}]
    [] node.type = "subworkflow" -> [type |-> "subworkflow", workflow |-> node.workflow,
                                     output |-> node.output, timeouts |-> {}]
    [] node.type = "branch"      -> [type |-> "branch", arms |-> node.arms, timeouts |-> {}]
    [] node.type \in {"waitStream", "merge"} -> [type |-> node.type, timeouts |-> {}]
    [] node.type = "concurrency" ->
         [type  |-> "concurrency", input |-> node.input # NoType, output |-> node.output,
          limit |-> 1, timeouts |-> {},
          tasks |-> [t \in {task.name : task \in node.tasks} |->
                       UntypedTask(CHOOSE task \in node.tasks : task.name = t)]]

Untyped(w) ==
  [entry       |-> w.entry,
   placements  |-> [name \in Placements(w) |-> UntypedNode(Node(w, name))],
   connections |-> [i \in Edges(w) |->
                      [source  |-> Edge(w, i).source, arm |-> Edge(w, i).arm, target |-> Edge(w, i).target,
                       discard |-> Edge(w, i).transform = Discarded]]]

UntypedLibrary(ws) == [id \in DOMAIN ws |-> Untyped(ws[id])]

-----------------------------------------------------------------------------
(* What a body takes and returns *)

\* A workflow takes an input once its entry is set.
BodyInput(ws, body) ==
  IF body.type = "function" THEN FunctionTypes[body.function].input
  ELSE IF ws[body.workflow].entry = None THEN NoType
  ELSE ws[body.workflow].input

LocalResult(node) ==
  CASE node.type = "branch" -> JudgeTypes[node.judge].input
    [] node.type \in {"waitStream", "merge"} -> ListOf(node.element)
    [] node.type = "concurrency" -> IF node.output = "list" THEN ListOf(node.element) ELSE node.element

\* A called workflow returns what its output placement returns, which may be
\* that of yet another workflow: the way is followed for as many bodies as
\* an acyclic library can have on it.
Fuel(ws) == Cardinality(DOMAIN ws) + 1

RECURSIVE ElementWithin(_, _, _)
ElementWithin(ws, body, fuel) ==
  IF fuel = 0 THEN NoType
  ELSE IF body.type = "function" THEN FunctionTypes[body.function].output
  ELSE LET node == Node(ws[body.workflow], body.output)
       IN  IF node.type \in {"function", "subworkflow"}
           THEN ElementWithin(ws, node, fuel - 1)
           ELSE LocalResult(node)

BodyElement(ws, body) == ElementWithin(ws, body, Fuel(ws))

ResultType(ws, node) ==
  IF node.type \in {"function", "subworkflow"} THEN BodyElement(ws, node) ELSE LocalResult(node)

InputType(ws, node) ==
  CASE node.type \in {"function", "subworkflow"} -> BodyInput(ws, node)
    [] node.type = "branch" -> JudgeTypes[node.judge].input
    [] node.type \in {"waitStream", "merge"} -> node.element
    [] node.type = "concurrency" -> node.input

-----------------------------------------------------------------------------
(* The rules about types; those about structure are Definition's.  They ask *)
(* that some types are there at all, and that others, two by two, are the   *)
(* same (typeEqual).                                                       *)

\* The pairs a transform brings up: what it takes and what it is given, what
\* it returns and what is called for.
Compared(transform, from, to) ==
  {<<TransformTypes[transform].input, from>>, <<TransformTypes[transform].output, to>>}

Produced(ws, w, c) == ResultType(ws, Node(w, c.source))

ConnectionPairs(ws, w, c) ==
  IF c.transform = Discarded THEN {}
  ELSE Compared(c.transform, Produced(ws, w, c), InputType(ws, Node(w, c.target)))

TaskPairs(ws, node, task) ==
  (IF BodyInput(ws, task.body) = NoType THEN {}
   ELSE Compared(task.inputTransform, node.input, BodyInput(ws, task.body)))
    \cup (IF task.outputTransform = None THEN {}
          ELSE Compared(task.outputTransform, BodyElement(ws, task.body), node.element))

EntryPairs(ws, w) == IF w.entry = None THEN {} ELSE {<<InputType(ws, Node(w, w.entry)), w.input>>}

Tasks(node) == IF node.type = "concurrency" THEN node.tasks ELSE {}

Pairs(ws) ==
  UNION {LET w == ws[id]
         IN  EntryPairs(ws, w)
               \cup UNION {ConnectionPairs(ws, w, Edge(w, i)) : i \in Edges(w)}
               \cup UNION {UNION {TaskPairs(ws, Node(w, name), task) : task \in Tasks(Node(w, name))} :
                           name \in Placements(w)} : id \in DOMAIN ws}

\* What is converted is declared as a transform and is a value, and so is
\* what a source produces, even to be discarded.
Converts(transform, from) == transform \in DOMAIN TransformTypes /\ from # NoType

ConnectionTypes(ws, w, c) ==
  /\ Produced(ws, w, c) # NoType
  /\ c.transform # Discarded => Converts(c.transform, Produced(ws, w, c))

TaskTypes(ws, node, task) ==
  /\ BodyInput(ws, task.body) # NoType => Converts(task.inputTransform, node.input)
  /\ task.outputTransform # None => Converts(task.outputTransform, BodyElement(ws, task.body))

TypesThere(ws) ==
  \A id \in DOMAIN ws :
    LET w == ws[id]
    IN  /\ \A i \in Edges(w) : ConnectionTypes(ws, w, Edge(w, i))
        /\ \A name \in Placements(w) : \A task \in Tasks(Node(w, name)) : TaskTypes(ws, Node(w, name), task)

WellTyped(ws) == TypesThere(ws) /\ \A pair \in Pairs(ws) : pair[1] = pair[2]

-----------------------------------------------------------------------------
(* The rules about structure, of a library that is not the constant one. *)

TasksDistinct(w) ==
  \A name \in Placements(w) : Node(w, name).type = "concurrency" =>
    \A t1, t2 \in Node(w, name).tasks : t1.name = t2.name => t1 = t2

CallsAcyclic(library) ==
  Acyclic(UNION {UNION {{<<id, ref>> : ref \in WorkflowRefs(Node(library[id], name))} :
                        name \in Placements(library[id])} : id \in DOMAIN library})

Structured(ws) ==
  LET library == UntypedLibrary(ws)
  IN  /\ CallsAcyclic(library)
      /\ \A id \in DOMAIN ws : TasksDistinct(ws[id]) /\ ValidWorkflow(library, library[id])
=============================================================================
