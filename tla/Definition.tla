----------------------------- MODULE Definition -----------------------------
(***************************************************************************)
(* Workflow definitions and their validation, after definition.ts.         *)
(*                                                                         *)
(* A definition is a library of workflows and functions and the identifier *)
(* of its main workflow.  The library is a CONSTANT; the main workflow is   *)
(* chosen from Mains when an execution is created, so that one instance    *)
(* covers every definition that differs in the workflow it runs.           *)
(*                                                                         *)
(* Value types are abstracted to whether a value is passed at all: a       *)
(* transform is "value" (it computes one and may throw), "discard" (it     *)
(* passes none and cannot throw) or, for a task, absent.                   *)
(***************************************************************************)
EXTENDS Integers, Sequences, FiniteSets

CONSTANTS
  \* id -> [entry: the placement given the workflow's input, or None,
  \*        placements: name -> control node,
  \*        connections: sequence of [source, arm, target, discard]].
  Workflows,
  \* id -> [input: does it take one, stream: is its output a Stream].
  Functions,
  \* The workflows an execution may have as its main one.
  Mains

\* The tables as definitions, which TLC evaluates once; it evaluates a
\* constant that a configuration replaces at every use.
WorkflowTable == Workflows
FunctionTable == Functions

\* The absent arm, entry or task name; validation refuses empty names.
None == ""

-----------------------------------------------------------------------------
(* Navigation *)

Placements(w) == DOMAIN w.placements
Node(w, name) == w.placements[name]
Edges(w) == DOMAIN w.connections
Edge(w, i) == w.connections[i]
Incoming(w, name) == {i \in Edges(w) : Edge(w, i).target = name}
Outgoing(w, name) == {i \in Edges(w) : Edge(w, i).source = name}
IsEndpoint(w, name) == Outgoing(w, name) = {}
Endpoints(w) == {name \in Placements(w) : IsEndpoint(w, name)}

BodyTakesInput(library, body) ==
  IF body.type = "function" THEN FunctionTable[body.function].input
                            ELSE library[body.workflow].entry # None

TakesInput(library, node) ==
  CASE node.type \in {"function", "subworkflow"} -> BodyTakesInput(library, node)
    [] node.type = "concurrency" -> node.input
    [] OTHER -> TRUE

-----------------------------------------------------------------------------
(* Single and Stream: how many results a placement can have.               *)
(* A kind that cannot be derived is "unknown".                             *)

InputKind(w, name, kinds) ==
  LET sources == {kinds[Edge(w, i).source] : i \in Incoming(w, name)}
  IN  CASE w.entry = name -> IF sources = {} THEN "single" ELSE "unknown"
        [] w.entry # name /\ sources = {} -> "none"
        [] w.entry # name /\ Cardinality(sources) = 1 -> CHOOSE k \in sources : TRUE
        [] OTHER -> "unknown"

OutputKind(node, input) ==
  CASE input = "unknown" -> "unknown"
    [] input # "unknown" /\ node.type = "function" ->
         IF input = "stream" \/ FunctionTable[node.function].stream THEN "stream" ELSE "single"
    [] input # "unknown" /\ node.type = "subworkflow" ->
         IF input = "stream" THEN "stream" ELSE "single"
    [] input # "unknown" /\ node.type = "concurrency" ->
         IF input = "stream" \/ node.output = "stream" THEN "stream" ELSE "single"
    [] input # "none" /\ node.type = "branch" -> input
    [] input = "stream" /\ node.type = "waitStream" -> "single"
    [] input = "single" /\ node.type = "merge" -> "single"
    [] OTHER -> "unknown"

\* The derivation in topological order: a placement on a cycle, or behind
\* one, is never reached and stays "unknown".
DeriveKinds(w) ==
  LET after[n \in 0..Cardinality(Placements(w))] ==
        IF n = 0 THEN [name \in Placements(w) |-> "unknown"]
        ELSE LET before == after[n - 1]
             IN  [name \in Placements(w) |-> OutputKind(Node(w, name), InputKind(w, name, before))]
  IN  after[Cardinality(Placements(w))]

\* The kinds of every workflow, derived once per definition.
Kinds == [id \in DOMAIN WorkflowTable |-> DeriveKinds(WorkflowTable[id])]

-----------------------------------------------------------------------------
(* Validation: library holds the workflows that bodies may refer to. *)

\* Removing the vertices without a predecessor, again and again, removes all.
Acyclic(edges) ==
  LET targets == {e[2] : e \in edges}
      left[n \in 0..Cardinality(targets)] ==
        IF n = 0 THEN targets
        ELSE LET before == left[n - 1]
             IN  {v \in before : \E e \in edges : e[2] = v /\ e[1] \in before}
  IN  left[Cardinality(targets)] = {}

ValidBody(library, body) ==
  IF body.type = "function" THEN body.function \in DOMAIN FunctionTable
  ELSE /\ body.workflow \in DOMAIN library
       /\ body.output \in Endpoints(library[body.workflow])

\* A call timeout is for a function call or a judge, an element timeout for
\* a Stream function.
AllowedTimeouts(body) ==
  CASE body.type = "function" -> {"call"} \cup (IF FunctionTable[body.function].stream THEN {"element"} ELSE {})
    [] body.type = "branch" -> {"call"}
    [] OTHER -> {}

ValidTask(library, node, task) ==
  /\ ValidBody(library, task.body)
  /\ IF BodyTakesInput(library, task.body)
     THEN node.input /\ task.inputTransform = "value"
     ELSE task.inputTransform = IF node.input THEN "discard" ELSE "none"
  /\ task.timeouts \subseteq AllowedTimeouts(task.body)

ValidConnection(library, w, c) ==
  /\ c.source \in Placements(w)
  /\ c.target \in Placements(w)
  /\ IF Node(w, c.source).type = "branch" THEN c.arm \in Node(w, c.source).arms
                                          ELSE c.arm = None
  /\ c.discard = ~TakesInput(library, Node(w, c.target))

ValidEntry(library, w) ==
  w.entry # None =>
    /\ w.entry \in Placements(w)
    /\ Node(w, w.entry).type # "merge"
    /\ TakesInput(library, Node(w, w.entry))
    /\ Incoming(w, w.entry) = {}

ValidNode(library, w, name, kinds) ==
  LET node == Node(w, name)
  IN  CASE node.type \in {"function", "subworkflow"} -> ValidBody(library, node)
        [] node.type = "branch" ->
             /\ node.arms # {}
             /\ None \notin node.arms
             /\ Outgoing(w, name) # {}
        [] node.type = "waitStream" -> InputKind(w, name, kinds) = "stream"
        [] node.type = "merge" ->
             /\ Incoming(w, name) # {}
             /\ \A i \in Incoming(w, name) : kinds[Edge(w, i).source] = "single"
        [] node.type = "concurrency" ->
             /\ node.limit \in Nat \ {0}
             /\ node.output \in {"list", "stream"}
             /\ IsFiniteSet(DOMAIN node.tasks)
             /\ None \notin DOMAIN node.tasks
             /\ \E t \in DOMAIN node.tasks : node.tasks[t].included
             /\ \A t \in DOMAIN node.tasks : ValidTask(library, node, node.tasks[t])

ValidPlacement(library, w, name, kinds) ==
  LET node   == Node(w, name)
      inputs == Cardinality(Incoming(w, name)) + (IF w.entry = name THEN 1 ELSE 0)
  IN  /\ ValidNode(library, w, name, kinds)
      /\ node.type # "merge" => IF TakesInput(library, node) THEN inputs = 1 ELSE inputs <= 1
      /\ kinds[name] # "unknown"
      /\ node.timeouts \subseteq AllowedTimeouts(node)

ValidWorkflow(library, w) ==
  /\ Placements(w) # {}
  /\ IsFiniteSet(Placements(w)) /\ IsFiniteSet(Edges(w))
  /\ None \notin Placements(w)
  /\ \A i \in Edges(w) : ValidConnection(library, w, Edge(w, i))
  /\ Acyclic({<<Edge(w, i).source, Edge(w, i).target>> : i \in Edges(w)})
  /\ ValidEntry(library, w)
  /\ LET kinds == DeriveKinds(w)
     IN  /\ \A name \in Placements(w) : ValidPlacement(library, w, name, kinds)
         /\ \A name \in Endpoints(w) : kinds[name] = "single"

\* The workflows a node calls.
WorkflowRefs(node) ==
  CASE node.type = "subworkflow" -> {node.workflow}
    [] node.type = "concurrency" ->
         {node.tasks[t].body.workflow : t \in {u \in DOMAIN node.tasks : node.tasks[u].body.type = "subworkflow"}}
    [] OTHER -> {}

CallEdges ==
  UNION {UNION {{<<id, ref>> : ref \in WorkflowRefs(Node(WorkflowTable[id], name))} :
                name \in Placements(WorkflowTable[id])} : id \in DOMAIN WorkflowTable}

ValidDefinition ==
  /\ Mains \subseteq DOMAIN WorkflowTable
  /\ Acyclic(CallEdges)
  /\ \A id \in DOMAIN WorkflowTable : ValidWorkflow(WorkflowTable, WorkflowTable[id])

\* What Engine's constructor checks before it accepts a definition.
ASSUME DefinitionAssumption == ValidDefinition
=============================================================================
