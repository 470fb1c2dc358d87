--------------------------- MODULE MCDefinitions ----------------------------
(***************************************************************************)
(* Every definition that validation accepts, with three placements drawn  *)
(* from a catalogue with one node for each way of taking input and of      *)
(* producing results.  The candidates include invalid ones, an arm that no *)
(* branch has among them: what is executed is what ValidWorkflow lets      *)
(* through.                                                                *)
(***************************************************************************)
EXTENDS MachineProperties

MCFunctions ==
  [make |-> [input |-> FALSE, stream |-> FALSE],
   use  |-> [input |-> TRUE,  stream |-> FALSE],
   gen  |-> [input |-> FALSE, stream |-> TRUE]]

Call(function) ==
  [type |-> "function", function |-> function, policy |-> "continue", timeouts |-> {}]

Catalogue ==
  {Call(f) : f \in DOMAIN MCFunctions} \cup
  {[type |-> "branch", arms |-> {"a", "b"}, policy |-> "continue", timeouts |-> {}],
   [type |-> "waitStream", policy |-> "stop", timeouts |-> {}],
   [type |-> "merge", policy |-> "stop", timeouts |-> {}],
   [type |-> "concurrency", input |-> TRUE, limit |-> 1, output |-> "stream", policy |-> "continue", timeouts |-> {},
    tasks |-> [t |-> [body |-> [type |-> "function", function |-> "use"], inputTransform |-> "value",
                      included |-> TRUE, policy |-> "continue", timeouts |-> {}]]]}

\* The arms of the connections from a node to a later one; "z" is no arm.
ArmLists == {<<>>, <<None>>, <<"a">>, <<"a", "b">>, <<"z">>}
Wirings(node) == IF node.type = "branch" THEN ArmLists \ {<<None>>} ELSE {<<>>, <<None>>}

Link(nodes, source, target, arms) ==
  [n \in DOMAIN arms |->
    [source |-> source, arm |-> arms[n], target |-> target, discard |-> ~TakesInput(<<>>, nodes[target])]]

\* Connections go from p to q to r, an order every acyclic definition has.
Choices ==
  {c \in [nodes: [{"p", "q", "r"} -> Catalogue], entry: {None, "p"}, pq: ArmLists, pr: ArmLists, qr: ArmLists] :
    /\ c.pq \in Wirings(c.nodes["p"])
    /\ c.pr \in Wirings(c.nodes["p"])
    /\ c.qr \in Wirings(c.nodes["q"])}

Candidate(c) ==
  [entry |-> c.entry, placements |-> c.nodes,
   connections |-> Link(c.nodes, "p", "q", c.pq) \o Link(c.nodes, "p", "r", c.pr)
                     \o Link(c.nodes, "q", "r", c.qr)]

\* A definition is identified by itself.
Valid == {w \in {Candidate(c) : c \in Choices} : ValidWorkflow(<<>>, w)}
MCWorkflows == [w \in Valid |-> w]
MCMains == DOMAIN WorkflowTable
=============================================================================
