----------------------------- MODULE MCMachine ------------------------------
(***************************************************************************)
(* A library of small workflows, one for every control and for every way   *)
(* two of them meet, and the properties of their executions.               *)
(***************************************************************************)
EXTENDS CallsRefinement, TLC

MCFunctions ==
  [make   |-> [input |-> FALSE, stream |-> FALSE],
   use    |-> [input |-> TRUE,  stream |-> FALSE],
   gen    |-> [input |-> FALSE, stream |-> TRUE],
   expand |-> [input |-> TRUE,  stream |-> TRUE]]

Call(function, policy, timeouts) ==
  [type |-> "function", function |-> function, policy |-> policy, timeouts |-> timeouts]
Sub(workflow, output, policy) ==
  [type |-> "subworkflow", workflow |-> workflow, output |-> output, policy |-> policy, timeouts |-> {}]
Branch(arms, policy, timeouts) ==
  [type |-> "branch", arms |-> arms, policy |-> policy, timeouts |-> timeouts]
Wait == [type |-> "waitStream", policy |-> "continue", timeouts |-> {}]
Merge == [type |-> "merge", policy |-> "continue", timeouts |-> {}]
Concurrently(input, limit, tasks, output) ==
  [type |-> "concurrency", input |-> input, limit |-> limit, tasks |-> tasks, output |-> output,
   policy |-> "continue", timeouts |-> {}]
Task(body, inputTransform, included, policy, timeouts) ==
  [body |-> body, inputTransform |-> inputTransform, included |-> included, policy |-> policy,
   timeouts |-> timeouts]
FunctionBody(function) == [type |-> "function", function |-> function]
WorkflowBody(workflow, output) == [type |-> "subworkflow", workflow |-> workflow, output |-> output]

Carry(source, arm, target) == [source |-> source, arm |-> arm, target |-> target, discard |-> FALSE]
Trigger(source, arm, target) == [source |-> source, arm |-> arm, target |-> target, discard |-> TRUE]

Workflow(entry, placements, connections) ==
  [entry |-> entry, placements |-> placements, connections |-> connections]

MCWorkflows ==
  [\* a Stream consumed element by element and collected
   pipeline |-> Workflow(None,
     [gen |-> Call("gen", "continue", {"call", "element"}),
      use |-> Call("use", "continue", {}),
      all |-> Wait],
     <<Carry("gen", None, "use"), Carry("use", None, "all")>>),
   \* a Single value routed to one of two placements and collected again
   choice |-> Workflow(None,
     [make |-> Call("make", "stop", {}),
      judge |-> Branch({"a", "b"}, "continue", {"call"}),
      left |-> Call("use", "continue", {}),
      right |-> Call("make", "continue", {}),
      join |-> Merge],
     <<Carry("make", None, "judge"), Carry("judge", "a", "left"), Trigger("judge", "b", "right"),
       Carry("left", None, "join"), Carry("right", None, "join")>>),
   \* a Stream routed element by element
   route |-> Workflow(None,
     [gen |-> Call("gen", "continue", {}),
      judge |-> Branch({"a", "b", "c"}, "continue", {}),
      left |-> Wait,
      right |-> Wait],
     <<Carry("gen", None, "judge"), Carry("judge", "a", "left"), Carry("judge", "b", "right")>>),
   \* tasks that share a slot, one of them outside the output
   fan |-> Workflow(None,
     [make |-> Call("make", "continue", {}),
      fan |-> Concurrently(TRUE, 1,
        [one |-> Task(FunctionBody("use"), "value", TRUE, "continue", {"call"}),
         two |-> Task(FunctionBody("make"), "discard", TRUE, "continue", {}),
         three |-> Task(FunctionBody("make"), "discard", FALSE, "stop", {"call"})], "list")],
     <<Carry("make", None, "fan")>>),
   \* tasks whose results are a Stream: a generator and a called workflow
   spread |-> Workflow(None,
     [spread |-> Concurrently(FALSE, 2,
        [one |-> Task(FunctionBody("gen"), "none", TRUE, "continue", {"element"}),
         two |-> Task(WorkflowBody("maybe", "out"), "none", TRUE, "continue", {})], "stream"),
      all |-> Wait],
     <<Carry("spread", None, "all")>>),
   \* a workflow whose output may be skipped, and a sibling that may fail
   maybe |-> Workflow(None,
     [make |-> Call("make", "continue", {}),
      judge |-> Branch({"a", "b"}, "continue", {}),
      out |-> Call("use", "continue", {}),
      side |-> Call("use", "continue", {})],
     <<Carry("make", None, "judge"), Carry("judge", "a", "out"), Carry("judge", "b", "side")>>),
   \* called workflows: one with the caller's input, one started by it
   caller |-> Workflow(None,
     [make |-> Call("make", "continue", {}),
      first |-> Sub("echo", "out", "continue"),
      second |-> Sub("maybe", "out", "continue"),
      after |-> Call("use", "stop", {})],
     <<Carry("make", None, "first"), Trigger("first", None, "second"), Carry("second", None, "after")>>),
   echo |-> Workflow("out", [out |-> Call("use", "continue", {"call"})], <<>>),
   \* every element of a Stream runs a concurrency that calls a workflow
   each |-> Workflow(None,
     [gen |-> Call("gen", "continue", {}),
      fan |-> Concurrently(TRUE, 1,
        [one |-> Task(WorkflowBody("echo", "out"), "value", TRUE, "continue", {}),
         two |-> Task(FunctionBody("expand"), "value", TRUE, "continue", {"element"})], "list"),
      all |-> Wait],
     <<Carry("gen", None, "fan"), Carry("fan", None, "all")>>)]
=============================================================================
