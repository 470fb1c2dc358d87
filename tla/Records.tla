------------------------------ MODULE Records ------------------------------
(***************************************************************************)
(* The lines of a journal, as trace.ts writes and reads them and as the UI *)
(* kit reads them (parse.ts, records.ts).  Both readers are written by     *)
(* hand, field by field, and are meant to take the same lines.              *)
(*                                                                         *)
(* A line is the JSON object that its text parses to: a function from      *)
(* field names to values. A value is a pair of its kind and what tells it  *)
(* apart: texts, lists of texts ("path"), naturals, those beyond 2^53-1    *)
(* ("huge"), Booleans, the null, other objects and lists ("other"), and,   *)
(* for the fields of a line, operations, payloads and definitions.         *)
(*                                                                         *)
(* What the machine makes of operations is a parameter: step is a function *)
(* of the definition and of the operations before, which stand for the     *)
(* state that they lead to.                                                *)
(***************************************************************************)
EXTENDS Integers, SequencesExt

CONSTANTS
  Valid,           \* definitions that pass validateDefinition
  Oversized,       \* beyond the limits of the program, which the kit does not check
  Unreferenced,    \* with a reference to nothing, which the kit checks by itself
  Accepts(_,_,_),  \* step accepts an operation after those before
  Makes(_,_,_)     \* values that an accepted operation brings which it does not name

\* Validation checks the limits and the references too (definition.ts:602-617).
ASSUME DefinitionsAssumption == Valid \cap (Oversized \cup Unreferenced) = {}

Value(kind, content) == <<kind, content>>
TextOf(v) == Value("text", v)
NaturalOf(n) == Value("natural", n)

\* What a field of an operation holds, in both programs.
Holds ==
  [input |-> "text", run |-> "path", placement |-> "text", trigger |-> "text", call |-> "text",
   value |-> "text", arm |-> "text", element |-> "boolean", connection |-> "index",
   source |-> "text", execution |-> "text", task |-> "text", index |-> "index"]
FieldNames == DOMAIN Holds

Keys(required, optional) == [required |-> required, optional |-> optional]

-----------------------------------------------------------------------------
(* Writing: opValue, encodeRecord *)

CallOps == {"fetch", "ended", "failed", "lost", "terminated"}
OpTypes ==
  CallOps \cup {"start", "invoke", "returned", "yielded", "judged", "timedOut", "deliver",
    "transformFailed", "taskInput", "taskInputFailed", "beginTask", "taskOutput", "taskOutputFailed",
    "settle", "closeExecution", "closeRun", "cancel", "conclude"}

opValueKeys(type) ==
  CASE type = "start" -> {"input"}
    [] type = "invoke" -> {"run", "placement", "trigger"}
    [] type \in CallOps -> {"call"}
    [] type \in {"returned", "yielded"} -> {"call", "value"}
    [] type = "judged" -> {"call", "arm"}
    [] type = "timedOut" -> {"call", "element"}
    [] type = "deliver" -> {"run", "connection", "source", "value"}
    [] type = "transformFailed" -> {"run", "connection", "source"}
    [] type = "taskInput" -> {"execution", "task", "value"}
    [] type \in {"taskInputFailed", "beginTask"} -> {"execution", "task"}
    [] type = "taskOutput" -> {"execution", "task", "index", "value"}
    [] type = "taskOutputFailed" -> {"execution", "task", "index"}
    [] type = "settle" -> {"run", "placement"}
    [] type = "closeExecution" -> {"execution"}
    [] type = "closeRun" -> {"run"}
    [] type \in {"cancel", "conclude"} -> {}

opValue(op) == Restrict(op, DOMAIN op \cap ({"type"} \cup opValueKeys(op.type[2])))

encodeHeader(definition, validated) ==
  [definition |-> definition, validated |-> Value("boolean", validated)]
encodeOpRecord(seq, op, values) ==
  IF values = {} THEN [seq |-> NaturalOf(seq), op |-> Value("op", opValue(op))]
  ELSE [seq |-> NaturalOf(seq), op |-> Value("op", opValue(op)), values |-> Value("payloads", values)]
encodeCommit(seq) == [seq |-> NaturalOf(seq), commit |-> Value("boolean", TRUE)]

-----------------------------------------------------------------------------
(* Reading: readOp, readRecord, readHeader, checkTrace *)

readKeys(type) ==
  CASE type = "start" -> Keys({}, {"input"})
    [] type = "invoke" -> Keys({"run", "placement"}, {"trigger"})
    [] type \in CallOps -> Keys({"call"}, {})
    [] type \in {"returned", "yielded"} -> Keys({"call", "value"}, {})
    [] type = "judged" -> Keys({"call", "arm"}, {})
    [] type = "timedOut" -> Keys({"call", "element"}, {})
    [] type = "deliver" -> Keys({"run", "connection", "source"}, {"value"})
    [] type = "transformFailed" -> Keys({"run", "connection", "source"}, {})
    [] type = "taskInput" -> Keys({"execution", "task"}, {"value"})
    [] type \in {"taskInputFailed", "beginTask"} -> Keys({"execution", "task"}, {})
    [] type = "taskOutput" -> Keys({"execution", "task", "index", "value"}, {})
    [] type = "taskOutputFailed" -> Keys({"execution", "task", "index"}, {})
    [] type = "settle" -> Keys({"run", "placement"}, {})
    [] type = "closeExecution" -> Keys({"execution"}, {})
    [] type = "closeRun" -> Keys({"run"}, {})
    [] type \in {"cancel", "conclude"} -> Keys({}, {})

Fields(line, allowed) == DOMAIN line \subseteq allowed
FieldReads(field, v) ==
  IF Holds[field] = "index" THEN v[1] \in {"natural", "huge"} ELSE v[1] = Holds[field]
ReadsOp(op) ==
  /\ "type" \in DOMAIN op /\ op.type[1] = "text" /\ op.type[2] \in OpTypes
  /\ LET keys == readKeys(op.type[2])
     IN  /\ Fields(op, {"type"} \cup keys.required \cup keys.optional)
         /\ keys.required \subseteq DOMAIN op
         /\ \A field \in DOMAIN op \ {"type"} : FieldReads(field, op[field])
\* saturatedIndex
readOp(op) == [field \in DOMAIN op |-> IF op[field][1] = "huge" THEN Value("natural", "largest") ELSE op[field]]

IsCommit(line) == "commit" \in DOMAIN line /\ line.commit = Value("boolean", TRUE) /\ "op" \notin DOMAIN line
Payloads(line) == IF "values" \in DOMAIN line THEN line.values[2] ELSE {}
ReadsRecord(line) ==
  /\ "seq" \in DOMAIN line /\ line.seq[1] \in {"natural", "huge"}
  /\ \/ IsCommit(line) /\ Fields(line, {"seq", "commit"})
     \/ /\ "commit" \notin DOMAIN line /\ "op" \in DOMAIN line /\ Fields(line, {"seq", "op", "values"})
        /\ line.op[1] = "op" /\ ReadsOp(line.op[2])
        /\ "values" \in DOMAIN line => line.values[1] = "payloads"

\* What is wrong with a definition counts only where it was validated, but for
\* its limits.
ReadsHeader(line) ==
  /\ DOMAIN line = {"definition", "validated"}
  /\ line.validated[1] = "boolean"
  /\ line.definition[1] = "definition"
  /\ line.validated[2] => line.definition[2] \in Valid
  /\ line.definition[2] \notin Oversized

Unread == [ok |-> TRUE, header |-> <<>>, next |-> 1, pending |-> <<>>, ops |-> <<>>, values |-> {}]
Refused == [Unread EXCEPT !.ok = FALSE]

\* The values that an operation names and that then are in the state.
Names(op) == {op[field][2] : field \in DOMAIN op \cap {"input", "value"}}

\* The list of a waitStream, a merge or a concurrency, and what a judge gives on
\* of an invocation without an input.
Making == {"settle", "closeExecution", "judged"}
Made(definition, ops, op) == IF op.type[2] \in Making THEN Makes(definition, ops, op) ELSE {}

\* Each value in the state has come with one of the operations.
stateValues(definition, ops) ==
  UNION {Names(ops[n]) \cup Made(definition, SubSeq(ops, 1, n - 1), ops[n]) : n \in DOMAIN ops}
introduced(definition, ops, op) ==
  stateValues(definition, Append(ops, op)) \ stateValues(definition, ops)

\* A mutation of Follows: the numbers of operations are not compared.
FollowsAnyhow(checked, line) == checked.ok /\ checked.header # <<>> /\ ReadsRecord(line)

\* A record with the number that is due.
Follows(checked, line) ==
  checked.ok /\ checked.header # <<>> /\ ReadsRecord(line) /\ line.seq = NaturalOf(checked.next)

\* The operation that waits for its commit is accepted, with its payloads.
Steps(checked, op) ==
  LET definition == checked.header[1].definition[2]
  IN  /\ checked.pending # <<>>
      /\ Accepts(definition, checked.ops, op)
      /\ Payloads(checked.pending[1]) = introduced(definition, checked.ops, op)

CheckLine(checked, line) ==
  LET op == readOp(checked.pending[1].op[2])
  IN  CASE checked.ok /\ checked.header = <<>> /\ ReadsHeader(line) -> [checked EXCEPT !.header = <<line>>]
        [] Follows(checked, line) /\ ~IsCommit(line) /\ checked.pending = <<>> ->
             [checked EXCEPT !.pending = <<line>>, !.next = @ + 1]
        [] Follows(checked, line) /\ IsCommit(line) /\ Steps(checked, op) ->
             [checked EXCEPT !.pending = <<>>, !.ops = Append(@, op), !.next = @ + 1,
                             !.values = @ \cup Payloads(checked.pending[1])]
        [] OTHER -> Refused

\* tail: the text after the last newline, as a line of its own, if there is one.
checkTrace(lines, tail) ==
  LET checked[n \in 0..Len(lines)] == IF n = 0 THEN Unread ELSE CheckLine(checked[n - 1], lines[n])
  IN  checked[Len(lines)]

-----------------------------------------------------------------------------
(* The kit: op, record, header, parseRecordLog, recordTransitions *)

call1 == Keys({"call"}, {})
taskKeys == {"execution", "task"}

\* A mutation of opFields: the result of a task has no index.
opFieldsUnindexed(type) ==
  IF type = "taskOutput" THEN Keys(taskKeys \cup {"value"}, {}) ELSE readKeys(type)

opFields(type) ==
  CASE type = "start" -> Keys({}, {"input"})
    [] type = "invoke" -> Keys({"run", "placement"}, {"trigger"})
    [] type \in {"fetch", "ended", "failed", "lost", "terminated"} -> call1
    [] type \in {"returned", "yielded"} -> Keys(call1.required \cup {"value"}, {})
    [] type = "judged" -> Keys(call1.required \cup {"arm"}, {})
    [] type = "timedOut" -> Keys(call1.required \cup {"element"}, {})
    [] type = "deliver" -> Keys({"run", "connection", "source"}, {"value"})
    [] type = "transformFailed" -> Keys({"run", "connection", "source"}, {})
    [] type = "taskInput" -> Keys(taskKeys, {"value"})
    [] type \in {"taskInputFailed", "beginTask"} -> Keys(taskKeys, {})
    [] type = "taskOutput" -> Keys(taskKeys \cup {"index", "value"}, {})
    [] type = "taskOutputFailed" -> Keys(taskKeys \cup {"index"}, {})
    [] type = "settle" -> Keys({"run", "placement"}, {})
    [] type = "closeExecution" -> Keys({"execution"}, {})
    [] type = "closeRun" -> Keys({"run"}, {})
    [] type \in {"cancel", "conclude"} -> Keys({}, {})

KitFieldReads(field, v) == IF Holds[field] = "index" THEN v[1] = "natural" ELSE v[1] = Holds[field]
KitOp(op) ==
  /\ "type" \in DOMAIN op /\ op.type[1] = "text" /\ op.type[2] \in OpTypes
  /\ LET keys == opFields(op.type[2])
     IN  /\ DOMAIN op \subseteq {"type"} \cup keys.required \cup keys.optional
         /\ keys.required \subseteq DOMAIN op
         /\ \A field \in DOMAIN op \ {"type"} : KitFieldReads(field, op[field])
KitRecord(line) ==
  /\ "definition" \notin DOMAIN line
  /\ "seq" \in DOMAIN line /\ line.seq[1] = "natural" /\ line.seq[2] >= 1
  /\ IF "commit" \in DOMAIN line
     THEN DOMAIN line = {"seq", "commit"} /\ line.commit = Value("boolean", TRUE)
     ELSE /\ DOMAIN line \subseteq {"seq", "op", "values"}
          /\ "op" \in DOMAIN line /\ line.op[1] = "op" /\ KitOp(line.op[2])
          /\ "values" \in DOMAIN line => line.values[1] = "payloads"
KitHeader(line) ==
  /\ DOMAIN line = {"definition", "validated"}
  /\ line.validated[1] = "boolean"
  /\ line.definition[1] = "definition" /\ line.definition[2] \notin Unreferenced

KitUnread == [ok |-> TRUE, header |-> <<>>, pending |-> FALSE, records |-> <<>>]
KitRefused == [KitUnread EXCEPT !.ok = FALSE]
ParseLine(log, line) ==
  CASE ~log.ok -> log
    [] log.ok /\ log.header = <<>> -> IF KitHeader(line) THEN [log EXCEPT !.header = <<line>>] ELSE KitRefused
    [] log.ok /\ log.header # <<>> ->
         IF KitRecord(line) /\ line.seq = NaturalOf(Len(log.records) + 1) /\ log.pending = IsCommit(line)
         THEN [log EXCEPT !.pending = ~@, !.records = Append(@, line)]
         ELSE KitRefused

parseRecordLog(lines, tail) ==
  LET log[n \in 0..Len(lines)] == IF n = 0 THEN KitUnread ELSE ParseLine(log[n - 1], lines[n])
  IN  log[Len(lines)]

\* An operation is committed if the next record commits it.
Transition(records, n) ==
  [record |-> records[n],
   committed |-> /\ n < Len(records) /\ "commit" \in DOMAIN records[n + 1]
                 /\ records[n + 1].seq[2] = records[n].seq[2] + 1]
recordTransitions(records) ==
  LET transitions[n \in 0..Len(records)] ==
        IF n = 0 THEN <<>>
        ELSE IF "commit" \in DOMAIN records[n] THEN transitions[n - 1]
        ELSE Append(transitions[n - 1], Transition(records, n))
  IN  transitions[Len(records)]

Committed(transitions) ==
  LET committed[n \in 0..Len(transitions)] ==
        IF n = 0 THEN <<>>
        ELSE IF transitions[n].committed THEN Append(committed[n - 1], transitions[n]) ELSE committed[n - 1]
  IN  committed[Len(transitions)]
recordValues(transitions) == UNION {Payloads(t.record) : t \in Range(Committed(transitions))}

opValues(op) ==
  CASE op.type[2] = "start" -> {op[field][2] : field \in DOMAIN op \cap {"input"}}
    [] op.type[2] \in {"returned", "yielded", "taskOutput", "deliver", "taskInput"} ->
         {op[field][2] : field \in DOMAIN op \cap {"value"}}
    [] OTHER -> {}
=============================================================================
