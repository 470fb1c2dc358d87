----------------------------- MODULE MCRecords -----------------------------
(***************************************************************************)
(* Journals as the program writes them, and what can become of them: cut   *)
(* anywhere, lines that are lost, repeated or change places, and fields    *)
(* that were edited or come from another program.                          *)
(***************************************************************************)
EXTENDS Records, FiniteSets

CONSTANTS
  Types,      \* the operations written
  LogTypes,   \* bound: those of journals of several operations
  Ids,        \* value identities
  Definitions,
  Texts,      \* bound: what fields are edited to
  MaxOps,     \* bound: operations
  MaxEdits,   \* bound: fields edited
  MaxDamage   \* bound: lines lost, repeated or changed

ASSUME RecordsAssumption == Types \subseteq OpTypes

VARIABLES
  definition,  \* of the execution
  written,  \* the operations written
  lines, tail,
  cut,      \* the program has died
  edits, damage
vars == <<definition, written, lines, tail, cut, edits, damage>>

MCTexts ==
  {TextOf("v"), TextOf("start"), NaturalOf(0), NaturalOf(1), Value("huge", 0), Value("boolean", TRUE), Value("boolean", FALSE),
   Value("null", 0), Value("other", 0), Value("path", 0), Value("payloads", {"v"}), Value("payloads", {}),
   Value("definition", "fed"), Value("definition", "plain"), Value("definition", "cyclic"),
   Value("definition", "dangling"), Value("definition", "vast")}

MCLogTypes == {"start", "taskInput", "settle"}

\* A machine in small: an execution starts first, and only then, with an input
\* where the definition takes one; a placement settles once; there is nothing
\* that is called "start".
MCAccepts(d, ops, op) ==
  /\ op.type[2] = "start" <=> ops = <<>>
  /\ op.type[2] = "start" => ("input" \in DOMAIN op <=> d = "fed")
  /\ op.type[2] = "settle" => \A n \in DOMAIN ops : ops[n].type[2] # "settle"
  /\ \A field \in DOMAIN op \ {"type"} : op[field] # TextOf("start")

\* One of the definitions has no lists. A judge without an input has no place in
\* a valid one.
MCMakes(d, ops, op) ==
  CASE op.type[2] = "judged" -> IF d \in Valid THEN {} ELSE {""}
    [] op.type[2] # "judged" /\ d = "plain" -> {}
    [] op.type[2] # "judged" /\ d # "plain" ->
         IF \E n \in DOMAIN ops : ops[n].type[2] = "taskInput" /\ "value" \in DOMAIN ops[n] THEN {"list"} ELSE {"empty"}

Held(field, id) ==
  CASE Holds[field] = "text" -> TextOf(id)
    [] Holds[field] = "path" -> Value("path", 0)
    [] Holds[field] = "boolean" -> Value("boolean", TRUE)
    [] Holds[field] = "index" -> NaturalOf(0)

\* The operations that the machine makes.
OperationsOf(type, id) ==
  {[field \in {"type"} \cup (opValueKeys(type) \ absent) |->
      IF field = "type" THEN TextOf(type) ELSE Held(field, id)] :
   absent \in SUBSET (opValueKeys(type) \cap {"input", "trigger", "value"})}
Operations == UNION {OperationsOf(type, id) : type \in Types, id \in Ids}
Legal(op) == op.type[2] \in {"returned", "yielded", "taskOutput"} => "value" \in DOMAIN op

\* The engine refuses what is oversized and, unless told not to, what is not valid.
Init ==
  /\ definition \in Definitions \ Oversized
  /\ written = <<>> /\ tail = <<>> /\ cut = FALSE /\ edits = 0 /\ damage = 0
  /\ lines \in {<<encodeHeader(Value("definition", definition), validated)>> :
                  validated \in {v \in BOOLEAN : v => definition \in Valid}}

Write(op) ==
  LET seq == 2 * Len(written) + 1 IN
  /\ ~cut /\ edits = 0 /\ damage = 0 /\ Legal(op)
  /\ Len(written) < MaxOps
  /\ Len(written) >= 2 => {written[n].type[2] : n \in DOMAIN written} \cup {op.type[2]} \subseteq LogTypes  \* bound
  /\ Accepts(definition, written, op)
  /\ written' = Append(written, op)
  /\ lines' = lines \o <<encodeOpRecord(seq, op, introduced(definition, written, op)), encodeCommit(seq + 1)>>
  /\ UNCHANGED <<definition, tail, cut, edits, damage>>

\* A crash leaves any beginning of the text: complete lines, and possibly the
\* next one without its newline.
Cut ==
  /\ ~cut
  /\ cut' = TRUE
  /\ \E n \in 0..Len(lines) :
       /\ lines' = SubSeq(lines, 1, n)
       /\ tail' \in {<<>>, SubSeq(lines, n + 1, IF n < Len(lines) THEN n + 1 ELSE n)}
  /\ UNCHANGED <<definition, written, edits, damage>>

Lose(n) == lines' = SubSeq(lines, 1, n - 1) \o SubSeq(lines, n + 1, Len(lines))
Repeat(n) == lines' = SubSeq(lines, 1, n) \o SubSeq(lines, n, Len(lines))
Swap(n) == n < Len(lines) /\ lines' = [lines EXCEPT ![n] = lines[n + 1], ![n + 1] = lines[n]]
Damage ==
  /\ damage < MaxDamage /\ edits = 0  \* bound
  /\ \A n \in DOMAIN written : written[n].type[2] \in LogTypes  \* bound
  /\ \E n \in DOMAIN lines : Lose(n) \/ Repeat(n) \/ Swap(n)
  /\ damage' = damage + 1
  /\ UNCHANGED <<definition, written, tail, cut, edits>>

\* One field of an object changes, comes or goes.
Changes(o, fields) ==
  {[f \in DOMAIN o \cup {field} |-> IF f = field THEN v ELSE o[f]] : field \in DOMAIN o \cup fields, v \in Texts}
  \cup {Restrict(o, DOMAIN o \ {field}) : field \in DOMAIN o}
LineFields == {"seq", "op", "commit", "values", "definition", "validated", "call"}
Edit ==
  /\ edits < MaxEdits /\ damage = 0 /\ Len(written) <= 2  \* bound
  /\ \E n \in DOMAIN lines :
       \/ \E line \in Changes(lines[n], LineFields) : lines' = [lines EXCEPT ![n] = line]
       \/ /\ "op" \in DOMAIN lines[n] /\ lines[n].op[1] = "op"
          /\ \E op \in Changes(lines[n].op[2], FieldNames) : lines' = [lines EXCEPT ![n].op = Value("op", op)]
  /\ edits' = edits + 1
  /\ UNCHANGED <<definition, written, tail, cut, damage>>

Next == (\E op \in Operations : Write(op)) \/ Cut \/ Damage \/ Edit
Spec == Init /\ [][Next]_vars

-----------------------------------------------------------------------------
(* Properties *)

Checked == checkTrace(lines, tail)
Log == parseRecordLog(lines, tail)
LogOps == [n \in DOMAIN Committed(recordTransitions(Log.records)) |->
             readOp(Committed(recordTransitions(Log.records))[n].record.op[2])]

\* The program refuses what it did not write: of what is lost, repeated, in
\* another order or cut off, it accepts nothing but a beginning of what was
\* written, with a payload for every value of the state then, the lists that the
\* machine makes included; and always that where the text was only cut
\* (trace.ts:229-294).
OnlyBeginnings ==
  /\ edits = 0 /\ Checked.ok =>
       /\ IsPrefix(Checked.ops, written)
       /\ Checked.values = stateValues(definition, Checked.ops)
  /\ edits = 0 /\ damage = 0 =>
       Checked.ok /\ 2 * Len(Checked.ops) \in {Len(lines), Len(lines) - 1, Len(lines) - 2}

\* An index beyond 2^53 - 1, a definition that refers to nothing: the program
\* reads these (the latter if it was never validated), the kit says no.
KitLess(line) ==
  \/ "definition" \in DOMAIN line /\ line.definition[2] \in Unreferenced
  \/ /\ "op" \in DOMAIN line /\ line.op[1] = "op"
     /\ \E field \in DOMAIN line.op[2] : line.op[2][field][1] = "huge"

\* What the kit leaves to the program: the limits of a definition, its types and
\* kinds, and what only a step of the machine tells of an operation.
HeaderUnchecked(line) ==
  line.definition[2] \in Oversized \/ (line.validated[2] /\ line.definition[2] \notin Valid)
StepUnchecked(d, ops, op, payloads) ==
  ~Accepts(d, ops, op) \/ payloads # introduced(d, ops, op)

\* Otherwise the kit refuses what the program refuses.
KitRefusesJournals ==
  Log.ok /\ ~Checked.ok =>
    \/ HeaderUnchecked(Log.header[1])
    \/ \E n \in DOMAIN LogOps :
         StepUnchecked(Log.header[1].definition[2], SubSeq(LogOps, 1, n - 1), LogOps[n],
                       Payloads(Committed(recordTransitions(Log.records))[n].record))

\* What the kit has payloads for, up to an operation, are the values of the state
\* then (records.test.ts:106); those that the operation does not name are made
\* by the machine (records.ts:29-36, values.ts:8-12).
ValuesNamed ==
  edits = 0 /\ Log.ok =>
    \A n \in DOMAIN LogOps :
      LET transitions == Committed(recordTransitions(Log.records))
      IN  /\ recordValues(SubSeq(transitions, 1, n)) = stateValues(definition, SubSeq(LogOps, 1, n))
          /\ Payloads(transitions[n].record) \subseteq opValues(LogOps[n]) \/ LogOps[n].type[2] \in Making

\* The kit shows every journal that the program reads, with the same header,
\* committed operations and payloads (parse.ts:396-507, records.ts:8-36), and
\* none that the program refuses for the form of its lines.
KitShowsJournals ==
  /\ Checked.ok /\ (\A n \in DOMAIN lines : ~KitLess(lines[n])) =>
       /\ Log.ok
       /\ Log.header = Checked.header
       /\ LogOps = Checked.ops
       /\ recordValues(recordTransitions(Log.records)) = Checked.values
  /\ KitRefusesJournals
  /\ ValuesNamed
=============================================================================
