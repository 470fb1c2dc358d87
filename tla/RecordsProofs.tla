--------------------------- MODULE RecordsProofs ----------------------------
(***************************************************************************)
(* Journals: the program accepts only beginnings of what it wrote          *)
(* (OnlyBeginnings), and the kit shows what the program reads and little   *)
(* else (KitShowsJournals); for all definitions, operations, identities    *)
(* and texts, whatever the machine accepts and makes of the operations,    *)
(* and for any number of lines, losses and edits.                          *)
(*                                                                         *)
(* The invariant IInv says what the lines are: the program's own as long   *)
(* as no field was edited, in place and complete as long as nothing was    *)
(* lost either.                                                            *)
(*                                                                         *)
(* What a reader makes of the lines is a table over them, which is counted *)
(* up (ChecksExist, LogsExist), and a claim about all lines is proved of   *)
(* the least one for which it would fail (LeastNatural). After n lines of  *)
(* its own the program has read an operation for each commit (DoneAfter),  *)
(* or one more that waits for its commit (Waiting), or it has refused: the *)
(* numbers of the records leave it no other choice. The kit stays with it  *)
(* line by line (Together): both have the same operations, or the program  *)
(* has refused what the kit leaves to it: the definition, or at a commit   *)
(* an operation that a step does not accept with these payloads (Differ).  *)
(***************************************************************************)
EXTENDS MCRecords, WellFoundedInduction, TLAPS

\* A set of natural numbers that is not empty has a least element.
LEMMA LeastNatural ==
  ASSUME NEW T, T \subseteq Nat, T # {}
  PROVE  \E n \in T : \A m \in T : n <= m
<1>1. PICK R : R = OpToRel(<, Nat)
  OBVIOUS
<1>2. \A x, y \in Nat : x < y => <<x, y>> \in R
  BY <1>1 DEF OpToRel
<1>3. IsWellFoundedOn(R, Nat)
  BY <1>1, NatLessThanWellFounded
<1>4. PICK x \in T : \A y \in T : ~(<<y, x>> \in R)
  BY <1>3, WFMin
<1>5. ASSUME NEW m \in T
      PROVE  x <= m
  <2>1. ~(m < x)
    BY <1>2, <1>4
  <2> QED
    BY <2>1
<1> QED
  BY <1>5

\* What the program makes of the lines up to each of them.
IsChecks(f, s) ==
  f = [n \in 0..Len(s) |-> IF n = 0 THEN Unread ELSE CheckLine(f[n - 1], s[n])]

\* This can be counted up.
LEMMA ChecksExist ==
  ASSUME NEW S, NEW s \in Seq(S)
  PROVE  \E f : IsChecks(f, s)
<1> DEFINE Upto(n, f) == f = [m \in 0..n |-> IF m = 0 THEN Unread ELSE CheckLine(f[m - 1], s[m])]
           Bad == {n \in Nat : ~\E f : Upto(n, f)}
<1>1. Upto(0, [m \in 0..0 |-> Unread])
  OBVIOUS
<1>2. ASSUME NEW n \in Nat, NEW f, Upto(n, f)
      PROVE  \E g : Upto(n + 1, g)
  <2> DEFINE g == [m \in 0..n + 1 |-> IF m = n + 1 THEN CheckLine(f[n], s[n + 1]) ELSE f[m]]
  <2>1. \A m \in 0..n : f[m] = IF m = 0 THEN Unread ELSE CheckLine(f[m - 1], s[m])
    BY <1>2
  <2>2. g[n + 1] = CheckLine(g[n], s[n + 1])
    OBVIOUS
  <2>3. ASSUME NEW m \in 0..n
        PROVE  g[m] = IF m = 0 THEN Unread ELSE CheckLine(g[m - 1], s[m])
    BY <2>1
  <2>4. g = [m \in 0..n + 1 |-> g[m]]
    OBVIOUS
  <2> HIDE DEF g
  <2>5. ASSUME NEW m \in 0..n + 1
        PROVE  g[m] = IF m = 0 THEN Unread ELSE CheckLine(g[m - 1], s[m])
    <3>1. CASE m \in 0..n
      BY <2>3, <3>1
    <3>2. CASE m = n + 1
      BY <2>2, <3>2
    <3> QED
      BY <3>1, <3>2
  <2>6. Upto(n + 1, g)
    BY <2>4, <2>5
  <2> QED
    BY <2>6
<1> HIDE DEF Upto
<1>3. Bad = {}
  <2> SUFFICES ASSUME Bad # {} PROVE FALSE
    OBVIOUS
  <2>1. PICK n \in Bad : \A m \in Bad : n <= m
    BY LeastNatural
  <2>2. n # 0
    BY <1>1, <2>1
  <2>3. n - 1 \in Nat /\ n - 1 \notin Bad
    BY <2>1, <2>2
  <2> QED
    BY <1>2, <2>1, <2>3
<1>4. Len(s) \in Nat
  OBVIOUS
<1>5. PICK f : Upto(Len(s), f)
  BY <1>3, <1>4
<1> QED
  BY <1>5 DEF Upto, IsChecks

\* So checkTrace is what the last line makes of what the ones before it made.
LEMMA ChecksAre ==
  ASSUME NEW S, NEW s \in Seq(S), NEW t
  PROVE  \E f : /\ f[0] = Unread
                /\ \A n \in 1..Len(s) : f[n] = CheckLine(f[n - 1], s[n])
                /\ checkTrace(s, t) = f[Len(s)]
<1> DEFINE f == CHOOSE f : IsChecks(f, s)
<1>1. IsChecks(f, s)
  BY ChecksExist
<1>2. checkTrace(s, t) = f[Len(s)]
  BY DEF checkTrace, IsChecks
<1> HIDE DEF f
<1>3. \A n \in 0..Len(s) : f[n] = IF n = 0 THEN Unread ELSE CheckLine(f[n - 1], s[n])
  BY <1>1 DEF IsChecks
<1> QED
  BY <1>2, <1>3

-----------------------------------------------------------------------------
(* Lines as the program writes them *)

\* What is written of an operation is what both readers ask for.
LEMMA KeysAgree ==
  ASSUME NEW type \in OpTypes
  PROVE  /\ opFields(type) = readKeys(type)
         /\ opValueKeys(type) = readKeys(type).required \cup readKeys(type).optional
         /\ opValueKeys(type) \subseteq FieldNames
         /\ readKeys(type).optional \subseteq {"input", "trigger", "value"}
         /\ readKeys(type).required \cap {"input", "trigger"} = {}
         /\ "value" \in readKeys(type).required => type \in {"returned", "yielded", "taskOutput"}
         /\ "type" \notin opValueKeys(type)
<1> USE DEF opFields, readKeys, opValueKeys, Keys, call1, taskKeys, CallOps, FieldNames, Holds
<1>1. CASE type \in CallOps
  BY <1>1
<1>2. CASE type = "start"
  BY <1>2
<1>3. CASE type = "invoke"
  BY <1>3
<1>4. CASE type \in {"returned", "yielded"}
  BY <1>4
<1>5. CASE type = "judged"
  BY <1>5
<1>6. CASE type = "timedOut"
  BY <1>6
<1>7. CASE type = "deliver"
  BY <1>7
<1>8. CASE type = "transformFailed"
  BY <1>8
<1>9. CASE type = "taskInput"
  BY <1>9
<1>10. CASE type \in {"taskInputFailed", "beginTask"}
  BY <1>10
<1>11. CASE type = "taskOutput"
  BY <1>11
<1>12. CASE type = "taskOutputFailed"
  BY <1>12
<1>13. CASE type = "settle"
  BY <1>13
<1>14. CASE type = "closeExecution"
  BY <1>14
<1>15. CASE type = "closeRun"
  BY <1>15
<1>16. CASE type \in {"cancel", "conclude"}
  BY <1>16
<1> QED
  BY <1>1, <1>2, <1>3, <1>4, <1>5, <1>6, <1>7, <1>8, <1>9, <1>10, <1>11, <1>12, <1>13, <1>14, <1>15, <1>16
     DEF OpTypes

\* The operations that are written: those that the machine makes.
LegalOps == {op \in Operations : Legal(op)}

\* An operation that is written has the fields of its type, each with what it
\* holds.
LEMMA OperationsHold ==
  ASSUME NEW op \in LegalOps
  PROVE  \E type \in OpTypes, id \in Ids :
           /\ op = [field \in DOMAIN op |-> op[field]]
           /\ DOMAIN op \subseteq {"type"} \cup opValueKeys(type)
           /\ {"type"} \cup readKeys(type).required \subseteq DOMAIN op
           /\ op.type = TextOf(type)
           /\ \A field \in DOMAIN op \ {"type"} : op[field] = Held(field, id)
<1>1. PICK type \in Types, id \in Ids : op \in OperationsOf(type, id)
  BY DEF LegalOps, Operations
<1>2. type \in OpTypes
  BY RecordsAssumption
<1>3. PICK absent \in SUBSET (opValueKeys(type) \cap {"input", "trigger", "value"}) :
        op = [field \in {"type"} \cup (opValueKeys(type) \ absent) |->
                IF field = "type" THEN TextOf(type) ELSE Held(field, id)]
  BY <1>1 DEF OperationsOf
<1>4. op.type = TextOf(type) /\ op.type[2] = type
  BY <1>3 DEF TextOf, Value
<1>5. Legal(op)
  BY DEF LegalOps
<1>6. type \in {"returned", "yielded", "taskOutput"} => "value" \in DOMAIN op
  BY <1>4, <1>5 DEF Legal
<1>7. \A field \in readKeys(type).required : field \in DOMAIN op
  <2> SUFFICES ASSUME NEW field \in readKeys(type).required, field \notin DOMAIN op
               PROVE  FALSE
    OBVIOUS
  <2>1. field \in opValueKeys(type) /\ field \in absent
    BY <1>2, <1>3, KeysAgree
  <2>2. field = "value"
    BY <1>2, <2>1, KeysAgree
  <2> QED
    BY <1>2, <1>6, <2>2, KeysAgree
<1>8. /\ op = [field \in DOMAIN op |-> op[field]]
      /\ DOMAIN op \subseteq {"type"} \cup opValueKeys(type)
      /\ "type" \in DOMAIN op
      /\ \A field \in DOMAIN op \ {"type"} : op[field] = Held(field, id)
  BY <1>3
<1> QED
  BY <1>2, <1>4, <1>7, <1>8

\* What a field is written with has the kind that both readers ask of it.
LEMMA HeldReads ==
  ASSUME NEW field \in FieldNames, NEW id
  PROVE  /\ FieldReads(field, Held(field, id))
         /\ KitFieldReads(field, Held(field, id))
         /\ Held(field, id)[1] # "huge"
         /\ field \in {"input", "value"} => Held(field, id) = TextOf(id)
<1> USE DEF FieldNames, Holds, FieldReads, KitFieldReads, Held, TextOf, NaturalOf, Value
<1>1. CASE Holds[field] = "text"
  BY <1>1
<1>2. CASE Holds[field] = "path"
  BY <1>2
<1>3. CASE Holds[field] = "boolean"
  BY <1>3
<1>4. CASE Holds[field] = "index"
  BY <1>4
<1> QED
  BY <1>1, <1>2, <1>3, <1>4

\* It is read as it was written.
LEMMA OperationsRead ==
  ASSUME NEW op \in LegalOps
  PROVE  opValue(op) = op /\ readOp(op) = op /\ ReadsOp(op)
<1>1. PICK type \in OpTypes, id \in Ids :
        /\ op = [field \in DOMAIN op |-> op[field]]
        /\ DOMAIN op \subseteq {"type"} \cup opValueKeys(type)
        /\ {"type"} \cup readKeys(type).required \subseteq DOMAIN op
        /\ op.type = TextOf(type)
        /\ \A field \in DOMAIN op \ {"type"} : op[field] = Held(field, id)
  BY OperationsHold
<1>2. op.type[1] = "text" /\ op.type[2] = type
  BY <1>1 DEF TextOf, Value
<1>3. \A field \in DOMAIN op \ {"type"} : field \in FieldNames
  BY <1>1, KeysAgree
<1>4. opValue(op) = op
  BY <1>1, <1>2 DEF opValue, Restrict
<1>5. \A field \in DOMAIN op : op[field][1] # "huge"
  BY <1>1, <1>2, <1>3, HeldReads
<1>6. readOp(op) = op
  BY <1>1, <1>5 DEF readOp
<1>7. ReadsOp(op)
  BY <1>1, <1>2, <1>3, HeldReads, KeysAgree DEF ReadsOp, Fields
<1> QED
  BY <1>4, <1>6, <1>7

\* The values that it names are all that the kit says it refers to.
LEMMA NamesAreValues ==
  ASSUME NEW op \in LegalOps
  PROVE  Names(op) = opValues(op)
<1>1. PICK type \in OpTypes, id \in Ids :
        /\ DOMAIN op \subseteq {"type"} \cup opValueKeys(type)
        /\ op.type = TextOf(type)
  BY OperationsHold
<1>2. op.type[2] = type
  BY <1>1 DEF TextOf, Value
<1> USE DEF Names, opValues
<1>3. CASE type = "start"
  <2>1. "value" \notin DOMAIN op
    BY <1>1, <1>3 DEF opValueKeys, CallOps
  <2> QED
    BY <1>2, <1>3, <2>1
<1>4. CASE type \in {"returned", "yielded", "taskOutput", "deliver", "taskInput"}
  <2>1. "input" \notin DOMAIN op
    BY <1>1, <1>4 DEF opValueKeys, CallOps
  <2> QED
    BY <1>2, <1>4, <2>1
<1>5. CASE type \notin {"start", "returned", "yielded", "taskOutput", "deliver", "taskInput"}
  <2>1. opValueKeys(type) \cap {"input", "value"} = {}
    BY <1>5 DEF opValueKeys, CallOps, OpTypes
  <2>2. DOMAIN op \cap {"input", "value"} = {}
    BY <1>1, <2>1
  <2> QED
    BY <1>2, <1>5, <2>2
<1> QED
  BY <1>3, <1>4, <1>5

\* What the state has after an operation is what it had and what the operation
\* brought, which it names or which the machine makes.
LEMMA StateGrows ==
  ASSUME NEW S, NEW ops \in Seq(S), NEW op, NEW d
  PROVE  /\ stateValues(d, ops) \cup introduced(d, ops, op) = stateValues(d, Append(ops, op))
         /\ introduced(d, ops, op) \subseteq Names(op) \cup Made(d, ops, op)
<1> DEFINE brought(n) == Names(ops[n]) \cup Made(d, SubSeq(ops, 1, n - 1), ops[n])
           after == Append(ops, op)
           brings(n) == Names(after[n]) \cup Made(d, SubSeq(after, 1, n - 1), after[n])
<1>1. PICK k \in Nat : k = Len(ops) /\ DOMAIN ops = 1..k
  OBVIOUS
<1>2. /\ after \in Seq(S \cup {op}) /\ DOMAIN after = 1..k + 1 /\ after[k + 1] = op
      /\ \A n \in 1..k : after[n] = ops[n]
  <2>1. ops \in Seq(S \cup {op})
    OBVIOUS
  <2> QED
    BY <1>1, <2>1
<1>3. \A n \in 1..k + 1 : SubSeq(after, 1, n - 1) = SubSeq(ops, 1, n - 1)
  <2> SUFFICES ASSUME NEW n \in 1..k + 1 PROVE SubSeq(after, 1, n - 1) = SubSeq(ops, 1, n - 1)
    OBVIOUS
  <2>1. ops \in Seq(S \cup {op}) /\ Len(after) = k + 1
    BY <1>1
  <2> HIDE DEF after
  <2>2. \A m \in 1..n - 1 : after[m] = ops[m]
    BY <1>1, <1>2
  <2> QED
    BY <1>1, <1>2, <2>1, <2>2
<1>4. SubSeq(ops, 1, k) = ops
  BY <1>1
<1> HIDE DEF after
<1>5. ASSUME NEW n \in 1..k
      PROVE  brings(n) = brought(n)
  <2>1. after[n] = ops[n]
    BY <1>2
  <2>2. SubSeq(after, 1, n - 1) = SubSeq(ops, 1, n - 1)
    BY <1>1, <1>3
  <2> QED
    BY <2>1, <2>2, Zenon
<1>6. brings(k + 1) = Names(op) \cup Made(d, ops, op)
  <2>1. after[k + 1] = op
    BY <1>2
  <2>2. SubSeq(after, 1, (k + 1) - 1) = ops
    <3>1. (k + 1) - 1 = k /\ k + 1 \in 1..k + 1
      BY <1>1
    <3>2. SubSeq(after, 1, (k + 1) - 1) = SubSeq(ops, 1, (k + 1) - 1)
      BY <1>3, <3>1
    <3> QED
      BY <1>4, <3>1, <3>2
  <2> QED
    BY <2>1, <2>2, Zenon
<1>7. stateValues(d, ops) = UNION {brought(n) : n \in 1..k}
  BY <1>1 DEF stateValues
<1>8. stateValues(d, after) = UNION {brings(n) : n \in 1..k + 1}
  BY <1>2 DEF stateValues
<1> HIDE DEF brought, brings
<1>9. 1..k + 1 = (1..k) \cup {k + 1}
  BY <1>1
<1>10. stateValues(d, after) = stateValues(d, ops) \cup Names(op) \cup Made(d, ops, op)
  BY <1>5, <1>6, <1>7, <1>8, <1>9
<1>11. introduced(d, ops, op) = stateValues(d, after) \ stateValues(d, ops)
  BY DEF introduced, after
<1> QED
  BY <1>10, <1>11 DEF after

\* Before anything was done there are none.
LEMMA NoneAtFirst ==
  ASSUME NEW d
  PROVE  stateValues(d, <<>>) = {}
<1>1. DOMAIN <<>> = {}
  OBVIOUS
<1> QED
  BY <1>1 DEF stateValues

\* The values of the state after the first operations.
ValuesAt(k) == stateValues(definition, SubSeq(written, 1, k))

\* What the operations bring, with its payloads.
Brought(k) == introduced(definition, SubSeq(written, 1, k - 1), written[k])

\* Whether the definition was validated: only if it is valid.
Flags == {v \in BOOLEAN : v => definition \in Valid}

\* The lines of a journal: its header, an operation and its commit.
HeaderLine(validated) == encodeHeader(Value("definition", definition), validated)
OperationLine(k) == encodeOpRecord(2 * k - 1, written[k], Brought(k))
CommitLine(k) == encodeCommit(2 * k)

\* The definition is one that the engine takes, and the machine has accepted each
\* operation.
Admitted ==
  /\ definition \notin Oversized
  /\ \A k \in 1..Len(written) : Accepts(definition, SubSeq(written, 1, k - 1), written[k])

\* A header is read as one, and by neither as a record.
LEMMA HeadersRead ==
  ASSUME NEW v \in Flags
  PROVE  /\ Admitted => ReadsHeader(HeaderLine(v))
         /\ ~ReadsRecord(HeaderLine(v)) /\ ~KitRecord(HeaderLine(v))
         /\ HeaderLine(v).definition[2] = definition
BY DEF HeaderLine, encodeHeader, ReadsHeader, ReadsRecord, KitRecord, Value, Flags, Admitted

\* So is a commit.
LEMMA CommitsRead ==
  ASSUME NEW k \in Nat \ {0}
  PROVE  /\ ReadsRecord(CommitLine(k)) /\ IsCommit(CommitLine(k)) /\ ~ReadsHeader(CommitLine(k))
         /\ ~KitHeader(CommitLine(k)) /\ "commit" \in DOMAIN CommitLine(k)
         /\ CommitLine(k).seq = NaturalOf(2 * k)
BY DEF CommitLine, encodeCommit, ReadsRecord, ReadsHeader, KitHeader, IsCommit, Fields, NaturalOf, Value

\* And the line of an operation, which has its payloads.
LEMMA OperationLinesRead ==
  ASSUME written \in Seq(LegalOps), NEW k \in 1..Len(written)
  PROVE  LET line == OperationLine(k)
         IN  /\ ReadsRecord(line) /\ ~IsCommit(line) /\ ~ReadsHeader(line) /\ ~KitHeader(line)
             /\ "commit" \notin DOMAIN line
             /\ line.seq = NaturalOf(2 * k - 1)
             /\ line.op[2] = written[k] /\ readOp(line.op[2]) = written[k]
             /\ Payloads(line) = Brought(k)
<1> DEFINE line == OperationLine(k)
           payloads == Brought(k)
<1>1. written[k] \in LegalOps
  OBVIOUS
<1>2. opValue(written[k]) = written[k] /\ readOp(written[k]) = written[k] /\ ReadsOp(written[k])
  BY <1>1, OperationsRead
<1>3. /\ DOMAIN line = IF payloads = {} THEN {"seq", "op"} ELSE {"seq", "op", "values"}
      /\ line.seq = NaturalOf(2 * k - 1)
      /\ line.op = Value("op", written[k])
      /\ payloads # {} => line.values = Value("payloads", payloads)
  <2>1. CASE payloads = {}
    BY <1>2, <2>1 DEF OperationLine, encodeOpRecord
  <2>2. CASE payloads # {}
    BY <1>2, <2>2 DEF OperationLine, encodeOpRecord
  <2> QED
    BY <2>1, <2>2
<1> HIDE DEF line, payloads
<1>4. line.op[1] = "op" /\ line.op[2] = written[k]
  BY <1>3 DEF Value
<1>5. Payloads(line) = payloads
  BY <1>3 DEF Payloads, Value
<1>6. "values" \in DOMAIN line => line.values[1] = "payloads"
  BY <1>3 DEF Value
<1>7. line.seq[1] \in {"natural", "huge"}
  BY <1>3 DEF NaturalOf, Value
<1>8. "seq" \in DOMAIN line /\ "op" \in DOMAIN line /\ DOMAIN line \subseteq {"seq", "op", "values"}
  BY <1>3
<1>9. ~IsCommit(line) /\ ~ReadsHeader(line) /\ ~KitHeader(line) /\ "commit" \notin DOMAIN line
  BY <1>8 DEF IsCommit, ReadsHeader, KitHeader
<1>10. ReadsRecord(line)
  BY <1>2, <1>4, <1>6, <1>7, <1>8 DEF ReadsRecord, Fields
<1> QED
  BY <1>2, <1>3, <1>4, <1>5, <1>9, <1>10 DEF line, payloads

-----------------------------------------------------------------------------
(* What the program takes a line for *)

\* The state of the reader after a header.
Reading(h, next, pending, ops, values) ==
  [ok |-> TRUE, header |-> <<h>>, next |-> next, pending |-> pending, ops |-> ops, values |-> values]

\* What CheckLine makes of a state, for a header, an operation and a commit.
Begun(r, h) == [r EXCEPT !.header = <<h>>]
Taken(r, pending, next) == [r EXCEPT !.pending = pending, !.next = next]
Stepped(r, ops, next, values) ==
  [r EXCEPT !.pending = <<>>, !.ops = ops, !.next = next, !.values = values]

\* Two records with the same fields are the same.
LEMMA SameFields ==
  ASSUME NEW S, NEW f, NEW g, f = [x \in S |-> f[x]], g = [x \in S |-> g[x]], \A x \in S : f[x] = g[x]
  PROVE  f = g
OBVIOUS

\* How these states change, field by field.
LEMMA TakenIsReading ==
  ASSUME NEW h, NEW n, NEW m, NEW p, NEW q, NEW ops, NEW values
  PROVE  Taken(Reading(h, n, p, ops, values), q, m) = Reading(h, m, q, ops, values)
<1> DEFINE before == Reading(h, n, p, ops, values)
           after == Reading(h, m, q, ops, values)
           taken == Taken(before, q, m)
           Fields6 == {"ok", "header", "next", "pending", "ops", "values"}
<1>1. before = [x \in Fields6 |-> before[x]] /\ after = [x \in Fields6 |-> after[x]]
  BY DEF Reading
<1>2. /\ after.ok = before.ok /\ after.header = before.header /\ after.ops = before.ops
      /\ after.values = before.values /\ after.next = m /\ after.pending = q
  BY DEF Reading
<1> HIDE DEF before, after
<1>3. taken = [x \in Fields6 |-> taken[x]]
  BY <1>1 DEF Taken
<1>4. \A x \in Fields6 : taken[x] = after[x]
  BY <1>1, <1>2 DEF Taken
<1> HIDE DEF taken, Fields6
<1>5. taken = after
  BY <1>1, <1>3, <1>4, SameFields
<1> QED
  BY <1>5 DEF before, after, taken

\* The same for a commit.
LEMMA SteppedIsReading ==
  ASSUME NEW h, NEW n, NEW m, NEW p, NEW ops, NEW values, NEW ops2, NEW values2
  PROVE  Stepped(Reading(h, n, p, ops, values), ops2, m, values2) = Reading(h, m, <<>>, ops2, values2)
<1> DEFINE before == Reading(h, n, p, ops, values)
           after == Reading(h, m, <<>>, ops2, values2)
           stepped == Stepped(before, ops2, m, values2)
           Fields6 == {"ok", "header", "next", "pending", "ops", "values"}
<1>1. before = [x \in Fields6 |-> before[x]] /\ after = [x \in Fields6 |-> after[x]]
  BY DEF Reading
<1>2. /\ after.ok = before.ok /\ after.header = before.header /\ after.ops = ops2
      /\ after.values = values2 /\ after.next = m /\ after.pending = <<>>
  BY DEF Reading
<1> HIDE DEF before, after
<1>3. stepped = [x \in Fields6 |-> stepped[x]]
  BY <1>1 DEF Stepped
<1>4. \A x \in Fields6 : stepped[x] = after[x]
  BY <1>1, <1>2 DEF Stepped
<1> HIDE DEF stepped, Fields6
<1>5. stepped = after
  BY <1>1, <1>3, <1>4, SameFields
<1> QED
  BY <1>5 DEF before, after, stepped

\* And for the header.
LEMMA BegunIsReading ==
  ASSUME NEW h
  PROVE  Begun(Unread, h) = Reading(h, 1, <<>>, <<>>, {})
<1> DEFINE r == Begun(Unread, h)
           after == Reading(h, 1, <<>>, <<>>, {})
           Fields6 == {"ok", "header", "next", "pending", "ops", "values"}
<1>1. r = [x \in Fields6 |-> r[x]] /\ after = [x \in Fields6 |-> after[x]]
  BY DEF Begun, Unread, Reading
<1>2. r.ok = TRUE /\ r.header = <<h>> /\ r.next = 1 /\ r.pending = <<>> /\ r.ops = <<>> /\ r.values = {}
  BY DEF Begun, Unread
<1>3. /\ after.ok = TRUE /\ after.header = <<h>> /\ after.next = 1 /\ after.pending = <<>>
      /\ after.ops = <<>> /\ after.values = {}
  BY DEF Reading
<1> HIDE DEF r, after
<1>4. \A x \in Fields6 : r[x] = after[x]
  BY <1>2, <1>3
<1> HIDE DEF Fields6
<1>5. r = after
  BY <1>1, <1>4, SameFields
<1> QED
  BY <1>5 DEF r, after

\* So the reader goes from one of these states to the next, or refuses.
LEMMA OperationIsTaken ==
  ASSUME NEW h, NEW n, NEW ops, NEW values, NEW line
  PROVE  CheckLine(Reading(h, n, <<>>, ops, values), line)
           = IF ReadsRecord(line) /\ line.seq = NaturalOf(n) /\ ~IsCommit(line)
             THEN Reading(h, n + 1, <<line>>, ops, values) ELSE Refused
<1> DEFINE c == Reading(h, n, <<>>, ops, values)
<1>1. c.ok /\ c.header = <<h>> /\ c.header # <<>> /\ c.pending = <<>> /\ c.next = n
  BY DEF Reading
<1>2. ~Steps(c, readOp(c.pending[1].op[2]))
  BY <1>1 DEF Steps
<1>3. CASE ReadsRecord(line) /\ line.seq = NaturalOf(n) /\ ~IsCommit(line)
  <2>1. CheckLine(c, line) = Taken(c, <<line>>, c.next + 1)
    BY <1>1, <1>3 DEF CheckLine, Follows, Taken
  <2>2. Taken(c, <<line>>, n + 1) = Reading(h, n + 1, <<line>>, ops, values)
    BY TakenIsReading
  <2> QED
    BY <1>1, <1>3, <2>1, <2>2
<1>4. CASE ~(ReadsRecord(line) /\ line.seq = NaturalOf(n) /\ ~IsCommit(line))
  <2>1. ~(Follows(c, line) /\ ~IsCommit(line))
    BY <1>1, <1>4 DEF Follows
  <2>2. CheckLine(c, line) = Refused
    BY <1>1, <1>2, <2>1 DEF CheckLine
  <2> QED
    BY <1>4, <2>2
<1> QED
  BY <1>3, <1>4

\* A commit is taken if the operation before it is accepted, with its payloads.
Commits(h, n, pending, ops, line) ==
  /\ ReadsRecord(line) /\ line.seq = NaturalOf(n) /\ IsCommit(line)
  /\ ~StepUnchecked(h.definition[2], ops, readOp(pending.op[2]), Payloads(pending))

\* Taken it is only then: a commit without all payloads is refused.
LEMMA CommitIsTaken ==
  ASSUME NEW h, NEW n, NEW pending, NEW ops, NEW values, NEW line
  PROVE  CheckLine(Reading(h, n, <<pending>>, ops, values), line)
           = IF Commits(h, n, pending, ops, line)
             THEN Reading(h, n + 1, <<>>, Append(ops, readOp(pending.op[2])), values \cup Payloads(pending))
             ELSE Refused
<1> DEFINE c == Reading(h, n, <<pending>>, ops, values)
           op == readOp(pending.op[2])
           after == Reading(h, n + 1, <<>>, Append(ops, op), values \cup Payloads(pending))
<1>1. /\ c.ok /\ c.header = <<h>> /\ c.header # <<>> /\ c.header[1] = h
      /\ c.pending # <<>> /\ c.pending[1] = pending /\ c.next = n /\ c.ops = ops /\ c.values = values
  BY DEF Reading
<1>2. Steps(c, readOp(c.pending[1].op[2])) <=> ~StepUnchecked(h.definition[2], ops, op, Payloads(pending))
  BY <1>1 DEF Steps, StepUnchecked
<1>3. CASE Commits(h, n, pending, ops, line)
  <2>1. CheckLine(c, line) = Stepped(c, Append(c.ops, op), c.next + 1, c.values \cup Payloads(pending))
    BY <1>1, <1>2, <1>3 DEF CheckLine, Follows, Stepped, Commits
  <2>2. CheckLine(c, line) = Stepped(c, Append(ops, op), n + 1, values \cup Payloads(pending))
    BY <1>1, <2>1
  <2>3. CheckLine(c, line) = after
    BY <2>2, SteppedIsReading
  <2> QED
    BY <1>3, <2>3
<1>4. CASE ~Commits(h, n, pending, ops, line)
  <2>1. ~(Follows(c, line) /\ IsCommit(line) /\ Steps(c, readOp(c.pending[1].op[2])))
    BY <1>1, <1>2, <1>4 DEF Follows, Commits
  <2>2. CheckLine(c, line) = Refused
    BY <1>1, <2>1 DEF CheckLine
  <2> QED
    BY <1>4, <2>2
<1> QED
  BY <1>3, <1>4

\* Before, it takes a header.
LEMMA HeaderIsTaken ==
  ASSUME NEW line
  PROVE  CheckLine(Unread, line) = IF ReadsHeader(line) THEN Reading(line, 1, <<>>, <<>>, {}) ELSE Refused
<1>1. CheckLine(Unread, line) = IF ReadsHeader(line) THEN Begun(Unread, line) ELSE Refused
  BY DEF CheckLine, Follows, Unread, Begun
<1> QED
  BY <1>1, BegunIsReading

\* What has been refused stays refused.
LEMMA RefusedStays ==
  ASSUME NEW line
  PROVE  CheckLine(Refused, line) = Refused
BY DEF CheckLine, Follows, Refused, Unread

\* The states after k operations and their commits, and after the operation
\* that follows them.
DoneAfter(v, k) == Reading(HeaderLine(v), 2 * k + 1, <<>>, SubSeq(written, 1, k), ValuesAt(k))
Waiting(v, k) ==
  Reading(HeaderLine(v), 2 * k + 2, <<OperationLine(k + 1)>>, SubSeq(written, 1, k), ValuesAt(k))

\* A line that the program wrote, wherever it is.
FromProgram(line) ==
  \/ \E v \in Flags : line = HeaderLine(v)
  \/ \E k \in 1..Len(written) : line = OperationLine(k) \/ line = CommitLine(k)

\* Numbers are told apart.
LEMMA NumbersDiffer ==
  ASSUME NEW m, NEW n, NaturalOf(m) = NaturalOf(n)
  PROVE  m = n
BY DEF NaturalOf, Value

\* Reading begins with a header.
LEMMA HeaderIsFirst ==
  ASSUME written \in Seq(LegalOps), Admitted, NEW line, FromProgram(line)
  PROVE  /\ \A v \in Flags : line = HeaderLine(v) => CheckLine(Unread, line) = DoneAfter(v, 0)
         /\ (\A v \in Flags : line # HeaderLine(v)) => CheckLine(Unread, line) = Refused
<1>1. SubSeq(written, 1, 0) = <<>> /\ ValuesAt(0) = {}
  <2>1. SubSeq(written, 1, 0) = <<>>
    OBVIOUS
  <2> QED
    BY <2>1, NoneAtFirst DEF ValuesAt
<1>2. \A v \in Flags : DoneAfter(v, 0) = Reading(HeaderLine(v), 1, <<>>, <<>>, {})
  <2> SUFFICES ASSUME NEW v \in Flags PROVE DoneAfter(v, 0) = Reading(HeaderLine(v), 1, <<>>, <<>>, {})
    OBVIOUS
  <2>1. DoneAfter(v, 0) = Reading(HeaderLine(v), 2 * 0 + 1, <<>>, SubSeq(written, 1, 0), ValuesAt(0))
    BY DEF DoneAfter
  <2>2. 2 * 0 + 1 = 1
    OBVIOUS
  <2> QED
    BY <1>1, <2>1, <2>2
<1>3. \A k \in 1..Len(written) : ~ReadsHeader(OperationLine(k)) /\ ~ReadsHeader(CommitLine(k))
  BY OperationLinesRead, CommitsRead
<1>4. ReadsHeader(line) <=> \E v \in Flags : line = HeaderLine(v)
  BY <1>3, HeadersRead DEF FromProgram
<1> QED
  BY <1>2, <1>4, HeaderIsTaken

\* After its operations only the next one is taken.
LEMMA OperationIsNext ==
  ASSUME written \in Seq(LegalOps), NEW line, FromProgram(line), NEW v \in Flags, NEW k \in 0..Len(written)
  PROVE  IF k < Len(written) /\ line = OperationLine(k + 1)
         THEN CheckLine(DoneAfter(v, k), line) = Waiting(v, k)
         ELSE CheckLine(DoneAfter(v, k), line) = Refused
<1>1. CASE k < Len(written) /\ line = OperationLine(k + 1)
  <2>1. k + 1 \in 1..Len(written) /\ 2 * (k + 1) - 1 = 2 * k + 1 /\ (2 * k + 1) + 1 = 2 * k + 2
    BY <1>1
  <2>2. ReadsRecord(line) /\ ~IsCommit(line) /\ line.seq = NaturalOf(2 * k + 1)
    BY <1>1, <2>1, OperationLinesRead
  <2>3. CheckLine(DoneAfter(v, k), line)
          = Reading(HeaderLine(v), (2 * k + 1) + 1, <<line>>, SubSeq(written, 1, k), ValuesAt(k))
    BY <2>2, OperationIsTaken DEF DoneAfter
  <2> QED
    BY <1>1, <2>1, <2>3 DEF Waiting
<1>2. CASE ~(k < Len(written) /\ line = OperationLine(k + 1))
  <2>1. ~(ReadsRecord(line) /\ line.seq = NaturalOf(2 * k + 1) /\ ~IsCommit(line))
    <3>1. ASSUME NEW w \in Flags, line = HeaderLine(w)
          PROVE  ~ReadsRecord(line)
      BY <3>1, HeadersRead
    <3>2. ASSUME NEW m \in 1..Len(written), line = OperationLine(m)
          PROVE  line.seq # NaturalOf(2 * k + 1)
      <4>1. line.seq = NaturalOf(2 * m - 1) /\ 2 * m - 1 # 2 * k + 1
        BY <1>2, <3>2, OperationLinesRead
      <4> QED
        BY <4>1, NumbersDiffer
    <3>3. ASSUME NEW m \in 1..Len(written), line = CommitLine(m)
          PROVE  IsCommit(line)
      BY <3>3, CommitsRead
    <3> QED
      BY <3>1, <3>2, <3>3 DEF FromProgram
  <2>2. CheckLine(DoneAfter(v, k), line) = Refused
    BY <2>1, OperationIsTaken DEF DoneAfter
  <2> QED
    BY <1>2, <2>2
<1> QED
  BY <1>1, <1>2

\* One operation more has been read once the next one is committed.
LEMMA ValuesGrow ==
  ASSUME written \in Seq(LegalOps), NEW k \in 0..Len(written) - 1
  PROVE  /\ ValuesAt(k) \cup Brought(k + 1) = ValuesAt(k + 1)
         /\ Brought(k + 1) = introduced(definition, SubSeq(written, 1, k), written[k + 1])
         /\ Append(SubSeq(written, 1, k), written[k + 1]) = SubSeq(written, 1, k + 1)
<1>1. Append(SubSeq(written, 1, k), written[k + 1]) = SubSeq(written, 1, k + 1)
  OBVIOUS
<1>2. (k + 1) - 1 = k /\ SubSeq(written, 1, k) \in Seq(LegalOps)
  OBVIOUS
<1>3. Brought(k + 1) = introduced(definition, SubSeq(written, 1, k), written[k + 1])
  BY <1>2 DEF Brought
<1>4. ValuesAt(k) \cup Brought(k + 1) = ValuesAt(k + 1)
  BY <1>1, <1>2, <1>3, StateGrows DEF ValuesAt
<1> QED
  BY <1>1, <1>3, <1>4

\* And after an operation only its commit is.
LEMMA CommitIsNext ==
  ASSUME written \in Seq(LegalOps), Admitted, NEW line, FromProgram(line), NEW v \in Flags,
         NEW k \in 0..Len(written) - 1
  PROVE  IF line = CommitLine(k + 1)
         THEN CheckLine(Waiting(v, k), line) = DoneAfter(v, k + 1)
         ELSE CheckLine(Waiting(v, k), line) = Refused
<1> DEFINE pending == OperationLine(k + 1)
           ops == SubSeq(written, 1, k)
           h == HeaderLine(v)
<1>1. k + 1 \in 1..Len(written) /\ k + 1 \in Nat \ {0} /\ (k + 1) - 1 = k /\ 2 * (k + 1) = 2 * k + 2
  OBVIOUS
<1>2. readOp(pending.op[2]) = written[k + 1] /\ Payloads(pending) = Brought(k + 1)
  BY <1>1, OperationLinesRead
<1>3. CASE line = CommitLine(k + 1)
  <2>1. ReadsRecord(line) /\ IsCommit(line) /\ line.seq = NaturalOf(2 * k + 2)
    BY <1>1, <1>3, CommitsRead
  <2>2. ValuesAt(k) \cup Payloads(pending) = ValuesAt(k + 1)
    BY <1>2, ValuesGrow
  <2>3. CheckLine(Waiting(v, k), line)
          = Reading(h, (2 * k + 2) + 1, <<>>, Append(ops, written[k + 1]), ValuesAt(k) \cup Payloads(pending))
    <3>1. Accepts(definition, ops, written[k + 1])
      BY <1>1 DEF Admitted
    <3>2. h.definition[2] = definition
      BY HeadersRead
    <3>3. ~StepUnchecked(h.definition[2], ops, readOp(pending.op[2]), Payloads(pending))
      BY <1>2, <3>1, <3>2, ValuesGrow DEF StepUnchecked
    <3>4. Commits(h, 2 * k + 2, pending, ops, line)
      BY <2>1, <3>3 DEF Commits
    <3> QED
      BY <1>2, <3>4, CommitIsTaken DEF Waiting
  <2>4. (2 * k + 2) + 1 = 2 * (k + 1) + 1
    OBVIOUS
  <2> QED
    BY <1>3, <2>2, <2>3, <2>4, ValuesGrow DEF DoneAfter
<1>4. CASE line # CommitLine(k + 1)
  <2>1. ~(ReadsRecord(line) /\ line.seq = NaturalOf(2 * k + 2) /\ IsCommit(line))
    <3>1. ASSUME NEW w \in Flags, line = HeaderLine(w)
          PROVE  ~ReadsRecord(line)
      BY <3>1, HeadersRead
    <3>2. ASSUME NEW m \in 1..Len(written), line = CommitLine(m)
          PROVE  line.seq # NaturalOf(2 * k + 2)
      <4>1. line.seq = NaturalOf(2 * m)
        BY <3>2, m \in Nat \ {0}, CommitsRead
      <4>2. m # k + 1 /\ 2 * m # 2 * k + 2
        BY <1>4, <3>2
      <4> QED
        BY <4>1, <4>2, NumbersDiffer
    <3>3. ASSUME NEW m \in 1..Len(written), line = OperationLine(m)
          PROVE  ~IsCommit(line)
      BY <3>3, OperationLinesRead
    <3> QED
      BY <3>1, <3>2, <3>3 DEF FromProgram
  <2>2. CheckLine(Waiting(v, k), line) = Refused
    <3>1. ~Commits(h, 2 * k + 2, pending, ops, line)
      BY <2>1 DEF Commits
    <3> QED
      BY <3>1, CommitIsTaken DEF Waiting
  <2> QED
    BY <1>4, <2>2
<1> QED
  BY <1>3, <1>4

-----------------------------------------------------------------------------
(* What becomes of the lines *)

\* The n-th line of a journal that nothing has happened to.
LineAt(n, line) ==
  \/ n = 1 /\ \E v \in Flags : line = HeaderLine(v)
  \/ \E k \in 1..Len(written) : n = 2 * k /\ line = OperationLine(k)
  \/ \E k \in 1..Len(written) : n = 2 * k + 1 /\ line = CommitLine(k)

\* Where nothing was edited every line is the program's; where nothing was
\* lost, repeated or moved either, they are the first ones of the journal.
Unedited == edits = 0 => \A n \in 1..Len(lines) : FromProgram(lines[n])
OnlyCut ==
  edits = 0 /\ damage = 0 =>
    /\ Len(lines) <= 2 * Len(written) + 1
    /\ ~cut => Len(lines) = 2 * Len(written) + 1
    /\ \A n \in 1..Len(lines) : LineAt(n, lines[n])
IInv ==
  /\ written \in Seq(LegalOps) /\ lines \in Seq(Range(lines))
  /\ edits \in Nat /\ damage \in Nat
  /\ Admitted
  /\ Unedited
  /\ OnlyCut

\* A sequence is one of what is in it.
LEMMA SeqOfMembers ==
  ASSUME NEW S, NEW s \in Seq(S), NEW T, Range(s) \subseteq T
  PROVE  s \in Seq(T)
<1>1. Len(s) \in Nat /\ DOMAIN s = 1..Len(s)
  OBVIOUS
<1>2. \A n \in 1..Len(s) : s[n] \in T
  BY <1>1 DEF Range
<1>3. s = [n \in 1..Len(s) |-> s[n]]
  OBVIOUS
<1> QED
  BY <1>1, <1>2, <1>3

\* In particular, of what is in it.
LEMMA SeqOfItself ==
  ASSUME NEW S, NEW s \in Seq(S)
  PROVE  s \in Seq(Range(s))
BY SeqOfMembers

\* The journal begins as its header.
LEMMA InitInv == Init => IInv
<1> SUFFICES ASSUME Init PROVE IInv
  OBVIOUS
<1>1. PICK v \in Flags : lines = <<HeaderLine(v)>>
  BY DEF Init, HeaderLine, Flags
<1>2. lines \in Seq({HeaderLine(v)}) /\ Len(lines) = 1 /\ lines[1] = HeaderLine(v)
  BY <1>1
<1>3. lines \in Seq(Range(lines))
  BY <1>2, SeqOfItself
<1>4. written \in Seq(LegalOps) /\ Len(written) = 0 /\ edits \in Nat /\ damage \in Nat
  BY DEF Init
<1>5. LineAt(1, lines[1]) /\ FromProgram(lines[1])
  BY <1>2 DEF LineAt, FromProgram
<1>6. Admitted
  BY <1>4 DEF Admitted, Init
<1>7. \A n \in 1..Len(lines) : n = 1
  BY <1>2
<1>8. OnlyCut
  BY <1>2, <1>4, <1>5, <1>7 DEF OnlyCut
<1> QED
  BY <1>3, <1>4, <1>5, <1>6, <1>7, <1>8 DEF IInv, Unedited

\* What two sequences have in common up to k.
LEMMA EqualBeginnings ==
  ASSUME NEW S, NEW s \in Seq(S), NEW t \in Seq(S), NEW k \in 0..Len(s), k \in 0..Len(t),
         \A m \in 1..k : t[m] = s[m]
  PROVE  SubSeq(t, 1, k) = SubSeq(s, 1, k)
OBVIOUS

\* What is written stays what it is.
LEMMA WrittenStays ==
  ASSUME written \in Seq(LegalOps), NEW op \in LegalOps, written' = Append(written, op), definition' = definition
  PROVE  /\ written' \in Seq(LegalOps) /\ Len(written') = Len(written) + 1
         /\ \A k \in 1..Len(written) : OperationLine(k)' = OperationLine(k)
         /\ Admitted /\ Accepts(definition, written, op) => Admitted'
         /\ \A line : FromProgram(line) => FromProgram(line)'
         /\ \A n \in Nat : \A line : LineAt(n, line) => LineAt(n, line)'
<1>1. /\ written' \in Seq(LegalOps) /\ Len(written') = Len(written) + 1
      /\ \A k \in 1..Len(written) : written'[k] = written[k]
      /\ written'[Len(written) + 1] = op
  OBVIOUS
<1>2. ASSUME NEW k \in 1..Len(written) + 1
      PROVE  SubSeq(written', 1, k - 1) = SubSeq(written, 1, k - 1)
  <2>1. \A m \in 1..k - 1 : written'[m] = written[m]
    BY <1>1
  <2>2. k - 1 \in 0..Len(written) /\ k - 1 \in 0..Len(written')
    BY <1>1
  <2> QED
    BY <1>1, <2>1, <2>2, EqualBeginnings
<1>3. ASSUME NEW k \in 1..Len(written)
      PROVE  OperationLine(k)' = OperationLine(k)
  <2>1. SubSeq(written', 1, k - 1) = SubSeq(written, 1, k - 1)
    BY <1>2
  <2>2. written'[k] = written[k]
    BY <1>1
  <2>3. Brought(k)' = introduced(definition', SubSeq(written', 1, k - 1), written'[k])
    BY DEF Brought, introduced, stateValues, Made
  <2>4. Brought(k)' = Brought(k)
    BY <2>1, <2>2, <2>3 DEF Brought
  <2> QED
    BY <2>2, <2>4 DEF OperationLine
<1>4. 1..Len(written) \subseteq 1..Len(written')
  BY <1>1
<1>5. ASSUME NEW v
      PROVE  HeaderLine(v)' = HeaderLine(v)
  BY DEF HeaderLine
<1>6. Flags' = Flags
  BY DEF Flags
<1>7. ASSUME NEW line, FromProgram(line)
      PROVE  FromProgram(line)'
  <2>1. CASE \E v \in Flags : line = HeaderLine(v)
    BY <1>5, <1>6, <2>1 DEF FromProgram
  <2>2. CASE \E k \in 1..Len(written) : line = OperationLine(k) \/ line = CommitLine(k)
    BY <1>3, <1>4, <2>2 DEF FromProgram
  <2> QED
    BY <1>7, <2>1, <2>2 DEF FromProgram
<1>8. ASSUME NEW n \in Nat, NEW line, LineAt(n, line)
      PROVE  LineAt(n, line)'
  <2>1. CASE n = 1 /\ \E v \in Flags : line = HeaderLine(v)
    BY <1>5, <1>6, <2>1 DEF LineAt
  <2>2. CASE \E k \in 1..Len(written) : n = 2 * k /\ line = OperationLine(k)
    BY <1>3, <1>4, <2>2 DEF LineAt
  <2>3. CASE \E k \in 1..Len(written) : n = 2 * k + 1 /\ line = CommitLine(k)
    BY <1>4, <2>3 DEF LineAt
  <2> QED
    BY <1>8, <2>1, <2>2, <2>3 DEF LineAt
<1>9. ASSUME Admitted, Accepts(definition, written, op)
      PROVE  Admitted'
  <2>1. ASSUME NEW k \in 1..Len(written')
        PROVE  Accepts(definition, SubSeq(written', 1, k - 1), written'[k])
    <3>1. k \in 1..Len(written) + 1 /\ Len(written) \in Nat
      BY <1>1
    <3>2. SubSeq(written', 1, k - 1) = SubSeq(written, 1, k - 1)
      BY <1>2, <3>1
    <3>3. CASE k \in 1..Len(written)
      BY <1>1, <1>9, <3>2, <3>3 DEF Admitted
    <3>4. CASE k = Len(written) + 1
      <4>1. SubSeq(written, 1, k - 1) = written /\ written'[k] = op
        BY <1>1, <3>1, <3>4
      <4> QED
        BY <1>9, <3>2, <4>1
    <3> QED
      BY <3>1, <3>3, <3>4
  <2> QED
    BY <1>9, <2>1 DEF Admitted
<1> QED
  BY <1>1, <1>3, <1>7, <1>8, <1>9

\* What is to be shown of every step.
LEMMA InvAgain ==
  ASSUME written' \in Seq(LegalOps), lines' \in Seq(Range(lines')), edits' \in Nat, damage' \in Nat, Admitted',
         \A n \in 1..Len(lines') :
           \E line :
             /\ line = lines'[n]
             /\ edits' = 0 => FromProgram(line)'
             /\ edits' = 0 /\ damage' = 0 => LineAt(n, line)',
         edits' = 0 /\ damage' = 0 =>
           Len(lines') <= 2 * Len(written') + 1 /\ (~cut' => Len(lines') = 2 * Len(written') + 1)
  PROVE  IInv'
<1>1. ASSUME NEW n \in 1..Len(lines')
      PROVE  /\ edits' = 0 => FromProgram(lines[n])'
             /\ edits' = 0 /\ damage' = 0 => LineAt(n, lines[n])'
  <2>1. PICK line :
             /\ line = lines'[n]
             /\ edits' = 0 => FromProgram(line)'
             /\ edits' = 0 /\ damage' = 0 => LineAt(n, line)'
    OBVIOUS
  <2>2. FromProgram(line)' => FromProgram(lines[n])'
    BY <2>1 DEF FromProgram
  <2>3. LineAt(n, line)' => LineAt(n, lines[n])'
    BY <2>1 DEF LineAt
  <2> QED
    BY <2>1, <2>2, <2>3
<1>2. Unedited'
  BY <1>1 DEF Unedited
<1>3. OnlyCut'
  BY <1>1 DEF OnlyCut
<1> QED
  BY <1>1, <1>2, <1>3 DEF IInv

\* An operation is written with its commit.
LEMMA WriteStep ==
  ASSUME IInv, NEW op \in Operations, Write(op)
  PROVE  IInv'
<1>1. PICK k, line1, line2 :
        /\ k \in Nat /\ k = Len(written) + 1
        /\ line1 = encodeOpRecord(2 * Len(written) + 1, op, introduced(definition, written, op))
        /\ line2 = encodeCommit(2 * Len(written) + 1 + 1)
  BY DEF IInv
<1>2. /\ op \in LegalOps /\ written' = Append(written, op) /\ lines' = lines \o <<line1, line2>>
      /\ edits = 0 /\ damage = 0 /\ ~cut /\ edits' = 0 /\ damage' = 0 /\ cut' = cut
      /\ definition' = definition /\ Accepts(definition, written, op)
  BY <1>1 DEF Write, LegalOps
<1>3. written \in Seq(LegalOps) /\ lines \in Seq(Range(lines)) /\ Len(lines) = 2 * Len(written) + 1
      /\ Admitted /\ \A n \in 1..Len(lines) : LineAt(n, lines[n]) /\ FromProgram(lines[n])
  BY <1>2 DEF IInv, OnlyCut, Unedited
<1>4. Len(written') = k /\ k \in 1..Len(written') /\ written'[k] = op /\ k - 1 = Len(written)
  BY <1>1, <1>2, <1>3
<1>5. line1 = OperationLine(k)'
  <2>1. SubSeq(written', 1, k - 1) = written
    <3>1. \A m \in 1..k - 1 : written'[m] = written[m]
      BY <1>2, <1>3, <1>4
    <3>2. k - 1 = Len(written) /\ k \in Nat /\ Len(written') = k
      BY <1>1, <1>4
    <3>3. written' \in Seq(LegalOps)
      BY <1>2, <1>3
    <3> QED
      BY <1>3, <3>1, <3>2, <3>3
  <2>2. 2 * k - 1 = 2 * Len(written) + 1
    BY <1>1, <1>3
  <2>3. Brought(k)' = introduced(definition', SubSeq(written', 1, k - 1), written'[k])
    BY DEF Brought, introduced, stateValues, Made
  <2>4. Brought(k)' = introduced(definition, written, op)
    BY <1>2, <1>4, <2>1, <2>3
  <2> QED
    BY <1>1, <1>4, <2>2, <2>4 DEF OperationLine
<1>6. line2 = CommitLine(k)
  <2>1. 2 * k = 2 * Len(written) + 1 + 1
    BY <1>1, <1>3
  <2> QED
    BY <1>1, <2>1 DEF CommitLine
<1>7. FromProgram(line1)' /\ FromProgram(line2)' /\ LineAt(2 * k, line1)' /\ LineAt(2 * k + 1, line2)'
  BY <1>4, <1>5, <1>6 DEF FromProgram, LineAt, CommitLine
<1>8. Admitted'
  BY <1>2, <1>3, WrittenStays
<1>9. /\ lines' \in Seq(Range(lines) \cup {line1, line2}) /\ Len(lines') = Len(lines) + 2
      /\ \A n \in 1..Len(lines) : lines'[n] = lines[n]
      /\ lines'[Len(lines) + 1] = line1 /\ lines'[Len(lines) + 2] = line2
  <2>1. lines \in Seq(Range(lines) \cup {line1, line2})
    BY <1>3, SeqOfMembers
  <2>2. <<line1, line2>> \in Seq(Range(lines) \cup {line1, line2}) /\ Len(<<line1, line2>>) = 2
    OBVIOUS
  <2> QED
    BY <1>2, <2>1, <2>2
<1>10. ASSUME NEW n \in 1..Len(lines')
       PROVE  \E line : line = lines'[n] /\ LineAt(n, line)' /\ FromProgram(line)'
  <2>1. CASE n \in 1..Len(lines)
    BY <1>2, <1>3, <1>9, <2>1, WrittenStays
  <2>2. CASE n = Len(lines) + 1
    BY <1>1, <1>3, <1>7, <1>9, <2>2
  <2>3. CASE n = Len(lines) + 2
    BY <1>1, <1>3, <1>7, <1>9, <2>3
  <2>4. n \in 1..Len(lines) \/ n = Len(lines) + 1 \/ n = Len(lines) + 2
    <3>1. Len(lines) \in Nat
      BY <1>3
    <3> QED
      BY <1>9, <3>1
  <2> QED
    BY <2>1, <2>2, <2>3, <2>4
<1>11. lines' \in Seq(Range(lines'))
  BY <1>9, SeqOfItself
<1>12. written' \in Seq(LegalOps)
  BY <1>2, <1>3, WrittenStays
<1> QED
  BY <1>1, <1>2, <1>3, <1>4, <1>8, <1>9, <1>10, <1>11, <1>12, InvAgain

\* Nor does anything else change what a line is.
LEMMA WrittenSame ==
  ASSUME written' = written, definition' = definition
  PROVE  /\ Admitted => Admitted'
         /\ \A line : FromProgram(line) => FromProgram(line)'
         /\ \A n, line : LineAt(n, line) => LineAt(n, line)'
<1>1. ASSUME NEW k
      PROVE  OperationLine(k)' = OperationLine(k)
  <2>1. Brought(k)' = Brought(k)
    BY DEF Brought, introduced, stateValues, Made
  <2> QED
    BY <2>1 DEF OperationLine
<1>2. ASSUME NEW v
      PROVE  HeaderLine(v)' = HeaderLine(v)
  BY DEF HeaderLine
<1>3. Flags' = Flags
  BY DEF Flags
<1>4. ASSUME NEW line, FromProgram(line)
      PROVE  FromProgram(line)'
  BY <1>1, <1>2, <1>3, <1>4 DEF FromProgram
<1>5. ASSUME NEW n, NEW line, LineAt(n, line)
      PROVE  LineAt(n, line)'
  BY <1>1, <1>2, <1>3, <1>5 DEF LineAt
<1>6. Admitted => Admitted'
  BY DEF Admitted
<1> QED
  BY <1>4, <1>5, <1>6

\* What is left of a text that was cut are its first lines.
LEMMA CutStep ==
  ASSUME IInv, Cut
  PROVE  IInv'
<1>1. PICK n \in 0..Len(lines) : lines' = SubSeq(lines, 1, n)
  BY DEF Cut
<1>2. written' = written /\ definition' = definition /\ edits' = edits /\ damage' = damage /\ cut'
  BY DEF Cut
<1>3. /\ lines \in Seq(Range(lines)) /\ written \in Seq(LegalOps) /\ edits \in Nat /\ damage \in Nat
      /\ Admitted
  BY DEF IInv
<1>4. lines' \in Seq(Range(lines)) /\ Len(lines') = n /\ \A m \in 1..n : lines'[m] = lines[m]
  BY <1>1, <1>3
<1>5. lines' \in Seq(Range(lines'))
  BY <1>4, SeqOfItself
<1>6. ASSUME NEW m \in 1..Len(lines')
      PROVE  \E line :
               /\ line = lines'[m]
               /\ edits' = 0 => FromProgram(line)'
               /\ edits' = 0 /\ damage' = 0 => LineAt(m, line)'
  <2>1. m \in 1..Len(lines) /\ lines'[m] = lines[m]
    BY <1>3, <1>4
  <2>2. edits' = 0 => FromProgram(lines[m])
    BY <1>2, <2>1 DEF IInv, Unedited
  <2>3. edits' = 0 /\ damage' = 0 => LineAt(m, lines[m])
    BY <1>2, <2>1 DEF IInv, OnlyCut
  <2>4. PICK line : line = lines[m]
    OBVIOUS
  <2>5. (edits' = 0 => FromProgram(line)') /\ (edits' = 0 /\ damage' = 0 => LineAt(m, line)')
    BY <1>2, <2>2, <2>3, <2>4, WrittenSame
  <2> QED
    BY <2>1, <2>4, <2>5
<1>7. edits' = 0 /\ damage' = 0 => Len(lines') <= 2 * Len(written') + 1
  <2>1. edits = 0 /\ damage = 0 => Len(lines) <= 2 * Len(written) + 1
    BY DEF IInv, OnlyCut
  <2>2. Len(written) \in Nat /\ Len(lines) \in Nat
    BY <1>3
  <2> QED
    BY <1>2, <1>4, <2>1, <2>2
<1>8. Admitted'
  BY <1>2, <1>3, WrittenSame
<1> QED
  BY <1>2, <1>3, <1>5, <1>6, <1>7, <1>8, InvAgain

\* Lines that are lost, repeated or moved are still the program's.
LEMMA DamageStep ==
  ASSUME IInv, Damage
  PROVE  IInv'
<1>1. written' = written /\ definition' = definition /\ edits = 0 /\ edits' = 0 /\ damage' = damage + 1
  BY DEF Damage
<1>2. lines \in Seq(Range(lines)) /\ written \in Seq(LegalOps) /\ damage \in Nat /\ Admitted
  BY DEF IInv
<1>3. damage' \in Nat /\ damage' # 0
  BY <1>1, <1>2
<1>4. DOMAIN lines = 1..Len(lines) /\ Len(lines) \in Nat
  BY <1>2
<1>5. lines' \in Seq(Range(lines))
  <2>1. PICK n \in 1..Len(lines) : Lose(n) \/ Repeat(n) \/ Swap(n)
    BY <1>4 DEF Damage
  <2>2. CASE Lose(n)
    <3>1. SubSeq(lines, 1, n - 1) \in Seq(Range(lines)) /\ SubSeq(lines, n + 1, Len(lines)) \in Seq(Range(lines))
      BY <1>2, <1>4
    <3> QED
      BY <2>2, <3>1 DEF Lose
  <2>3. CASE Repeat(n)
    <3>1. SubSeq(lines, 1, n) \in Seq(Range(lines)) /\ SubSeq(lines, n, Len(lines)) \in Seq(Range(lines))
      BY <1>2, <1>4
    <3> QED
      BY <2>3, <3>1 DEF Repeat
  <2>4. CASE Swap(n)
    <3>1. lines[n] \in Range(lines) /\ lines[n + 1] \in Range(lines)
      BY <1>2, <1>4, <2>4 DEF Swap
    <3>2. [lines EXCEPT ![n] = lines[n + 1]] \in Seq(Range(lines))
      BY <1>2, <3>1
    <3> QED
      BY <1>2, <2>4, <3>1, <3>2 DEF Swap
  <2> QED
    BY <2>1, <2>2, <2>3, <2>4
<1>6. lines' \in Seq(Range(lines'))
  BY <1>5, SeqOfItself
<1>7. ASSUME NEW m \in 1..Len(lines')
      PROVE  \E line :
               /\ line = lines'[m]
               /\ edits' = 0 => FromProgram(line)'
               /\ edits' = 0 /\ damage' = 0 => LineAt(m, line)'
  <2>1. lines'[m] \in Range(lines)
    BY <1>5
  <2>2. PICK j \in 1..Len(lines) : lines'[m] = lines[j]
    BY <1>4, <2>1 DEF Range
  <2>3. FromProgram(lines[j])
    BY <1>1 DEF IInv, Unedited
  <2>4. PICK line : line = lines[j]
    OBVIOUS
  <2>5. FromProgram(line)'
    BY <1>1, <2>3, <2>4, WrittenSame
  <2> QED
    BY <1>3, <2>2, <2>4, <2>5
<1>8. Admitted'
  BY <1>1, <1>2, WrittenSame
<1> QED
  BY <1>1, <1>2, <1>3, <1>6, <1>7, <1>8, InvAgain

\* An edit changes one line.
LEMMA EditStep ==
  ASSUME IInv, Edit
  PROVE  IInv'
<1>1. written' = written /\ definition' = definition /\ edits' = edits + 1 /\ damage' = damage
  BY DEF Edit
<1>2. /\ lines \in Seq(Range(lines)) /\ written \in Seq(LegalOps) /\ edits \in Nat /\ damage \in Nat
      /\ Admitted
  BY DEF IInv
<1>3. edits' \in Nat /\ edits' # 0
  BY <1>1, <1>2
<1>4. DOMAIN lines = 1..Len(lines) /\ Len(lines) \in Nat
  BY <1>2
<1>5. PICK n, line : n \in 1..Len(lines) /\ lines' = [lines EXCEPT ![n] = line]
  <2>1. PICK n \in 1..Len(lines) :
          \/ \E line \in Changes(lines[n], LineFields) : lines' = [lines EXCEPT ![n] = line]
          \/ /\ "op" \in DOMAIN lines[n] /\ lines[n].op[1] = "op"
             /\ \E op \in Changes(lines[n].op[2], FieldNames) : lines' = [lines EXCEPT ![n].op = Value("op", op)]
    BY <1>4 DEF Edit
  <2>2. CASE \E line : lines' = [lines EXCEPT ![n] = line]
    BY <2>2
  <2>3. CASE \E op : lines' = [lines EXCEPT ![n].op = Value("op", op)]
    <3>1. PICK op : lines' = [lines EXCEPT ![n].op = Value("op", op)]
      BY <2>3
    <3>2. PICK line : line = [lines[n] EXCEPT !.op = Value("op", op)]
      OBVIOUS
    <3>3. lines' = [lines EXCEPT ![n] = line]
      BY <3>1, <3>2
    <3> QED
      BY <3>3
  <2> QED
    BY <2>1, <2>2, <2>3
<1>6. lines' \in Seq(Range(lines) \cup {line})
  <2>1. lines \in Seq(Range(lines) \cup {line})
    BY <1>2, SeqOfMembers
  <2> QED
    BY <1>4, <1>5, <2>1
<1>7. lines' \in Seq(Range(lines'))
  BY <1>6, SeqOfItself
<1>8. Admitted'
  BY <1>1, <1>2, WrittenSame
<1> QED
  BY <1>1, <1>2, <1>3, <1>7, <1>8, InvAgain

\* The invariant is inductive.
LEMMA InvHolds == Spec => []IInv
<1>1. Init => IInv
  BY InitInv
<1>2. IInv /\ [Next]_vars => IInv'
  <2> SUFFICES ASSUME IInv, [Next]_vars PROVE IInv'
    OBVIOUS
  <2>1. ASSUME NEW op \in Operations, Write(op) PROVE IInv'
    BY <2>1, WriteStep
  <2>2. CASE Cut
    BY <2>2, CutStep
  <2>3. CASE Damage
    BY <2>3, DamageStep
  <2>4. CASE Edit
    BY <2>4, EditStep
  <2>5. CASE UNCHANGED vars
    <3>1. definition' = definition /\ written' = written /\ lines' = lines /\ edits' = edits /\ damage' = damage /\ cut' = cut
      BY <2>5 DEF vars
    <3>2. ASSUME NEW m \in 1..Len(lines')
          PROVE  \E line :
                   /\ line = lines'[m]
                   /\ edits' = 0 => FromProgram(line)'
                   /\ edits' = 0 /\ damage' = 0 => LineAt(m, line)'
      <4>1. PICK line : line = lines[m]
        OBVIOUS
      <4>2. /\ edits = 0 => FromProgram(line)
            /\ edits = 0 /\ damage = 0 => LineAt(m, line)
        BY <3>1, <4>1 DEF IInv, Unedited, OnlyCut
      <4> QED
        BY <3>1, <4>1, <4>2, WrittenSame
    <3>3. edits' = 0 /\ damage' = 0 =>
            Len(lines') <= 2 * Len(written') + 1 /\ (~cut' => Len(lines') = 2 * Len(written') + 1)
      BY <3>1 DEF IInv, OnlyCut
    <3>4. Admitted'
      BY <3>1, WrittenSame DEF IInv
    <3> QED
      BY <3>1, <3>2, <3>3, <3>4, InvAgain DEF IInv
  <2> QED
    BY <2>1, <2>2, <2>3, <2>4, <2>5 DEF Next
<1> QED
  BY <1>1, <1>2, PTL DEF Spec

-----------------------------------------------------------------------------
(* OnlyBeginnings *)

\* What the reader can be in after lines of the program, in any order.
Beginning(r) ==
  \/ r = Unread \/ r = Refused
  \/ \E v \in Flags, k \in 0..Len(written) : r = DoneAfter(v, k)
  \/ \E v \in Flags, k \in 0..Len(written) - 1 : r = Waiting(v, k)

\* And what it is in after the first n lines of the journal.
Exactly(n, r) ==
  \/ n = 0 /\ r = Unread
  \/ \E v \in Flags, k \in 0..Len(written) : n = 2 * k + 1 /\ r = DoneAfter(v, k)
  \/ \E v \in Flags, k \in 0..Len(written) - 1 : n = 2 * k + 2 /\ r = Waiting(v, k)

\* A line of the program leaves no other state.
LEMMA BeginningStays ==
  ASSUME written \in Seq(LegalOps), Admitted, NEW line, FromProgram(line), NEW r, Beginning(r)
  PROVE  Beginning(CheckLine(r, line))
<1>1. CASE r = Refused
  BY <1>1, RefusedStays DEF Beginning
<1>2. CASE r = Unread
  <2>1. (\E v \in Flags : CheckLine(r, line) = DoneAfter(v, 0)) \/ CheckLine(r, line) = Refused
    BY <1>2, HeaderIsFirst
  <2>2. 0 \in 0..Len(written)
    OBVIOUS
  <2> QED
    BY <2>1, <2>2 DEF Beginning
<1>3. ASSUME NEW v \in Flags, NEW k \in 0..Len(written), r = DoneAfter(v, k)
      PROVE  Beginning(CheckLine(r, line))
  <2>1. \/ k < Len(written) /\ CheckLine(r, line) = Waiting(v, k)
        \/ CheckLine(r, line) = Refused
    BY <1>3, OperationIsNext
  <2>2. k < Len(written) => k \in 0..Len(written) - 1
    OBVIOUS
  <2> QED
    BY <2>1, <2>2 DEF Beginning
<1>4. ASSUME NEW v \in Flags, NEW k \in 0..Len(written) - 1, r = Waiting(v, k)
      PROVE  Beginning(CheckLine(r, line))
  <2>1. CheckLine(r, line) = DoneAfter(v, k + 1) \/ CheckLine(r, line) = Refused
    BY <1>4, CommitIsNext
  <2>2. k + 1 \in 0..Len(written)
    OBVIOUS
  <2> QED
    BY <2>1, <2>2 DEF Beginning
<1> QED
  BY <1>1, <1>2, <1>3, <1>4 DEF Beginning

\* The next line of the journal is taken.
LEMMA ExactlyNext ==
  ASSUME written \in Seq(LegalOps), Admitted, NEW n \in Nat \ {0}, NEW line, FromProgram(line), LineAt(n, line),
         NEW r, Exactly(n - 1, r)
  PROVE  Exactly(n, CheckLine(r, line))
<1>1. Len(written) \in Nat
  OBVIOUS
<1>2. CASE n - 1 = 0 /\ r = Unread
  <2>1. \E v \in Flags : line = HeaderLine(v)
    BY <1>2 DEF LineAt
  <2>2. \E v \in Flags : CheckLine(r, line) = DoneAfter(v, 0)
    BY <1>2, <2>1, HeaderIsFirst
  <2>3. 0 \in 0..Len(written) /\ n = 2 * 0 + 1
    BY <1>1, <1>2
  <2> QED
    BY <2>2, <2>3 DEF Exactly
<1>3. ASSUME NEW v \in Flags, NEW k \in 0..Len(written), n - 1 = 2 * k + 1, r = DoneAfter(v, k)
      PROVE  Exactly(n, CheckLine(r, line))
  <2>1. PICK m \in 1..Len(written) : n = 2 * m /\ line = OperationLine(m)
    <3>1. n # 1 /\ \A m \in 1..Len(written) : n # 2 * m + 1
      BY <1>3
    <3> QED
      BY <3>1 DEF LineAt
  <2>2. m = k + 1 /\ k < Len(written) /\ k \in 0..Len(written) - 1 /\ n = 2 * k + 2
    BY <1>1, <1>3, <2>1
  <2>3. CheckLine(r, line) = Waiting(v, k)
    BY <1>3, <2>1, <2>2, OperationIsNext
  <2> QED
    BY <2>2, <2>3 DEF Exactly
<1>4. ASSUME NEW v \in Flags, NEW k \in 0..Len(written) - 1, n - 1 = 2 * k + 2, r = Waiting(v, k)
      PROVE  Exactly(n, CheckLine(r, line))
  <2>1. PICK m \in 1..Len(written) : n = 2 * m + 1 /\ line = CommitLine(m)
    <3>1. n # 1 /\ \A m \in 1..Len(written) : n # 2 * m
      BY <1>4
    <3> QED
      BY <3>1 DEF LineAt
  <2>2. m = k + 1 /\ k + 1 \in 0..Len(written) /\ n = 2 * (k + 1) + 1
    BY <1>1, <1>4, <2>1
  <2>3. CheckLine(r, line) = DoneAfter(v, k + 1)
    BY <1>4, <2>1, <2>2, CommitIsNext
  <2> QED
    BY <2>2, <2>3 DEF Exactly
<1> QED
  BY <1>2, <1>3, <1>4 DEF Exactly

\* Up to each line, whatever has happened to the lines of the program.
LEMMA ReadSoFar ==
  ASSUME IInv, edits = 0, NEW f, f[0] = Unread,
         \A n \in 1..Len(lines) : f[n] = CheckLine(f[n - 1], lines[n])
  PROVE  \A n \in 0..Len(lines) : Beginning(f[n]) /\ (damage = 0 => Exactly(n, f[n]))
<1> DEFINE Good(n) == Beginning(f[n]) /\ (damage = 0 => Exactly(n, f[n]))
           Bad == {n \in 0..Len(lines) : ~Good(n)}
<1>1. written \in Seq(LegalOps) /\ Len(lines) \in Nat
  BY DEF IInv
<1> Admitted
  BY DEF IInv
<1>2. Good(0)
  BY DEF Beginning, Exactly
<1>3. ASSUME NEW n \in 1..Len(lines), Good(n - 1)
      PROVE  Good(n)
  <2>1. PICK line : line = lines[n]
    OBVIOUS
  <2>2. FromProgram(line) /\ (damage = 0 => LineAt(n, line))
    BY <2>1 DEF IInv, Unedited, OnlyCut
  <2>3. PICK r : r = f[n - 1]
    OBVIOUS
  <2>4. f[n] = CheckLine(r, line)
    BY <2>1, <2>3
  <2>5. Beginning(CheckLine(r, line))
    BY <1>1, <1>3, <2>2, <2>3, BeginningStays
  <2>6. damage = 0 => Exactly(n, CheckLine(r, line))
    <3>1. n \in Nat \ {0}
      BY <1>1
    <3> QED
      BY <1>1, <1>3, <2>2, <2>3, <3>1, ExactlyNext
  <2> QED
    BY <2>4, <2>5, <2>6
<1> HIDE DEF Good
<1>4. Bad = {}
  <2> SUFFICES ASSUME Bad # {} PROVE FALSE
    OBVIOUS
  <2>1. Bad \subseteq Nat
    BY <1>1
  <2>2. PICK n \in Bad : \A m \in Bad : n <= m
    BY <2>1, LeastNatural
  <2>3. n # 0 /\ n \in 1..Len(lines)
    BY <1>1, <1>2, <2>2
  <2>4. n - 1 \in 0..Len(lines) /\ n - 1 \notin Bad
    BY <1>1, <2>2, <2>3
  <2> QED
    BY <1>3, <2>2, <2>3, <2>4
<1> QED
  BY <1>4 DEF Good

\* What has been read then is a beginning of what was written.
LEMMA BeginningsArePrefixes ==
  ASSUME written \in Seq(LegalOps), NEW r, Beginning(r), r.ok
  PROVE  /\ IsPrefix(r.ops, written)
         /\ r.values = stateValues(definition, r.ops)
<1>1. CASE r = Unread
  <2>1. r.ops = <<>> /\ r.values = stateValues(definition, r.ops) /\ Len(r.ops) = 0 /\ DOMAIN r.ops = {}
    BY <1>1, NoneAtFirst DEF Unread
  <2>2. SubSeq(<<>>, 1, 0) = SubSeq(written, 1, 0) /\ Len(written) \in Nat
    OBVIOUS
  <2> QED
    BY <2>1, <2>2 DEF IsPrefix
<1>2. r # Refused
  BY DEF Refused, Unread
<1>3. ASSUME NEW k \in 0..Len(written), r.ops = SubSeq(written, 1, k), r.values = ValuesAt(k)
      PROVE  /\ IsPrefix(r.ops, written)
             /\ r.values = stateValues(definition, r.ops)
  <2>1. /\ r.ops \in Seq(LegalOps) /\ Len(r.ops) = k /\ DOMAIN r.ops = 1..k
        /\ \A n \in 1..k : r.ops[n] = written[n]
    BY <1>3
  <2>2. SubSeq(r.ops, 1, k) = SubSeq(written, 1, k)
    BY <1>3, <2>1
  <2> QED
    BY <1>3, <2>1, <2>2 DEF IsPrefix, ValuesAt
<1>4. CASE \E v \in Flags, k \in 0..Len(written) : r = DoneAfter(v, k)
  BY <1>3, <1>4 DEF DoneAfter, Reading
<1>5. CASE \E v \in Flags, k \in 0..Len(written) - 1 : r = Waiting(v, k)
  <2>1. PICK v \in Flags, k \in 0..Len(written) - 1 : r = Waiting(v, k)
    BY <1>5
  <2>2. k \in 0..Len(written) /\ r.ops = SubSeq(written, 1, k) /\ r.values = ValuesAt(k)
    BY <2>1 DEF Waiting, Reading
  <2> QED
    BY <1>3, <2>2
<1> QED
  BY <1>1, <1>2, <1>4, <1>5 DEF Beginning

\* What was only cut is accepted, up to its last commit.
LEMMA CutsAreAccepted ==
  ASSUME written \in Seq(LegalOps), NEW n \in Nat, NEW r, Exactly(n, r)
  PROVE  r.ok /\ 2 * Len(r.ops) \in {n, n - 1, n - 2}
<1>1. CASE n = 0 /\ r = Unread
  <2>1. r.ok /\ Len(r.ops) = 0
    BY <1>1 DEF Unread
  <2> QED
    BY <1>1, <2>1
<1>2. ASSUME NEW v \in Flags, NEW k \in 0..Len(written), n = 2 * k + 1, r = DoneAfter(v, k)
      PROVE  r.ok /\ 2 * Len(r.ops) = n - 1
  <2>1. r.ok /\ r.ops = SubSeq(written, 1, k)
    BY <1>2 DEF DoneAfter, Reading
  <2> QED
    BY <1>2, <2>1
<1>3. ASSUME NEW v \in Flags, NEW k \in 0..Len(written) - 1, n = 2 * k + 2, r = Waiting(v, k)
      PROVE  r.ok /\ 2 * Len(r.ops) = n - 2
  <2>1. r.ok /\ r.ops = SubSeq(written, 1, k)
    BY <1>3 DEF Waiting, Reading
  <2>2. Len(SubSeq(written, 1, k)) = k
    OBVIOUS
  <2> QED
    BY <1>3, <2>1, <2>2
<1> QED
  BY <1>1, <1>2, <1>3 DEF Exactly

\* Of the lines that it wrote the program accepts nothing but a beginning of
\* what was written, with a payload for every value of the state then, in
\* whatever way some are lost, repeated or moved, and always that where they were
\* only cut (trace.ts:229-294).
THEOREM BeginningsOnly == Spec => []OnlyBeginnings
<1>1. IInv => OnlyBeginnings
  <2> SUFFICES ASSUME IInv, edits = 0 PROVE OnlyBeginnings
    BY DEF OnlyBeginnings
  <2>1. written \in Seq(LegalOps) /\ lines \in Seq(Range(lines)) /\ Len(lines) \in Nat
    BY DEF IInv
  <2>2. PICK f : /\ f[0] = Unread
                 /\ \A n \in 1..Len(lines) : f[n] = CheckLine(f[n - 1], lines[n])
                 /\ checkTrace(lines, tail) = f[Len(lines)]
    BY <2>1, ChecksAre
  <2>3. Checked = f[Len(lines)]
    BY <2>2 DEF Checked
  <2>4. Beginning(Checked) /\ (damage = 0 => Exactly(Len(lines), Checked))
    BY <2>1, <2>2, <2>3, ReadSoFar
  <2>5. Checked.ok => /\ IsPrefix(Checked.ops, written)
                      /\ Checked.values = stateValues(definition, Checked.ops)
    BY <2>1, <2>4, BeginningsArePrefixes
  <2>6. damage = 0 => Checked.ok /\ 2 * Len(Checked.ops) \in {Len(lines), Len(lines) - 1, Len(lines) - 2}
    BY <2>1, <2>4, CutsAreAccepted
  <2> QED
    BY <2>5, <2>6 DEF OnlyBeginnings
<1> QED
  BY <1>1, InvHolds, PTL

-----------------------------------------------------------------------------
(* What the kit shows of the records that it has read *)

\* Operations and commits take turns, with their numbers.
Alternate(records) ==
  /\ \A n \in 1..Len(records) : "seq" \in DOMAIN records[n] /\ records[n].seq = NaturalOf(n)
  /\ \A i \in Nat \ {0} :
       /\ 2 * i - 1 <= Len(records) => "commit" \notin DOMAIN records[2 * i - 1]
       /\ 2 * i <= Len(records) => "commit" \in DOMAIN records[2 * i]

\* Half, rounded up: the operations among the first n records.
HalfUp(n) == (n + 1) \div 2

\* Half is what it says.
LEMMA Halves ==
  /\ HalfUp(0) = 0
  /\ \A n \in Nat : HalfUp(n) \in Nat /\ 2 * HalfUp(n) \in {n, n + 1}
BY DEF HalfUp

\* Each record of an operation is a transition.
TransitionsOf(records, n) == [m \in 1..HalfUp(n) |-> Transition(records, 2 * m - 1)]

\* The last transition is that of the last operation.
LEMMA TransitionsGrow ==
  ASSUME NEW S, NEW records \in Seq(S), Alternate(records), NEW n \in 1..Len(records)
  PROVE  TransitionsOf(records, n) = IF "commit" \in DOMAIN records[n] THEN TransitionsOf(records, n - 1)
                                     ELSE Append(TransitionsOf(records, n - 1), Transition(records, n))
<1>1. PICK a, b \in Nat : a = HalfUp(n - 1) /\ b = HalfUp(n)
  BY Halves
<1>2. 2 * a \in {n - 1, n} /\ 2 * b \in {n, n + 1}
  <2>1. n - 1 \in Nat /\ (n - 1) + 1 = n
    OBVIOUS
  <2>2. 2 * a \in {n - 1, (n - 1) + 1}
    BY <1>1, <2>1, Halves
  <2> QED
    BY <1>1, <2>1, <2>2, Halves
<1>3. CASE 2 * b = n
  <2>1. a = b /\ "commit" \in DOMAIN records[n]
    BY <1>2, <1>3 DEF Alternate
  <2> QED
    BY <1>1, <2>1 DEF TransitionsOf
<1>4. CASE 2 * b = n + 1
  <2>1. b = a + 1 /\ n = 2 * b - 1 /\ b \in Nat \ {0}
    BY <1>2, <1>4
  <2>2. "commit" \notin DOMAIN records[n]
    <3>1. 2 * b - 1 <= Len(records) => "commit" \notin DOMAIN records[2 * b - 1]
      BY <2>1 DEF Alternate
    <3> QED
      BY <2>1, <3>1
  <2>3. [m \in 1..b |-> Transition(records, 2 * m - 1)]
          = Append([m \in 1..a |-> Transition(records, 2 * m - 1)], Transition(records, n))
    BY <2>1
  <2> QED
    BY <1>1, <2>2, <2>3 DEF TransitionsOf
<1> QED
  BY <1>2, <1>3, <1>4

\* So these are the transitions.
LEMMA TransitionsAre ==
  ASSUME NEW S, NEW records \in Seq(S), Alternate(records)
  PROVE  recordTransitions(records) = TransitionsOf(records, Len(records))
<1> DEFINE Is(f) ==
             f = [n \in 0..Len(records) |->
                    IF n = 0 THEN <<>>
                    ELSE IF "commit" \in DOMAIN records[n] THEN f[n - 1]
                    ELSE Append(f[n - 1], Transition(records, n))]
           h == [n \in 0..Len(records) |-> TransitionsOf(records, n)]
           g == CHOOSE f : Is(f)
<1>1. Len(records) \in Nat
  OBVIOUS
<1>2. TransitionsOf(records, 0) = <<>>
  BY Halves DEF TransitionsOf
<1>3. Is(h)
  <2>1. \A n \in 1..Len(records) : h[n] = IF "commit" \in DOMAIN records[n] THEN h[n - 1]
                                         ELSE Append(h[n - 1], Transition(records, n))
    <3> SUFFICES ASSUME NEW n \in 1..Len(records)
                 PROVE  h[n] = IF "commit" \in DOMAIN records[n] THEN h[n - 1]
                               ELSE Append(h[n - 1], Transition(records, n))
      OBVIOUS
    <3>1. h[n] = TransitionsOf(records, n) /\ h[n - 1] = TransitionsOf(records, n - 1)
      BY <1>1
    <3> HIDE DEF h
    <3> QED
      BY <3>1, TransitionsGrow
  <2>2. h[0] = <<>>
    BY <1>1, <1>2
  <2>3. h = [n \in 0..Len(records) |-> h[n]]
    OBVIOUS
  <2> HIDE DEF h
  <2> QED
    BY <2>1, <2>2, <2>3
<1>4. Is(g)
  BY <1>3
<1>5. recordTransitions(records) = g[Len(records)]
  BY DEF recordTransitions
<1> HIDE DEF g
<1>6. \A n \in 0..Len(records) : g[n] = IF n = 0 THEN <<>>
                                       ELSE IF "commit" \in DOMAIN records[n] THEN g[n - 1]
                                       ELSE Append(g[n - 1], Transition(records, n))
  BY <1>4
<1>7. \A n \in 0..Len(records) : g[n] = TransitionsOf(records, n)
  <2> DEFINE Bad == {n \in 0..Len(records) : g[n] # TransitionsOf(records, n)}
  <2> SUFFICES ASSUME Bad # {} PROVE FALSE
    OBVIOUS
  <2>1. Bad \subseteq Nat
    BY <1>1
  <2>2. PICK n \in Bad : \A m \in Bad : n <= m
    BY <2>1, LeastNatural
  <2>3. n \in 1..Len(records) /\ g[n - 1] = TransitionsOf(records, n - 1)
    BY <1>1, <1>2, <1>6, <2>2
  <2>4. g[n] = TransitionsOf(records, n)
    <3>1. g[n] = IF "commit" \in DOMAIN records[n] THEN g[n - 1] ELSE Append(g[n - 1], Transition(records, n))
      BY <1>1, <1>6, <2>3
    <3> QED
      BY <2>3, <3>1, TransitionsGrow
  <2> QED
    BY <2>2, <2>4
<1> QED
  BY <1>1, <1>5, <1>7

\* Where the first transitions are the committed ones, these are left.
LEMMA CommittedAre ==
  ASSUME NEW S, NEW transitions \in Seq(S), NEW k \in 0..Len(transitions),
         \A n \in 1..Len(transitions) : transitions[n].committed <=> n <= k
  PROVE  Committed(transitions) = SubSeq(transitions, 1, k)
<1> DEFINE Is(f) ==
             f = [n \in 0..Len(transitions) |->
                    IF n = 0 THEN <<>>
                    ELSE IF transitions[n].committed THEN Append(f[n - 1], transitions[n]) ELSE f[n - 1]]
           h == [n \in 0..Len(transitions) |-> SubSeq(transitions, 1, IF n <= k THEN n ELSE k)]
           g == CHOOSE f : Is(f)
<1>1. Len(transitions) \in Nat
  OBVIOUS
<1>2. \A n \in 1..Len(transitions) :
        SubSeq(transitions, 1, n) = Append(SubSeq(transitions, 1, n - 1), transitions[n])
  OBVIOUS
<1>3. \A n \in 1..Len(transitions) :
        h[n] = IF transitions[n].committed THEN Append(h[n - 1], transitions[n]) ELSE h[n - 1]
  <2> SUFFICES ASSUME NEW n \in 1..Len(transitions)
               PROVE  h[n] = IF transitions[n].committed THEN Append(h[n - 1], transitions[n]) ELSE h[n - 1]
    OBVIOUS
  <2>1. CASE n <= k
    <3>1. h[n] = SubSeq(transitions, 1, n) /\ h[n - 1] = SubSeq(transitions, 1, n - 1)
      BY <2>1
    <3> HIDE DEF h
    <3> QED
      BY <1>2, <2>1, <3>1
  <2>2. CASE n = k + 1
    BY <2>2
  <2>3. CASE n > k + 1
    BY <2>3
  <2> QED
    BY <2>1, <2>2, <2>3
<1>4. Is(h)
  <2>1. h[0] = <<>>
    BY <1>1
  <2>2. h = [n \in 0..Len(transitions) |-> h[n]]
    OBVIOUS
  <2>3. \A n \in 0..Len(transitions) :
          h[n] = IF n = 0 THEN <<>>
                 ELSE IF transitions[n].committed THEN Append(h[n - 1], transitions[n]) ELSE h[n - 1]
    <3>1. \A n \in 0..Len(transitions) : n = 0 \/ n \in 1..Len(transitions)
      BY <1>1
    <3> HIDE DEF h
    <3> QED
      BY <1>3, <2>1, <3>1
  <2> HIDE DEF h
  <2> QED
    BY <2>2, <2>3
<1>5. h[0] = <<>> /\ h[Len(transitions)] = SubSeq(transitions, 1, k)
  BY <1>1
<1>6. Is(g)
  BY <1>4
<1>7. Committed(transitions) = g[Len(transitions)]
  BY DEF Committed
<1> HIDE DEF g, h
<1>8. \A n \in 0..Len(transitions) :
        g[n] = IF n = 0 THEN <<>>
               ELSE IF transitions[n].committed THEN Append(g[n - 1], transitions[n]) ELSE g[n - 1]
  BY <1>6
<1>9. \A n \in 0..Len(transitions) : g[n] = h[n]
  <2> DEFINE Bad == {n \in 0..Len(transitions) : g[n] # h[n]}
  <2> SUFFICES ASSUME Bad # {} PROVE FALSE
    OBVIOUS
  <2>1. Bad \subseteq Nat
    BY <1>1
  <2>2. PICK n \in Bad : \A m \in Bad : n <= m
    BY <2>1, LeastNatural
  <2>3. n \in 1..Len(transitions) /\ g[n - 1] = h[n - 1]
    BY <1>1, <1>5, <1>8, <2>2
  <2>4. g[n] = h[n]
    BY <1>1, <1>3, <1>8, <2>3
  <2> QED
    BY <2>2, <2>4
<1> QED
  BY <1>1, <1>5, <1>7, <1>9

\* The committed operations are those with a commit after them: all but the
\* last one, if there is none.
LEMMA CommittedOnes ==
  ASSUME NEW S, NEW records \in Seq(S), Alternate(records), NEW k \in Nat, Len(records) \in {2 * k, 2 * k + 1}
  PROVE  /\ Committed(recordTransitions(records)) = [m \in 1..k |-> Transition(records, 2 * m - 1)]
         /\ \A m \in 1..k : Transition(records, 2 * m - 1).committed
<1> DEFINE transitions == TransitionsOf(records, Len(records))
           all == HalfUp(Len(records))
<1>1. Len(records) \in Nat
  OBVIOUS
<1>2. all \in Nat /\ all \in {k, k + 1} /\ 2 * all \in {Len(records), Len(records) + 1}
  <2>1. all \in Nat /\ 2 * all \in {Len(records), Len(records) + 1}
    BY <1>1, Halves
  <2> HIDE DEF all
  <2>2. all \in {k, k + 1}
    BY <1>1, <2>1
  <2> QED
    BY <2>1, <2>2
<1>3. /\ transitions \in Seq({Transition(records, 2 * m - 1) : m \in 1..all}) /\ Len(transitions) = all
      /\ transitions = [m \in 1..all |-> Transition(records, 2 * m - 1)]
  BY <1>2 DEF TransitionsOf
<1>4. ASSUME NEW m \in 1..all
      PROVE  Transition(records, 2 * m - 1).committed <=> m <= k
  <2>1. m \in Nat \ {0} /\ (2 * m - 1) + 1 = 2 * m /\ 2 * m - 1 \in 1..Len(records)
    BY <1>2
  <2>2. Transition(records, 2 * m - 1).committed
          <=> /\ 2 * m - 1 < Len(records) /\ "commit" \in DOMAIN records[2 * m]
              /\ records[2 * m].seq[2] = records[2 * m - 1].seq[2] + 1
    BY <2>1 DEF Transition
  <2>3. 2 * m - 1 < Len(records) <=> m <= k
    BY <1>1, <1>2, <2>1
  <2>4. ASSUME m <= k
        PROVE  /\ "commit" \in DOMAIN records[2 * m]
               /\ records[2 * m].seq[2] = records[2 * m - 1].seq[2] + 1
    <3>1. 2 * m \in 1..Len(records)
      BY <2>1, <2>4
    <3>2. records[2 * m].seq = NaturalOf(2 * m) /\ records[2 * m - 1].seq = NaturalOf(2 * m - 1)
      BY <2>1, <3>1 DEF Alternate
    <3>3. "commit" \in DOMAIN records[2 * m]
      BY <2>1, <3>1 DEF Alternate
    <3> QED
      BY <2>1, <3>2, <3>3 DEF NaturalOf, Value
  <2> QED
    BY <2>2, <2>3, <2>4
<1>5. k \in 0..Len(transitions)
  BY <1>2, <1>3
<1>6. \A m \in 1..Len(transitions) : transitions[m].committed <=> m <= k
  BY <1>3, <1>4
<1>7. recordTransitions(records) = transitions
  BY TransitionsAre
<1> HIDE DEF transitions, all
<1>8. Committed(transitions) = SubSeq(transitions, 1, k)
  BY <1>3, <1>5, <1>6, CommittedAre
<1>9. SubSeq(transitions, 1, k) = [m \in 1..k |-> Transition(records, 2 * m - 1)]
  <2>1. SubSeq(transitions, 1, k) = [m \in 1..k |-> transitions[m]]
    BY <1>3, <1>5
  <2>2. \A m \in 1..k : transitions[m] = Transition(records, 2 * m - 1)
    BY <1>2, <1>3
  <2> QED
    BY <2>1, <2>2
<1>10. \A m \in 1..k : Transition(records, 2 * m - 1).committed
  BY <1>2, <1>4
<1> QED
  BY <1>7, <1>8, <1>9, <1>10

\* The payloads of the first operations.
PayloadsTo(records, k) == UNION {Payloads(records[2 * m - 1]) : m \in 1..k}

\* These are the values shown, of all of the committed ones or the first.
LEMMA ValuesShown ==
  ASSUME NEW S, NEW records \in Seq(S), Alternate(records), NEW k \in Nat, Len(records) \in {2 * k, 2 * k + 1}
  PROVE  LET committed == Committed(recordTransitions(records))
         IN  /\ recordValues(recordTransitions(records)) = PayloadsTo(records, k)
             /\ \A n \in 1..k : recordValues(SubSeq(committed, 1, n)) = PayloadsTo(records, n)
<1> DEFINE committed == Committed(recordTransitions(records))
           first(n) == [m \in 1..n |-> Transition(records, 2 * m - 1)]
<1>1. committed = first(k) /\ \A m \in 1..k : Transition(records, 2 * m - 1).committed
  BY CommittedOnes
<1>2. ASSUME NEW n \in 0..k, NEW t, Committed(t) = first(n)
      PROVE  recordValues(t) = PayloadsTo(records, n)
  <2>1. Range(first(n)) = {Transition(records, 2 * m - 1) : m \in 1..n}
    BY DEF Range
  <2>2. \A m \in 1..n : Transition(records, 2 * m - 1).record = records[2 * m - 1]
    BY DEF Transition
  <2> HIDE DEF first
  <2>3. recordValues(t) = UNION {Payloads(Transition(records, 2 * m - 1).record) : m \in 1..n}
    BY <1>2, <2>1 DEF recordValues
  <2> QED
    BY <2>2, <2>3 DEF PayloadsTo
<1>3. recordValues(recordTransitions(records)) = PayloadsTo(records, k)
  BY <1>1, <1>2
<1>4. ASSUME NEW n \in 1..k
      PROVE  recordValues(SubSeq(committed, 1, n)) = PayloadsTo(records, n)
  <2> DEFINE Transitions == {Transition(records, 2 * m - 1) : m \in 1..k}
  <2>1. ASSUME NEW j \in 1..k
        PROVE  /\ first(j) \in Seq(Transitions) /\ Len(first(j)) = j
               /\ \A m \in 1..j : first(j)[m] = Transition(records, 2 * m - 1)
    <3>1. j \in Nat /\ first(j) = [m \in 1..j |-> first(j)[m]]
      OBVIOUS
    <3>2. \A m \in 1..j : m \in 1..k /\ first(j)[m] = Transition(records, 2 * m - 1)
      OBVIOUS
    <3> HIDE DEF first
    <3>3. \A m \in 1..j : first(j)[m] \in Transitions
      BY <3>2
    <3> HIDE DEF Transitions
    <3>4. first(j) \in Seq(Transitions)
      BY <3>1, <3>3
    <3>5. Len(first(j)) = j
      BY <3>1
    <3>6. \A m \in 1..j : first(j)[m] = Transition(records, 2 * m - 1)
      BY <3>2
    <3> QED
      BY <3>4, <3>5, <3>6
  <2>2. k \in 1..k
    OBVIOUS
  <2>3. SubSeq(first(k), 1, n) = first(n) /\ SubSeq(first(n), 1, n) = first(n)
    BY <2>1, <2>2 DEF first
  <2>4. \A m \in 1..n : first(n)[m].committed <=> m <= n
    BY <1>1, <2>1
  <2>5. n \in 0..k /\ n \in 0..n
    OBVIOUS
  <2> HIDE DEF first, Transitions
  <2>6. Committed(first(n)) = first(n)
    BY <2>1, <2>3, <2>4, <2>5, CommittedAre
  <2>7. SubSeq(committed, 1, n) = first(n)
    BY <1>1, <2>3
  <2> QED
    BY <1>2, <2>5, <2>6, <2>7
<1> QED
  BY <1>3, <1>4

-----------------------------------------------------------------------------
(* What both take a line for *)

\* The kit's states, after a header.
KitReading(h, pending, records) == [ok |-> TRUE, header |-> <<h>>, pending |-> pending, records |-> records]

\* How the kit goes from one of them to the next: it takes a header,
LEMMA KitTakesHeader ==
  ASSUME NEW line
  PROVE  ParseLine(KitUnread, line) = IF KitHeader(line) THEN KitReading(line, FALSE, <<>>) ELSE KitRefused
<1>1. ParseLine(KitUnread, line) = IF KitHeader(line) THEN [KitUnread EXCEPT !.header = <<line>>] ELSE KitRefused
  BY DEF ParseLine, KitUnread
<1> DEFINE r == [KitUnread EXCEPT !.header = <<line>>]
           after == KitReading(line, FALSE, <<>>)
           Fields4 == {"ok", "header", "pending", "records"}
<1>2. r = [x \in Fields4 |-> r[x]] /\ after = [x \in Fields4 |-> after[x]]
  BY DEF KitUnread, KitReading
<1>3. r.ok = TRUE /\ r.header = <<line>> /\ r.pending = FALSE /\ r.records = <<>>
  BY DEF KitUnread
<1>4. after.ok = TRUE /\ after.header = <<line>> /\ after.pending = FALSE /\ after.records = <<>>
  BY DEF KitReading
<1> HIDE DEF r, after
<1>5. \A x \in Fields4 : r[x] = after[x]
  BY <1>3, <1>4
<1> HIDE DEF Fields4
<1>6. r = after
  BY <1>2, <1>5, SameFields
<1> QED
  BY <1>1, <1>6 DEF r, after

\* then records, with their numbers,
LEMMA KitTakesRecord ==
  ASSUME NEW h, NEW line, NEW pending \in BOOLEAN, NEW records
  PROVE  ParseLine(KitReading(h, pending, records), line)
           = IF KitRecord(line) /\ line.seq = NaturalOf(Len(records) + 1) /\ (pending <=> IsCommit(line))
             THEN KitReading(h, ~pending, Append(records, line)) ELSE KitRefused
<1> DEFINE before == KitReading(h, pending, records)
           r == [before EXCEPT !.pending = ~@, !.records = Append(@, line)]
           after == KitReading(h, ~pending, Append(records, line))
           Fields4 == {"ok", "header", "pending", "records"}
<1>1. /\ before = [x \in Fields4 |-> before[x]] /\ before.ok = TRUE /\ before.header = <<h>> /\ before.header # <<>>
      /\ before.pending = pending /\ before.records = records
  BY DEF KitReading
<1>2. after = [x \in Fields4 |-> after[x]]
  BY DEF KitReading
<1>3. after.ok = TRUE /\ after.header = <<h>> /\ after.pending = ~pending /\ after.records = Append(records, line)
  BY DEF KitReading
<1> HIDE DEF before, after
<1>4. r = [x \in Fields4 |-> r[x]]
  BY <1>1
<1>5. r.ok = TRUE /\ r.header = <<h>> /\ r.pending = ~pending /\ r.records = Append(records, line)
  BY <1>1
<1>6. ParseLine(before, line)
        = IF KitRecord(line) /\ line.seq = NaturalOf(Len(records) + 1) /\ (pending <=> IsCommit(line)) THEN r ELSE KitRefused
  <2>1. IsCommit(line) \in BOOLEAN
    BY DEF IsCommit
  <2> QED
    BY <1>1, <2>1 DEF ParseLine
<1> HIDE DEF r
<1>7. \A x \in Fields4 : r[x] = after[x]
  BY <1>3, <1>5
<1> HIDE DEF Fields4
<1>8. r = after
  BY <1>2, <1>4, <1>7, SameFields
<1> QED
  BY <1>6, <1>8 DEF before, after

\* and then nothing once it has refused.
LEMMA KitRefusedStays ==
  ASSUME NEW line
  PROVE  ParseLine(KitRefused, line) = KitRefused
BY DEF ParseLine, KitRefused, KitUnread

\* What the program takes for a header the kit does, unless it refers to nothing,
\* and the other way round unless for what the kit leaves to the program.
LEMMA HeadersReadAlike ==
  ASSUME NEW line
  PROVE  /\ ReadsHeader(line) /\ ~KitLess(line) => KitHeader(line)
         /\ KitHeader(line) /\ ~HeaderUnchecked(line) => ReadsHeader(line)
BY DEF KitHeader, ReadsHeader, KitLess, HeaderUnchecked

\* An operation, unless it has an index beyond 2^53-1.
LEMMA OperationsReadAlike ==
  ASSUME NEW op
  PROVE  /\ KitOp(op) => ReadsOp(op)
         /\ ReadsOp(op) /\ (\A field \in DOMAIN op : op[field][1] # "huge") => KitOp(op)
<1>1. ASSUME "type" \in DOMAIN op, op.type[2] \in OpTypes
      PROVE  opFields(op.type[2]) = readKeys(op.type[2])
  BY <1>1, KeysAgree
<1>2. \A field, v : /\ KitFieldReads(field, v) => FieldReads(field, v)
                    /\ FieldReads(field, v) /\ v[1] # "huge" => KitFieldReads(field, v)
  BY DEF KitFieldReads, FieldReads
<1>3. KitOp(op) => ReadsOp(op)
  BY <1>1, <1>2 DEF KitOp, ReadsOp, Fields
<1>4. ReadsOp(op) /\ (\A field \in DOMAIN op : op[field][1] # "huge") => KitOp(op)
  BY <1>1, <1>2 DEF KitOp, ReadsOp, Fields
<1> QED
  BY <1>3, <1>4

\* And a record with its number.
LEMMA RecordsReadAlike ==
  ASSUME NEW line, NEW n \in Nat \ {0}, line.seq = NaturalOf(n)
  PROVE  /\ KitRecord(line) => ReadsRecord(line) /\ (IsCommit(line) <=> "commit" \in DOMAIN line)
         /\ ReadsRecord(line) /\ ~KitLess(line) => KitRecord(line)
<1>1. line.seq[1] = "natural" /\ line.seq[2] = n
  BY DEF NaturalOf, Value
<1>2. ASSUME KitRecord(line)
      PROVE  ReadsRecord(line) /\ (IsCommit(line) <=> "commit" \in DOMAIN line)
  <2>1. CASE "commit" \in DOMAIN line
    <3>1. DOMAIN line = {"seq", "commit"} /\ line.commit = Value("boolean", TRUE)
      BY <1>2, <2>1 DEF KitRecord
    <3>2. IsCommit(line) /\ Fields(line, {"seq", "commit"}) /\ "seq" \in DOMAIN line
      BY <3>1 DEF IsCommit, Fields
    <3> QED
      BY <1>1, <2>1, <3>2 DEF ReadsRecord
  <2>2. CASE "commit" \notin DOMAIN line
    <3>1. /\ "seq" \in DOMAIN line /\ DOMAIN line \subseteq {"seq", "op", "values"}
          /\ "op" \in DOMAIN line /\ line.op[1] = "op" /\ KitOp(line.op[2])
          /\ "values" \in DOMAIN line => line.values[1] = "payloads"
      BY <1>2, <2>2 DEF KitRecord
    <3>2. ReadsOp(line.op[2])
      BY <3>1, OperationsReadAlike
    <3>3. ~IsCommit(line)
      BY <2>2 DEF IsCommit
    <3> QED
      BY <1>1, <2>2, <3>1, <3>2, <3>3 DEF ReadsRecord, Fields
  <2> QED
    BY <2>1, <2>2
<1>3. ASSUME ReadsRecord(line), ~KitLess(line)
      PROVE  KitRecord(line)
  <2>1. CASE IsCommit(line) /\ Fields(line, {"seq", "commit"})
    <3>1. DOMAIN line = {"seq", "commit"} /\ line.commit = Value("boolean", TRUE)
      BY <1>3, <2>1 DEF ReadsRecord, IsCommit, Fields
    <3> QED
      BY <1>1, <3>1 DEF KitRecord
  <2>2. CASE /\ "commit" \notin DOMAIN line /\ "op" \in DOMAIN line /\ Fields(line, {"seq", "op", "values"})
             /\ line.op[1] = "op" /\ ReadsOp(line.op[2])
             /\ "values" \in DOMAIN line => line.values[1] = "payloads"
    <3>1. "seq" \in DOMAIN line /\ DOMAIN line \subseteq {"seq", "op", "values"}
      BY <1>3, <2>2 DEF ReadsRecord, Fields
    <3>2. \A field \in DOMAIN line.op[2] : line.op[2][field][1] # "huge"
      BY <1>3, <2>2 DEF KitLess
    <3>3. KitOp(line.op[2])
      BY <2>2, <3>2, OperationsReadAlike
    <3>4. "definition" \notin DOMAIN line
      BY <3>1
    <3> QED
      BY <1>1, <2>2, <3>1, <3>3, <3>4 DEF KitRecord
  <2> QED
    BY <1>3, <2>1, <2>2 DEF ReadsRecord
<1> QED
  BY <1>2, <1>3

-----------------------------------------------------------------------------
(* Both readers, line by line *)

\* The operations that the kit has read.
ShownOps(records, k) == [m \in 1..k |-> readOp(records[2 * m - 1].op[2])]

\* The kit has read k operations with their commits, and maybe another one.
Turns(S, records, k) ==
  records \in Seq(S) /\ k \in Nat /\ Alternate(records) /\ Len(records) \in {2 * k, 2 * k + 1}

\* One of these is not what a step would accept, or has other payloads.
Differ(h, records, k) ==
  \E m \in 1..k : StepUnchecked(h.definition[2], ShownOps(records, m - 1), readOp(records[2 * m - 1].op[2]),
                               Payloads(records[2 * m - 1]))

\* What has been read stays what it is when a record is read.
LEMMA FirstStay ==
  ASSUME NEW S, NEW r, NEW k, Turns(S, r, k), NEW line, NEW j \in 0..k
  PROVE  /\ ShownOps(Append(r, line), j) = ShownOps(r, j)
         /\ PayloadsTo(Append(r, line), j) = PayloadsTo(r, j)
<1> DEFINE r2 == Append(r, line)
<1>1. r \in Seq(S) /\ Len(r) \in {2 * k, 2 * k + 1} /\ k \in Nat
  BY DEF Turns
<1>2. \A m \in 1..j : 2 * m - 1 \in 1..Len(r)
  BY <1>1
<1>3. \A n \in 1..Len(r) : r2[n] = r[n]
  BY <1>1
<1>4. \A m \in 1..j : r2[2 * m - 1] = r[2 * m - 1]
  BY <1>2, <1>3
<1> HIDE DEF r2
<1>5. ShownOps(r2, j) = ShownOps(r, j)
  BY <1>4 DEF ShownOps
<1>6. PayloadsTo(r2, j) = PayloadsTo(r, j)
  BY <1>4 DEF PayloadsTo
<1> QED
  BY <1>5, <1>6 DEF r2

\* A record that is read takes its turn.
LEMMA TurnsGrow ==
  ASSUME NEW S, NEW r, NEW k, Turns(S, r, k), NEW line \in S, "seq" \in DOMAIN line, line.seq = NaturalOf(Len(r) + 1),
         Len(r) = 2 * k + 1 <=> IsCommit(line), IsCommit(line) <=> "commit" \in DOMAIN line
  PROVE  /\ Len(r) = 2 * k + 1 => Turns(S, Append(r, line), k + 1) /\ Len(Append(r, line)) = 2 * (k + 1)
         /\ Len(r) = 2 * k =>
              /\ Turns(S, Append(r, line), k) /\ Len(Append(r, line)) = 2 * k + 1
              /\ Append(r, line)[2 * k + 1] = line
<1> DEFINE r2 == Append(r, line)
<1>1. r \in Seq(S) /\ Len(r) \in Nat /\ k \in Nat /\ Alternate(r) /\ Len(r) \in {2 * k, 2 * k + 1}
  BY DEF Turns
<1>2. /\ r2 \in Seq(S) /\ Len(r2) = Len(r) + 1 /\ r2[Len(r) + 1] = line
      /\ \A n \in 1..Len(r) : r2[n] = r[n]
  BY <1>1
<1> HIDE DEF r2
<1>3. \A n \in 1..Len(r2) : "seq" \in DOMAIN r2[n] /\ r2[n].seq = NaturalOf(n)
  <2>1. \A n \in 1..Len(r) : "seq" \in DOMAIN r[n] /\ r[n].seq = NaturalOf(n)
    BY <1>1 DEF Alternate
  <2>2. \A n \in 1..Len(r2) : n \in 1..Len(r) \/ n = Len(r) + 1
    BY <1>1, <1>2
  <2> QED
    BY <1>2, <2>1, <2>2
<1>4. ASSUME NEW i \in Nat \ {0}
      PROVE  /\ 2 * i - 1 <= Len(r2) => "commit" \notin DOMAIN r2[2 * i - 1]
             /\ 2 * i <= Len(r2) => "commit" \in DOMAIN r2[2 * i]
  <2>1. 2 * i - 1 <= Len(r) => "commit" \notin DOMAIN r2[2 * i - 1]
    <3>1. 2 * i - 1 <= Len(r) => "commit" \notin DOMAIN r[2 * i - 1]
      BY <1>1 DEF Alternate
    <3>2. 2 * i - 1 <= Len(r) => 2 * i - 1 \in 1..Len(r)
      BY <1>1
    <3> QED
      BY <1>2, <3>1, <3>2
  <2>2. 2 * i <= Len(r) => "commit" \in DOMAIN r2[2 * i]
    <3>1. 2 * i <= Len(r) => "commit" \in DOMAIN r[2 * i]
      BY <1>1 DEF Alternate
    <3>2. 2 * i <= Len(r) => 2 * i \in 1..Len(r)
      BY <1>1
    <3> QED
      BY <1>2, <3>1, <3>2
  <2>3. ASSUME 2 * i - 1 = Len(r) + 1
        PROVE  "commit" \notin DOMAIN r2[2 * i - 1]
    <3>1. Len(r) # 2 * k + 1
      BY <1>1, <2>3
    <3> QED
      BY <1>2, <2>3, <3>1
  <2>4. ASSUME 2 * i = Len(r) + 1
        PROVE  "commit" \in DOMAIN r2[2 * i]
    <3>1. Len(r) = 2 * k + 1
      BY <1>1, <2>4
    <3> QED
      BY <1>2, <2>4, <3>1
  <2>5. /\ 2 * i - 1 <= Len(r2) => 2 * i - 1 <= Len(r) \/ 2 * i - 1 = Len(r) + 1
        /\ 2 * i <= Len(r2) => 2 * i <= Len(r) \/ 2 * i = Len(r) + 1
    BY <1>1, <1>2
  <2> QED
    BY <2>1, <2>2, <2>3, <2>4, <2>5
<1>5. Alternate(r2)
  BY <1>3, <1>4 DEF Alternate
<1>6. ASSUME Len(r) = 2 * k + 1
      PROVE  Turns(S, r2, k + 1) /\ Len(r2) = 2 * (k + 1)
  <2>1. Len(r2) = 2 * (k + 1) /\ k + 1 \in Nat
    BY <1>1, <1>2, <1>6
  <2> QED
    BY <1>2, <1>5, <2>1 DEF Turns
<1>7. ASSUME Len(r) = 2 * k
      PROVE  Turns(S, r2, k) /\ Len(r2) = 2 * k + 1 /\ r2[2 * k + 1] = line
  <2>1. Len(r2) = 2 * k + 1 /\ Len(r) + 1 = 2 * k + 1
    BY <1>1, <1>2, <1>7
  <2> QED
    BY <1>1, <1>2, <1>5, <2>1 DEF Turns
<1> QED
  BY <1>6, <1>7 DEF r2

\* The first ones of them are those of fewer records.
LEMMA ShownFirst ==
  ASSUME NEW r, NEW k \in Nat, NEW j \in 0..k
  PROVE  SubSeq(ShownOps(r, k), 1, j) = ShownOps(r, j)
<1> DEFINE All == {readOp(r[2 * m - 1].op[2]) : m \in 1..k}
<1>1. ASSUME NEW n \in 0..k
      PROVE  /\ ShownOps(r, n) \in Seq(All) /\ Len(ShownOps(r, n)) = n
             /\ \A m \in 1..n : ShownOps(r, n)[m] = readOp(r[2 * m - 1].op[2])
  <2>1. n \in Nat /\ ShownOps(r, n) = [m \in 1..n |-> ShownOps(r, n)[m]]
    BY DEF ShownOps
  <2>2. \A m \in 1..n : m \in 1..k /\ ShownOps(r, n)[m] = readOp(r[2 * m - 1].op[2])
    BY DEF ShownOps
  <2>3. \A m \in 1..n : ShownOps(r, n)[m] \in All
    BY <2>2
  <2> HIDE DEF All
  <2>4. ShownOps(r, n) \in Seq(All) /\ Len(ShownOps(r, n)) = n
    BY <2>1, <2>3
  <2> QED
    BY <2>2, <2>4
<1> HIDE DEF All
<1>2. k \in 0..k
  OBVIOUS
<1>3. PICK a, b : a = ShownOps(r, k) /\ b = ShownOps(r, j)
  OBVIOUS
<1>4. a \in Seq(All) /\ Len(a) = k /\ b \in Seq(All) /\ Len(b) = j
  BY <1>1, <1>2, <1>3
<1>5. \A m \in 1..j : a[m] = b[m]
  <2>1. \A m \in 1..j : m \in 1..k
    OBVIOUS
  <2> QED
    BY <1>1, <1>2, <1>3, <2>1
<1>6. SubSeq(a, 1, j) = b
  BY <1>4, <1>5
<1> QED
  BY <1>3, <1>6

\* With its commit the last operation is one of them.
LEMMA OneMore ==
  ASSUME NEW S, NEW h, NEW r, NEW k, Turns(S, r, k), Len(r) = 2 * k + 1, NEW line
  PROVE  LET op == readOp(r[2 * k + 1].op[2])
             r2 == Append(r, line)
         IN  /\ ShownOps(r2, k + 1) = Append(ShownOps(r, k), op)
             /\ PayloadsTo(r2, k + 1) = PayloadsTo(r, k) \cup Payloads(r[2 * k + 1])
             /\ Differ(h, r2, k + 1)
                  <=> \/ Differ(h, r, k)
                      \/ StepUnchecked(h.definition[2], ShownOps(r, k), op, Payloads(r[2 * k + 1]))
<1> DEFINE op == readOp(r[2 * k + 1].op[2])
           r2 == Append(r, line)
<1>1. r \in Seq(S) /\ k \in Nat /\ Len(r) = 2 * k + 1
  BY DEF Turns
<1>2. \A m \in 1..k + 1 : r2[2 * m - 1] = r[2 * m - 1]
  <2>1. \A m \in 1..k + 1 : 2 * m - 1 \in 1..Len(r)
    BY <1>1
  <2>2. \A n \in 1..Len(r) : r2[n] = r[n]
    BY <1>1
  <2> QED
    BY <2>1, <2>2
<1>3. k + 1 \in 1..k + 1 /\ 2 * (k + 1) - 1 = 2 * k + 1 /\ (k + 1) - 1 = k /\ 1..k + 1 = (1..k) \cup {k + 1}
  BY <1>1
<1>4. ASSUME NEW j \in 0..k
      PROVE  ShownOps(r2, j) = ShownOps(r, j)
  <2>1. ShownOps(Append(r, line), j) = ShownOps(r, j)
    BY FirstStay
  <2> QED
    BY <2>1
<1> HIDE DEF r2
<1>5. ShownOps(r2, k + 1) = Append(ShownOps(r, k), op)
  BY <1>1, <1>2, <1>3 DEF ShownOps
<1>6. PayloadsTo(r2, k + 1) = PayloadsTo(r, k) \cup Payloads(r[2 * k + 1])
  BY <1>2, <1>3 DEF PayloadsTo
<1> DEFINE Differs(m) ==
             StepUnchecked(h.definition[2], ShownOps(r, m - 1), readOp(r[2 * m - 1].op[2]), Payloads(r[2 * m - 1]))
<1>7. Differ(h, r2, k + 1) <=> \E m \in 1..k + 1 : Differs(m)
  <2>1. ASSUME NEW m \in 1..k + 1
        PROVE  /\ ShownOps(r2, m - 1) = ShownOps(r, m - 1)
               /\ r2[2 * m - 1] = r[2 * m - 1]
    <3>1. m - 1 \in 0..k
      BY <1>1
    <3> QED
      BY <1>2, <1>4, <3>1
  <2> QED
    BY <2>1 DEF Differ
<1>8. Differ(h, r, k) <=> \E m \in 1..k : Differs(m)
  BY DEF Differ
<1>9. Differs(k + 1) <=> StepUnchecked(h.definition[2], ShownOps(r, k), op, Payloads(r[2 * k + 1]))
  BY <1>3
<1> HIDE DEF Differs
<1>10. Differ(h, r2, k + 1)
        <=> \/ Differ(h, r, k)
            \/ StepUnchecked(h.definition[2], ShownOps(r, k), op, Payloads(r[2 * k + 1]))
  BY <1>3, <1>7, <1>8, <1>9
<1> QED
  BY <1>5, <1>6, <1>10 DEF r2

\* The states of the two readers that have read the same header and records.
KitAt(h, r, k) == KitReading(h, Len(r) = 2 * k + 1, r)
CheckAt(h, r, k) ==
  Reading(h, Len(r) + 1, IF Len(r) = 2 * k + 1 THEN <<r[2 * k + 1]>> ELSE <<>>, ShownOps(r, k), PayloadsTo(r, k))

\* As long as the program refuses no line the kit has read the same ones;
\* afterwards it refuses too, or has read what it leaves to the program.
Together(S, c, g) ==
  \/ c = Unread /\ g = KitUnread
  \/ \E h, r, k : Turns(S, r, k) /\ g = KitAt(h, r, k) /\ c = CheckAt(h, r, k)
  \/ c = Refused /\ g = KitRefused
  \/ c = Refused /\ \E h, r, k : Turns(S, r, k) /\ g = KitAt(h, r, k) /\ (HeaderUnchecked(h) \/ Differ(h, r, k))

\* What the kit reads next.
KitFollows(r, k, line) ==
  KitRecord(line) /\ line.seq = NaturalOf(Len(r) + 1) /\ (Len(r) = 2 * k + 1 <=> IsCommit(line))

\* It reads a record, or refuses.
LEMMA KitNext ==
  ASSUME NEW S, NEW h, NEW r, NEW k, Turns(S, r, k), NEW line \in S
  PROVE  LET r2 == Append(r, line)
         IN  /\ KitFollows(r, k, line) /\ Len(r) = 2 * k + 1 =>
                  Turns(S, r2, k + 1) /\ Len(r2) = 2 * (k + 1) /\ ParseLine(KitAt(h, r, k), line) = KitAt(h, r2, k + 1)
             /\ KitFollows(r, k, line) /\ Len(r) = 2 * k =>
                  /\ Turns(S, r2, k) /\ Len(r2) = 2 * k + 1 /\ r2[2 * k + 1] = line
                  /\ ParseLine(KitAt(h, r, k), line) = KitAt(h, r2, k)
             /\ ~KitFollows(r, k, line) => ParseLine(KitAt(h, r, k), line) = KitRefused
<1> DEFINE r2 == Append(r, line)
<1>1. k \in Nat /\ Len(r) \in {2 * k, 2 * k + 1} /\ Len(r) \in Nat
  BY DEF Turns
<1>2. PICK pending \in BOOLEAN : pending <=> Len(r) = 2 * k + 1
  OBVIOUS
<1>3. KitAt(h, r, k) = KitReading(h, pending, r)
  BY <1>2 DEF KitAt
<1>4. ParseLine(KitAt(h, r, k), line) = IF KitFollows(r, k, line) THEN KitReading(h, ~pending, r2) ELSE KitRefused
  BY <1>2, <1>3, KitTakesRecord DEF KitFollows
<1>5. ASSUME KitFollows(r, k, line)
      PROVE  /\ Len(r) = 2 * k + 1 => Turns(S, r2, k + 1) /\ Len(r2) = 2 * (k + 1)
             /\ Len(r) = 2 * k => Turns(S, r2, k) /\ Len(r2) = 2 * k + 1 /\ r2[2 * k + 1] = line
  <2>1. Len(r) + 1 \in Nat \ {0}
    BY <1>1
  <2>2. line.seq = NaturalOf(Len(r) + 1) /\ (Len(r) = 2 * k + 1 <=> IsCommit(line))
    BY <1>5 DEF KitFollows
  <2>3. IsCommit(line) <=> "commit" \in DOMAIN line
    BY <1>5, <2>1, RecordsReadAlike DEF KitFollows
  <2>4. "seq" \in DOMAIN line
    BY <1>5 DEF KitFollows, KitRecord
  <2> QED
    BY <2>2, <2>3, <2>4, TurnsGrow
<1> HIDE DEF r2
<1>6. ASSUME KitFollows(r, k, line), Len(r) = 2 * k + 1
      PROVE  ParseLine(KitAt(h, r, k), line) = KitAt(h, r2, k + 1)
  <2>1. Len(r2) # 2 * (k + 1) + 1
    BY <1>1, <1>5, <1>6
  <2>2. ~pending <=> Len(r2) = 2 * (k + 1) + 1
    BY <1>2, <1>6, <2>1
  <2> QED
    BY <1>4, <1>6, <2>2 DEF KitAt
<1>7. ASSUME KitFollows(r, k, line), Len(r) = 2 * k
      PROVE  ParseLine(KitAt(h, r, k), line) = KitAt(h, r2, k)
  <2>1. ~pending <=> Len(r2) = 2 * k + 1
    BY <1>1, <1>2, <1>5, <1>7
  <2> QED
    BY <1>4, <1>7, <2>1 DEF KitAt
<1> QED
  BY <1>4, <1>5, <1>6, <1>7 DEF r2

\* What the kit has read stays read.
LEMMA DifferStays ==
  ASSUME NEW S, NEW h, NEW r, NEW k, Turns(S, r, k), NEW line, Differ(h, r, k)
  PROVE  /\ Differ(h, Append(r, line), k)
         /\ Len(r) = 2 * k + 1 => Differ(h, Append(r, line), k + 1)
<1> DEFINE r2 == Append(r, line)
<1>1. r \in Seq(S) /\ k \in Nat /\ Len(r) \in {2 * k, 2 * k + 1}
  BY DEF Turns
<1>2. ASSUME NEW m \in 1..k
      PROVE  r2[2 * m - 1] = r[2 * m - 1] /\ ShownOps(r2, m - 1) = ShownOps(r, m - 1)
  <2>1. 2 * m - 1 \in 1..Len(r) /\ m - 1 \in 0..k
    BY <1>1
  <2>2. r2[2 * m - 1] = r[2 * m - 1]
    BY <1>1, <2>1
  <2>3. ShownOps(r2, m - 1) = ShownOps(r, m - 1)
    BY <2>1, FirstStay
  <2> QED
    BY <2>2, <2>3
<1> HIDE DEF r2
<1>3. Differ(h, r2, k)
  BY <1>2 DEF Differ
<1>4. \A m \in 1..k : m \in 1..k + 1
  BY <1>1
<1>5. Differ(h, r2, k + 1)
  BY <1>3, <1>4 DEF Differ
<1> QED
  BY <1>3, <1>5 DEF r2

\* Both begin with a header.
LEMMA TogetherAtFirst ==
  ASSUME NEW S, NEW line
  PROVE  \/ Together(S, CheckLine(Unread, line), ParseLine(KitUnread, line))
         \/ KitLess(line) /\ ParseLine(KitUnread, line) = KitRefused
<1>1. CASE KitHeader(line)
  <2>1. CheckLine(Unread, line) = IF ReadsHeader(line) THEN Reading(line, 1, <<>>, <<>>, {}) ELSE Refused
    BY HeaderIsTaken
  <2>2. ParseLine(KitUnread, line) = KitReading(line, FALSE, <<>>)
    BY <1>1, KitTakesHeader
  <2>3. PICK r, k : r = <<>> /\ k = 0
    OBVIOUS
  <2>4. Len(r) = 0 /\ r \in Seq(S) /\ 1..0 = {}
    BY <2>3
  <2>5. Alternate(r)
    BY <2>3, <2>4 DEF Alternate
  <2>6. Turns(S, r, k)
    BY <2>3, <2>4, <2>5 DEF Turns
  <2>7. KitAt(line, r, k) = KitReading(line, FALSE, <<>>)
    <3>1. (Len(r) = 2 * k + 1) = FALSE
      BY <2>3, <2>4
    <3> QED
      BY <2>3, <3>1 DEF KitAt
  <2>8. CheckAt(line, r, k) = Reading(line, 1, <<>>, <<>>, {})
    <3>1. ShownOps(r, k) = <<>>
      BY <2>3, <2>4 DEF ShownOps
    <3>2. PayloadsTo(r, k) = {}
      BY <2>3, <2>4 DEF PayloadsTo
    <3>3. Len(r) + 1 = 1 /\ Len(r) # 2 * k + 1
      BY <2>3, <2>4
    <3> QED
      BY <3>1, <3>2, <3>3 DEF CheckAt
  <2>9. CASE ReadsHeader(line)
    BY <2>1, <2>2, <2>6, <2>7, <2>8, <2>9 DEF Together
  <2>10. CASE ~ReadsHeader(line)
    <3>1. HeaderUnchecked(line)
      BY <1>1, <2>10, HeadersReadAlike
    <3> QED
      BY <2>1, <2>2, <2>6, <2>7, <2>10, <3>1 DEF Together
  <2> QED
    BY <2>9, <2>10
<1>2. CASE ~KitHeader(line)
  <2>1. ParseLine(KitUnread, line) = KitRefused
    BY <1>2, KitTakesHeader
  <2>2. ReadsHeader(line) => KitLess(line)
    BY <1>2, HeadersReadAlike
  <2>3. ~ReadsHeader(line) => CheckLine(Unread, line) = Refused
    BY HeaderIsTaken
  <2> QED
    BY <2>1, <2>2, <2>3 DEF Together
<1> QED
  BY <1>1, <1>2

\* What the program takes for the next record the kit does too, unless it has a
\* greater index.
LEMMA FollowsAlike ==
  ASSUME NEW S, NEW r, NEW k, Turns(S, r, k), NEW line
  PROVE  /\ KitFollows(r, k, line) =>
              ReadsRecord(line) /\ line.seq = NaturalOf(Len(r) + 1) /\ (IsCommit(line) <=> Len(r) = 2 * k + 1)
         /\ /\ ReadsRecord(line) /\ line.seq = NaturalOf(Len(r) + 1) /\ (IsCommit(line) <=> Len(r) = 2 * k + 1)
            /\ ~KitLess(line)
            => KitFollows(r, k, line)
<1>1. Len(r) \in Nat /\ k \in Nat
  BY DEF Turns
<1>2. ASSUME line.seq = NaturalOf(Len(r) + 1)
      PROVE  /\ KitRecord(line) => ReadsRecord(line)
             /\ ReadsRecord(line) /\ ~KitLess(line) => KitRecord(line)
  <2>1. PICK n \in Nat \ {0} : n = Len(r) + 1
    BY <1>1
  <2>2. line.seq = NaturalOf(n)
    BY <1>2, <2>1
  <2> QED
    BY <2>2, RecordsReadAlike
<1>3. KitFollows(r, k, line) =>
        ReadsRecord(line) /\ line.seq = NaturalOf(Len(r) + 1) /\ (IsCommit(line) <=> Len(r) = 2 * k + 1)
  BY <1>1, <1>2 DEF KitFollows
<1>4. ASSUME ReadsRecord(line), line.seq = NaturalOf(Len(r) + 1), IsCommit(line) <=> Len(r) = 2 * k + 1, ~KitLess(line)
      PROVE  KitFollows(r, k, line)
  BY <1>1, <1>2, <1>4 DEF KitFollows
<1> QED
  BY <1>3, <1>4

\* After an operation both take its commit, if a step accepts it and has its payloads.
LEMMA TogetherAtCommit ==
  ASSUME NEW S, NEW h, NEW r, NEW k, Turns(S, r, k), Len(r) = 2 * k + 1, NEW line \in S
  PROVE  \/ Together(S, CheckLine(CheckAt(h, r, k), line), ParseLine(KitAt(h, r, k), line))
         \/ KitLess(line) /\ ParseLine(KitAt(h, r, k), line) = KitRefused
<1> DEFINE r2 == Append(r, line)
           op == readOp(r[2 * k + 1].op[2])
           Accepted == ~StepUnchecked(h.definition[2], ShownOps(r, k), op, Payloads(r[2 * k + 1]))
<1>1. CheckAt(h, r, k) = Reading(h, Len(r) + 1, <<r[2 * k + 1]>>, ShownOps(r, k), PayloadsTo(r, k))
  BY DEF CheckAt
<1>2. CheckLine(CheckAt(h, r, k), line)
        = IF Commits(h, Len(r) + 1, r[2 * k + 1], ShownOps(r, k), line)
          THEN Reading(h, Len(r) + 1 + 1, <<>>, Append(ShownOps(r, k), op), PayloadsTo(r, k) \cup Payloads(r[2 * k + 1]))
          ELSE Refused
  BY <1>1, CommitIsTaken
<1>3. CASE KitFollows(r, k, line)
  <2>1. ReadsRecord(line) /\ line.seq = NaturalOf(Len(r) + 1) /\ IsCommit(line)
    BY <1>3, FollowsAlike
  <2>2. Turns(S, r2, k + 1) /\ Len(r2) = 2 * (k + 1) /\ ParseLine(KitAt(h, r, k), line) = KitAt(h, r2, k + 1)
    BY <1>3, KitNext
  <2>3. /\ ShownOps(r2, k + 1) = Append(ShownOps(r, k), op)
        /\ PayloadsTo(r2, k + 1) = PayloadsTo(r, k) \cup Payloads(r[2 * k + 1])
        /\ Differ(h, r2, k + 1) <=> Differ(h, r, k) \/ ~Accepted
    BY OneMore
  <2>4. Len(r) + 1 + 1 = Len(r2) + 1 /\ Len(r2) # 2 * (k + 1) + 1
    <3>1. k \in Nat
      BY DEF Turns
    <3> QED
      BY <2>2, <3>1
  <2> HIDE DEF r2
  <2>5. CASE Accepted
    <3>1. CheckLine(CheckAt(h, r, k), line)
            = Reading(h, Len(r2) + 1, <<>>, ShownOps(r2, k + 1), PayloadsTo(r2, k + 1))
      <4>1. Commits(h, Len(r) + 1, r[2 * k + 1], ShownOps(r, k), line)
        BY <2>1, <2>5 DEF Commits
      <4> QED
        BY <1>2, <2>3, <2>4, <4>1
    <3>2. CheckLine(CheckAt(h, r, k), line) = CheckAt(h, r2, k + 1)
      BY <2>4, <3>1 DEF CheckAt
    <3> QED
      BY <2>2, <3>2 DEF Together
  <2>6. CASE ~Accepted
    <3>1. CheckLine(CheckAt(h, r, k), line) = Refused
      BY <1>2, <2>6 DEF Commits
    <3> QED
      BY <2>2, <2>3, <2>6, <3>1 DEF Together
  <2> QED
    BY <2>5, <2>6
<1>4. CASE ~KitFollows(r, k, line)
  <2>1. ParseLine(KitAt(h, r, k), line) = KitRefused
    BY <1>4, KitNext
  <2>2. ~KitLess(line) => ~(ReadsRecord(line) /\ line.seq = NaturalOf(Len(r) + 1) /\ IsCommit(line))
    BY <1>4, FollowsAlike
  <2>3. ~KitLess(line) => CheckLine(CheckAt(h, r, k), line) = Refused
    BY <1>2, <2>2 DEF Commits
  <2> QED
    BY <2>1, <2>3 DEF Together
<1> QED
  BY <1>3, <1>4

\* Otherwise both take an operation.
LEMMA TogetherAtOperation ==
  ASSUME NEW S, NEW h, NEW r, NEW k, Turns(S, r, k), Len(r) = 2 * k, NEW line \in S
  PROVE  \/ Together(S, CheckLine(CheckAt(h, r, k), line), ParseLine(KitAt(h, r, k), line))
         \/ KitLess(line) /\ ParseLine(KitAt(h, r, k), line) = KitRefused
<1> DEFINE r2 == Append(r, line)
<1>1. Len(r) # 2 * k + 1 /\ k \in Nat /\ k \in 0..k
  BY DEF Turns
<1>2. CheckAt(h, r, k) = Reading(h, Len(r) + 1, <<>>, ShownOps(r, k), PayloadsTo(r, k))
  BY <1>1 DEF CheckAt
<1>3. CheckLine(CheckAt(h, r, k), line)
        = IF ReadsRecord(line) /\ line.seq = NaturalOf(Len(r) + 1) /\ ~IsCommit(line)
          THEN Reading(h, Len(r) + 1 + 1, <<line>>, ShownOps(r, k), PayloadsTo(r, k))
          ELSE Refused
  BY <1>2, OperationIsTaken
<1>4. CASE KitFollows(r, k, line)
  <2>1. ReadsRecord(line) /\ line.seq = NaturalOf(Len(r) + 1) /\ ~IsCommit(line)
    BY <1>1, <1>4, FollowsAlike
  <2>2. /\ Turns(S, r2, k) /\ Len(r2) = 2 * k + 1 /\ r2[2 * k + 1] = line
        /\ ParseLine(KitAt(h, r, k), line) = KitAt(h, r2, k)
    BY <1>4, KitNext
  <2>3. ShownOps(r2, k) = ShownOps(r, k) /\ PayloadsTo(r2, k) = PayloadsTo(r, k)
    BY <1>1, FirstStay
  <2>4. Len(r) + 1 + 1 = Len(r2) + 1
    BY <1>1, <2>2
  <2> HIDE DEF r2
  <2>5. CheckLine(CheckAt(h, r, k), line)
          = Reading(h, Len(r2) + 1, <<r2[2 * k + 1]>>, ShownOps(r2, k), PayloadsTo(r2, k))
    BY <1>3, <2>1, <2>2, <2>3, <2>4
  <2>6. CheckLine(CheckAt(h, r, k), line) = CheckAt(h, r2, k)
    BY <2>2, <2>5 DEF CheckAt
  <2> QED
    BY <2>2, <2>6 DEF Together
<1>5. CASE ~KitFollows(r, k, line)
  <2>1. ParseLine(KitAt(h, r, k), line) = KitRefused
    BY <1>5, KitNext
  <2>2. ~KitLess(line) => ~(ReadsRecord(line) /\ line.seq = NaturalOf(Len(r) + 1) /\ ~IsCommit(line))
    BY <1>1, <1>5, FollowsAlike
  <2>3. ~KitLess(line) => CheckLine(CheckAt(h, r, k), line) = Refused
    BY <1>3, <2>2
  <2> QED
    BY <2>1, <2>3 DEF Together
<1> QED
  BY <1>4, <1>5

\* What the program has refused the kit does not make good.
LEMMA TogetherRefused ==
  ASSUME NEW S, NEW h, NEW r, NEW k, Turns(S, r, k), HeaderUnchecked(h) \/ Differ(h, r, k), NEW line \in S
  PROVE  Together(S, CheckLine(Refused, line), ParseLine(KitAt(h, r, k), line))
<1> DEFINE r2 == Append(r, line)
<1>1. CheckLine(Refused, line) = Refused
  BY RefusedStays
<1>2. CASE KitFollows(r, k, line) /\ Len(r) = 2 * k + 1
  <2>1. Turns(S, r2, k + 1) /\ ParseLine(KitAt(h, r, k), line) = KitAt(h, r2, k + 1)
    BY <1>2, KitNext
  <2>2. HeaderUnchecked(h) \/ Differ(h, r2, k + 1)
    BY <1>2, DifferStays
  <2> QED
    BY <1>1, <2>1, <2>2 DEF Together
<1>3. CASE KitFollows(r, k, line) /\ Len(r) = 2 * k
  <2>1. Turns(S, r2, k) /\ ParseLine(KitAt(h, r, k), line) = KitAt(h, r2, k)
    BY <1>3, KitNext
  <2>2. HeaderUnchecked(h) \/ Differ(h, r2, k)
    BY DifferStays
  <2> QED
    BY <1>1, <2>1, <2>2 DEF Together
<1>4. CASE ~KitFollows(r, k, line)
  <2>1. ParseLine(KitAt(h, r, k), line) = KitRefused
    BY <1>4, KitNext
  <2> QED
    BY <1>1, <2>1 DEF Together
<1>5. Len(r) \in {2 * k, 2 * k + 1}
  BY DEF Turns
<1> QED
  BY <1>2, <1>3, <1>4, <1>5

\* So they stay together up to a line that the kit does not read.
LEMMA TogetherNext ==
  ASSUME NEW S, NEW line \in S, NEW c, NEW g, Together(S, c, g)
  PROVE  \/ Together(S, CheckLine(c, line), ParseLine(g, line))
         \/ KitLess(line) /\ ParseLine(g, line) = KitRefused
<1>1. CASE c = Unread /\ g = KitUnread
  BY <1>1, TogetherAtFirst
<1>2. ASSUME NEW h, NEW r, NEW k, Turns(S, r, k), g = KitAt(h, r, k), c = CheckAt(h, r, k)
      PROVE  \/ Together(S, CheckLine(c, line), ParseLine(g, line))
             \/ KitLess(line) /\ ParseLine(g, line) = KitRefused
  <2>1. Len(r) \in {2 * k, 2 * k + 1}
    BY <1>2 DEF Turns
  <2> QED
    BY <1>2, <2>1, TogetherAtCommit, TogetherAtOperation
<1>3. CASE c = Refused /\ g = KitRefused
  BY <1>3, RefusedStays, KitRefusedStays DEF Together
<1>4. ASSUME NEW h, NEW r, NEW k, Turns(S, r, k), g = KitAt(h, r, k), c = Refused,
             HeaderUnchecked(h) \/ Differ(h, r, k)
      PROVE  Together(S, CheckLine(c, line), ParseLine(g, line))
  BY <1>4, TogetherRefused
<1> QED
  BY <1>1, <1>2, <1>3, <1>4 DEF Together

\* What the kit makes of the lines up to each of them.
IsLogs(f, s) ==
  f = [n \in 0..Len(s) |-> IF n = 0 THEN KitUnread ELSE ParseLine(f[n - 1], s[n])]

\* This can be counted up.
LEMMA LogsExist ==
  ASSUME NEW S, NEW s \in Seq(S)
  PROVE  \E f : IsLogs(f, s)
<1> DEFINE Upto(n, f) == f = [m \in 0..n |-> IF m = 0 THEN KitUnread ELSE ParseLine(f[m - 1], s[m])]
           Bad == {n \in Nat : ~\E f : Upto(n, f)}
<1>1. Upto(0, [m \in 0..0 |-> KitUnread])
  OBVIOUS
<1>2. ASSUME NEW n \in Nat, NEW f, Upto(n, f)
      PROVE  \E g : Upto(n + 1, g)
  <2> DEFINE g == [m \in 0..n + 1 |-> IF m = n + 1 THEN ParseLine(f[n], s[n + 1]) ELSE f[m]]
  <2>1. \A m \in 0..n : f[m] = IF m = 0 THEN KitUnread ELSE ParseLine(f[m - 1], s[m])
    BY <1>2
  <2>2. g[n + 1] = ParseLine(g[n], s[n + 1])
    OBVIOUS
  <2>3. ASSUME NEW m \in 0..n
        PROVE  g[m] = IF m = 0 THEN KitUnread ELSE ParseLine(g[m - 1], s[m])
    BY <2>1
  <2>4. g = [m \in 0..n + 1 |-> g[m]]
    OBVIOUS
  <2> HIDE DEF g
  <2>5. ASSUME NEW m \in 0..n + 1
        PROVE  g[m] = IF m = 0 THEN KitUnread ELSE ParseLine(g[m - 1], s[m])
    <3>1. CASE m \in 0..n
      BY <2>3, <3>1
    <3>2. CASE m = n + 1
      BY <2>2, <3>2
    <3> QED
      BY <3>1, <3>2
  <2>6. Upto(n + 1, g)
    BY <2>4, <2>5
  <2> QED
    BY <2>6
<1> HIDE DEF Upto
<1>3. Bad = {}
  <2> SUFFICES ASSUME Bad # {} PROVE FALSE
    OBVIOUS
  <2>1. PICK n \in Bad : \A m \in Bad : n <= m
    BY LeastNatural
  <2>2. n # 0
    BY <1>1, <2>1
  <2>3. n - 1 \in Nat /\ n - 1 \notin Bad
    BY <2>1, <2>2
  <2> QED
    BY <1>2, <2>1, <2>3
<1>4. Len(s) \in Nat
  OBVIOUS
<1>5. PICK f : Upto(Len(s), f)
  BY <1>3, <1>4
<1> QED
  BY <1>5 DEF Upto, IsLogs

\* So parseRecordLog is what the last line makes of what the ones before it made.
LEMMA LogsAre ==
  ASSUME NEW S, NEW s \in Seq(S), NEW t
  PROVE  \E f : /\ f[0] = KitUnread
                /\ \A n \in 1..Len(s) : f[n] = ParseLine(f[n - 1], s[n])
                /\ parseRecordLog(s, t) = f[Len(s)]
<1> DEFINE f == CHOOSE f : IsLogs(f, s)
<1>1. IsLogs(f, s)
  BY LogsExist
<1>2. parseRecordLog(s, t) = f[Len(s)]
  BY DEF parseRecordLog, IsLogs
<1> HIDE DEF f
<1>3. \A n \in 0..Len(s) : f[n] = IF n = 0 THEN KitUnread ELSE ParseLine(f[n - 1], s[n])
  BY <1>1 DEF IsLogs
<1> QED
  BY <1>2, <1>3

-----------------------------------------------------------------------------
(* KitShowsJournals *)

\* Over all lines, unless there is one that the kit does not read.
LEMMA BothRead ==
  ASSUME NEW S, NEW s \in Seq(S), NEW f, NEW g,
         f[0] = Unread, \A n \in 1..Len(s) : f[n] = CheckLine(f[n - 1], s[n]),
         g[0] = KitUnread, \A n \in 1..Len(s) : g[n] = ParseLine(g[n - 1], s[n])
  PROVE  \/ Together(S, f[Len(s)], g[Len(s)])
         \/ (\E n \in 1..Len(s) : KitLess(s[n])) /\ g[Len(s)] = KitRefused
<1> DEFINE Good(n) == \/ Together(S, f[n], g[n])
                      \/ (\E m \in 1..n : KitLess(s[m])) /\ g[n] = KitRefused
           Bad == {n \in 0..Len(s) : ~Good(n)}
<1>1. Len(s) \in Nat
  OBVIOUS
<1>2. Good(0)
  BY DEF Together
<1>3. ASSUME NEW n \in 1..Len(s), Good(n - 1)
      PROVE  Good(n)
  <2>1. PICK line \in S : line = s[n]
    OBVIOUS
  <2>2. PICK c, h : c = f[n - 1] /\ h = g[n - 1]
    OBVIOUS
  <2>3. f[n] = CheckLine(c, line) /\ g[n] = ParseLine(h, line)
    BY <2>1, <2>2
  <2>4. n \in 1..n /\ \A m \in 1..n - 1 : m \in 1..n
    BY <1>1
  <2>5. CASE Together(S, c, h)
    <3>1. \/ Together(S, CheckLine(c, line), ParseLine(h, line))
          \/ KitLess(line) /\ ParseLine(h, line) = KitRefused
      BY <2>3, <2>5, TogetherNext
    <3> QED
      BY <2>1, <2>3, <2>4, <3>1
  <2>6. CASE (\E m \in 1..n - 1 : KitLess(s[m])) /\ h = KitRefused
    BY <2>3, <2>4, <2>6, KitRefusedStays
  <2> QED
    BY <1>3, <2>2, <2>5, <2>6
<1> HIDE DEF Good
<1>4. Bad = {}
  <2> SUFFICES ASSUME Bad # {} PROVE FALSE
    OBVIOUS
  <2>1. Bad \subseteq Nat
    BY <1>1
  <2>2. PICK n \in Bad : \A m \in Bad : n <= m
    BY <2>1, LeastNatural
  <2>3. n \in 1..Len(s) /\ n - 1 \in 0..Len(s) /\ n - 1 \notin Bad
    BY <1>1, <1>2, <2>2
  <2> QED
    BY <1>3, <2>2, <2>3
<1>5. Good(Len(s))
  BY <1>1, <1>4
<1> QED
  BY <1>5 DEF Good

\* What the kit shows are the committed ones of its records.
LEMMA ShownAre ==
  ASSUME NEW S, NEW r, NEW k, Turns(S, r, k), Log.records = r
  PROVE  LET committed == Committed(recordTransitions(Log.records))
         IN  /\ DOMAIN LogOps = 1..k /\ LogOps = ShownOps(r, k)
             /\ \A n \in 1..k : committed[n].record = r[2 * n - 1]
             /\ recordValues(recordTransitions(Log.records)) = PayloadsTo(r, k)
             /\ \A n \in 1..k : recordValues(SubSeq(committed, 1, n)) = PayloadsTo(r, n)
<1> DEFINE committed == Committed(recordTransitions(Log.records))
<1>1. r \in Seq(S) /\ k \in Nat /\ Alternate(r) /\ Len(r) \in {2 * k, 2 * k + 1}
  BY DEF Turns
<1>2. committed = [m \in 1..k |-> Transition(r, 2 * m - 1)]
  BY <1>1, CommittedOnes
<1>3. /\ recordValues(recordTransitions(Log.records)) = PayloadsTo(r, k)
      /\ \A n \in 1..k : recordValues(SubSeq(committed, 1, n)) = PayloadsTo(r, n)
  BY <1>1, ValuesShown
<1>4. \A n \in 1..k : committed[n].record = r[2 * n - 1]
  BY <1>2 DEF Transition
<1>5. DOMAIN committed = 1..k
  BY <1>2
<1>6. LogOps = [n \in DOMAIN committed |-> readOp(committed[n].record.op[2])]
  BY DEF LogOps
<1> HIDE DEF committed
<1>7. LogOps = ShownOps(r, k) /\ DOMAIN LogOps = 1..k
  BY <1>4, <1>5, <1>6 DEF ShownOps
<1> QED
  BY <1>3, <1>4, <1>7 DEF committed

\* What both have read of the lines, in the end.
LEMMA BothEnd ==
  ASSUME IInv
  PROVE  LET S == Range(lines)
         IN  /\ Checked.ok /\ (\A n \in DOMAIN lines : ~KitLess(lines[n])) =>
                  /\ Log.ok
                  /\ Log.header = Checked.header
                  /\ \E r, k : /\ Turns(S, r, k) /\ Log.records = r
                               /\ Checked.ops = ShownOps(r, k) /\ Checked.values = PayloadsTo(r, k)
             /\ Log.ok =>
                  \E r, k : /\ Turns(S, r, k) /\ Log.records = r
                           /\ (~Checked.ok => HeaderUnchecked(Log.header[1]) \/ Differ(Log.header[1], r, k))
<1> DEFINE S == Range(lines)
<1>1. lines \in Seq(S) /\ DOMAIN lines = 1..Len(lines)
  BY DEF IInv
<1>2. PICK f : /\ f[0] = Unread
               /\ \A n \in 1..Len(lines) : f[n] = CheckLine(f[n - 1], lines[n])
               /\ checkTrace(lines, tail) = f[Len(lines)]
  BY <1>1, ChecksAre
<1>3. PICK g : /\ g[0] = KitUnread
               /\ \A n \in 1..Len(lines) : g[n] = ParseLine(g[n - 1], lines[n])
               /\ parseRecordLog(lines, tail) = g[Len(lines)]
  BY <1>1, LogsAre
<1>4. Checked = f[Len(lines)] /\ Log = g[Len(lines)]
  BY <1>2, <1>3 DEF Checked, Log
<1>5. \/ Together(S, Checked, Log)
      \/ (\E n \in 1..Len(lines) : KitLess(lines[n])) /\ Log = KitRefused
  <2> HIDE DEF S
  <2> QED
    BY <1>1, <1>2, <1>3, <1>4, BothRead
<1> HIDE DEF S
<1>6. ~Refused.ok /\ ~KitRefused.ok
  BY DEF Refused, KitRefused, Unread, KitUnread
<1>7. CASE Checked = Unread /\ Log = KitUnread
  <2>1. PICK r, k : r = <<>> /\ k = 0
    OBVIOUS
  <2>2. Len(r) = 0 /\ r \in Seq(S) /\ 1..0 = {}
    BY <2>1
  <2>3. Turns(S, r, k)
    BY <2>1, <2>2 DEF Turns, Alternate
  <2>4. ShownOps(r, k) = <<>> /\ PayloadsTo(r, k) = {}
    BY <2>1, <2>2 DEF ShownOps, PayloadsTo
  <2>5. Log.ok /\ Checked.ok /\ Log.records = r /\ Checked.ops = <<>> /\ Checked.values = {}
        /\ Log.header = Checked.header
    BY <1>7, <2>1 DEF Unread, KitUnread
  <2> QED
    BY <2>3, <2>4, <2>5 DEF S
<1>8. ASSUME NEW h, NEW r, NEW k, Turns(S, r, k), Log = KitAt(h, r, k), Checked = CheckAt(h, r, k)
      PROVE  /\ Log.ok /\ Checked.ok /\ Log.records = r /\ Log.header = Checked.header
             /\ Checked.ops = ShownOps(r, k) /\ Checked.values = PayloadsTo(r, k)
  BY <1>8 DEF KitAt, KitReading, CheckAt, Reading
<1>9. ASSUME NEW h, NEW r, NEW k, Turns(S, r, k), Log = KitAt(h, r, k)
      PROVE  Log.records = r /\ Log.header[1] = h
  BY <1>9 DEF KitAt, KitReading
<1>10. CASE \E h, r, k : Turns(S, r, k) /\ Log = KitAt(h, r, k) /\ Checked = CheckAt(h, r, k)
  BY <1>8, <1>10 DEF S
<1>11. CASE /\ Checked = Refused
            /\ \/ Log = KitRefused
               \/ \E h, r, k : Turns(S, r, k) /\ Log = KitAt(h, r, k) /\ (HeaderUnchecked(h) \/ Differ(h, r, k))
  BY <1>6, <1>9, <1>11 DEF S
<1>12. CASE (\E n \in 1..Len(lines) : KitLess(lines[n])) /\ Log = KitRefused
  BY <1>1, <1>6, <1>12
<1> QED
  BY <1>5, <1>7, <1>10, <1>11, <1>12 DEF Together

\* The records of what the program wrote are its lines.
LEMMA RecordsAreWritten ==
  ASSUME IInv, edits = 0, NEW r, NEW k, Turns(Range(lines), r, k), NEW n \in 1..k
  PROVE  n \in 1..Len(written) /\ r[2 * n - 1] = OperationLine(n)
<1>1. /\ written \in Seq(LegalOps) /\ DOMAIN lines = 1..Len(lines)
      /\ \A m \in 1..Len(lines) : FromProgram(lines[m])
  BY DEF IInv, Unedited
<1>2. r \in Seq(Range(lines)) /\ k \in Nat /\ Len(r) \in {2 * k, 2 * k + 1} /\ Alternate(r)
  BY DEF Turns
<1>3. 2 * n - 1 \in 1..Len(r) /\ n \in Nat \ {0}
  BY <1>2
<1>4. PICK line : line = r[2 * n - 1]
  OBVIOUS
<1>5. "seq" \in DOMAIN line /\ line.seq = NaturalOf(2 * n - 1) /\ "commit" \notin DOMAIN line
  <2>1. 2 * n - 1 <= Len(r) => "commit" \notin DOMAIN r[2 * n - 1]
    BY <1>2, <1>3 DEF Alternate
  <2> QED
    BY <1>2, <1>3, <1>4, <2>1 DEF Alternate
<1>6. FromProgram(line)
  <2>1. line \in Range(lines)
    BY <1>2, <1>3, <1>4
  <2> QED
    BY <1>1, <2>1 DEF Range
<1>7. \A v \in Flags : line # HeaderLine(v)
  BY <1>5 DEF HeaderLine, encodeHeader
<1>8. \A m \in 1..Len(written) : line # CommitLine(m)
  <2>1. \A m \in 1..Len(written) : m \in Nat \ {0}
    BY <1>1
  <2> QED
    BY <1>5, <2>1, CommitsRead
<1>9. PICK m \in 1..Len(written) : line = OperationLine(m)
  BY <1>6, <1>7, <1>8 DEF FromProgram
<1>10. line.seq = NaturalOf(2 * m - 1)
  BY <1>1, <1>9, OperationLinesRead
<1>11. 2 * m - 1 = 2 * n - 1
  BY <1>5, <1>10, NumbersDiffer
<1>12. m = n
  BY <1>1, <1>3, <1>11
<1> QED
  BY <1>4, <1>9, <1>12

\* Their payloads are the values of the state.
LEMMA PayloadsAreState ==
  ASSUME IInv, edits = 0, NEW r, NEW k, Turns(Range(lines), r, k), NEW n \in 0..k
  PROVE  PayloadsTo(r, n) = ValuesAt(n)
<1> DEFINE Bad == {m \in 0..k : PayloadsTo(r, m) # ValuesAt(m)}
<1>1. written \in Seq(LegalOps) /\ k \in Nat
  BY DEF IInv, Turns
<1>2. PayloadsTo(r, 0) = {} /\ ValuesAt(0) = {}
  <2>1. SubSeq(written, 1, 0) = <<>> /\ 1..0 = {}
    BY <1>1
  <2> QED
    BY <2>1, NoneAtFirst DEF PayloadsTo, ValuesAt
<1>3. ASSUME NEW m \in 1..k, PayloadsTo(r, m - 1) = ValuesAt(m - 1)
      PROVE  PayloadsTo(r, m) = ValuesAt(m)
  <2>1. m \in 1..Len(written) /\ r[2 * m - 1] = OperationLine(m)
    BY RecordsAreWritten
  <2>2. Payloads(r[2 * m - 1]) = Brought(m)
    BY <1>1, <2>1, OperationLinesRead
  <2>3. PayloadsTo(r, m) = PayloadsTo(r, m - 1) \cup Payloads(r[2 * m - 1])
    <3>1. 1..m = (1..m - 1) \cup {m}
      OBVIOUS
    <3> QED
      BY <3>1 DEF PayloadsTo
  <2>4. PICK j \in 0..Len(written) - 1 : j = m - 1 /\ j + 1 = m
    BY <1>1, <2>1
  <2>5. ValuesAt(j) \cup Brought(j + 1) = ValuesAt(j + 1)
    BY <1>1, ValuesGrow
  <2> QED
    BY <1>3, <2>2, <2>3, <2>4, <2>5
<1>4. Bad = {}
  <2> SUFFICES ASSUME Bad # {} PROVE FALSE
    OBVIOUS
  <2>1. Bad \subseteq Nat
    BY <1>1
  <2>2. PICK m \in Bad : \A i \in Bad : m <= i
    BY <2>1, LeastNatural
  <2>3. m # 0 /\ m \in 0..k
    BY <1>2, <2>2
  <2>4. m \in 1..k /\ m - 1 \in 0..k /\ ~(m <= m - 1)
    BY <1>1, <2>3
  <2>5. m - 1 \notin Bad
    BY <2>2, <2>4
  <2>6. PayloadsTo(r, m - 1) = ValuesAt(m - 1)
    BY <2>4, <2>5
  <2>7. PayloadsTo(r, m) = ValuesAt(m)
    BY <1>3, <2>4, <2>6
  <2> QED
    BY <2>2, <2>7
<1> QED
  BY <1>4

\* The kit shows the header, the committed operations and the payloads of every
\* journal that the program reads and that has none of what only the program
\* takes; it refuses what the program refuses, unless for the limits, types and
\* kinds of a definition or for what only a step of the machine tells; and of what
\* the program wrote it shows a payload for each value of the state, those that an
\* operation does not name only of what the machine makes (parse.ts:396-507,
\* records.ts:8-36).
THEOREM JournalsAreShown == Spec => []KitShowsJournals
<1>1. IInv => KitShowsJournals
  <2> SUFFICES ASSUME IInv PROVE KitShowsJournals
    OBVIOUS
  <2> DEFINE S == Range(lines)
             committed == Committed(recordTransitions(Log.records))
  <2>1. ASSUME Checked.ok, \A n \in DOMAIN lines : ~KitLess(lines[n])
        PROVE  /\ Log.ok /\ Log.header = Checked.header /\ LogOps = Checked.ops
               /\ recordValues(recordTransitions(Log.records)) = Checked.values
    <3>1. PICK r, k : /\ Turns(S, r, k) /\ Log.records = r
                      /\ Checked.ops = ShownOps(r, k) /\ Checked.values = PayloadsTo(r, k)
      BY <2>1, BothEnd
    <3>2. Log.ok /\ Log.header = Checked.header
      BY <2>1, BothEnd
    <3> QED
      BY <3>1, <3>2, ShownAre
  <2>2. ASSUME Log.ok
        PROVE  \E r, k : /\ Turns(S, r, k) /\ Log.records = r
                        /\ (~Checked.ok => HeaderUnchecked(Log.header[1]) \/ Differ(Log.header[1], r, k))
    BY <2>2, BothEnd
  <2>3. KitRefusesJournals
    <3> SUFFICES ASSUME Log.ok, ~Checked.ok, ~HeaderUnchecked(Log.header[1])
                 PROVE  \E n \in DOMAIN LogOps :
                          StepUnchecked(Log.header[1].definition[2], SubSeq(LogOps, 1, n - 1), LogOps[n],
                                        Payloads(committed[n].record))
      BY DEF KitRefusesJournals
    <3>1. PICK r, k : /\ Turns(S, r, k) /\ Log.records = r
                      /\ (~Checked.ok => HeaderUnchecked(Log.header[1]) \/ Differ(Log.header[1], r, k))
      BY <2>2
    <3>2. Differ(Log.header[1], r, k) /\ k \in Nat
      BY <3>1 DEF Turns
    <3>3. /\ DOMAIN LogOps = 1..k /\ LogOps = ShownOps(r, k)
          /\ \A n \in 1..k : committed[n].record = r[2 * n - 1]
      BY <3>1, ShownAre
    <3>4. PICK n \in 1..k :
            StepUnchecked(Log.header[1].definition[2], ShownOps(r, n - 1), readOp(r[2 * n - 1].op[2]), Payloads(r[2 * n - 1]))
      BY <3>2 DEF Differ
    <3>5. SubSeq(LogOps, 1, n - 1) = ShownOps(r, n - 1)
      <4>1. n - 1 \in 0..k
        BY <3>2
      <4> QED
        BY <3>2, <3>3, <4>1, ShownFirst
    <3>6. LogOps[n] = readOp(r[2 * n - 1].op[2]) /\ Payloads(committed[n].record) = Payloads(r[2 * n - 1])
      BY <3>3 DEF ShownOps
    <3> QED
      BY <3>2, <3>3, <3>4, <3>5, <3>6
  <2>4. ValuesNamed
    <3> SUFFICES ASSUME edits = 0, Log.ok, NEW n \in DOMAIN LogOps
                 PROVE  /\ recordValues(SubSeq(committed, 1, n)) = stateValues(definition, SubSeq(LogOps, 1, n))
                        /\ Payloads(committed[n].record) \subseteq opValues(LogOps[n]) \/ LogOps[n].type[2] \in Making
      BY DEF ValuesNamed
    <3>1. PICK r, k : Turns(S, r, k) /\ Log.records = r
      BY <2>2
    <3>2. /\ DOMAIN LogOps = 1..k /\ LogOps = ShownOps(r, k) /\ n \in 1..k
          /\ committed[n].record = r[2 * n - 1]
          /\ recordValues(SubSeq(committed, 1, n)) = PayloadsTo(r, n)
      BY <3>1, ShownAre
    <3>3. written \in Seq(LegalOps) /\ n \in 1..Len(written) /\ r[2 * n - 1] = OperationLine(n) /\ k \in Nat
      BY <3>1, <3>2, RecordsAreWritten DEF IInv, Turns
    <3>4. LogOps[n] = written[n] /\ Payloads(committed[n].record) = Brought(n)
      BY <3>2, <3>3, OperationLinesRead DEF ShownOps
    <3>5. written[n] \in LegalOps
      BY <3>3
    <3>6. opValues(LogOps[n]) = Names(written[n])
      BY <3>4, <3>5, NamesAreValues
    <3>7. Brought(n) \subseteq Names(written[n]) \cup Made(definition, SubSeq(written, 1, n - 1), written[n])
      <4>1. SubSeq(written, 1, n - 1) \in Seq(LegalOps)
        BY <3>3
      <4> QED
        BY <4>1, StateGrows DEF Brought
    <3>8. Payloads(committed[n].record) \subseteq opValues(LogOps[n]) \/ LogOps[n].type[2] \in Making
      BY <3>4, <3>6, <3>7 DEF Made
    <3>9. SubSeq(LogOps, 1, n) = SubSeq(written, 1, n)
      <4>1. \A m \in 1..n : m \in 1..k /\ m \in 1..Len(written) /\ r[2 * m - 1] = OperationLine(m)
        <5>1. \A m \in 1..n : m \in 1..k
          BY <3>2, <3>3
        <5> QED
          BY <3>1, <5>1, RecordsAreWritten
      <4>2. \A m \in 1..n : LogOps[m] = written[m]
        <5> SUFFICES ASSUME NEW m \in 1..n PROVE LogOps[m] = written[m]
          OBVIOUS
        <5>1. LogOps[m] = readOp(r[2 * m - 1].op[2])
          BY <3>2, <4>1 DEF ShownOps
        <5> QED
          BY <3>3, <4>1, <5>1, OperationLinesRead
      <4>3. SubSeq(LogOps, 1, n) = ShownOps(r, n)
        <5>1. n \in 0..k
          BY <3>2
        <5> QED
          BY <3>2, <3>3, <5>1, ShownFirst
      <4>4. ShownOps(r, n) = [m \in 1..n |-> written[m]]
        <5>1. \A m \in 1..n : LogOps[m] = readOp(r[2 * m - 1].op[2])
          BY <3>2, <4>1 DEF ShownOps
        <5> QED
          BY <4>2, <5>1 DEF ShownOps
      <4>5. SubSeq(written, 1, n) = [m \in 1..n |-> written[m]]
        BY <3>3
      <4> QED
        BY <4>3, <4>4, <4>5
    <3>10. PayloadsTo(r, n) = stateValues(definition, SubSeq(written, 1, n))
      <4>1. n \in 0..k
        BY <3>2
      <4> QED
        BY <3>1, <4>1, PayloadsAreState DEF ValuesAt
    <3> QED
      BY <3>2, <3>8, <3>9, <3>10
  <2> QED
    BY <2>1, <2>3, <2>4 DEF KitShowsJournals
<1> QED
  BY <1>1, InvHolds, PTL
=============================================================================
