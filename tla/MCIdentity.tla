----------------------------- MODULE MCIdentity -----------------------------
(***************************************************************************)
(* Two identifiers made independently, as machine.ts makes them: from runs,*)
(* invocations, tasks, results and values, under names chosen to look like *)
(* encodings; and two arbitrary texts.                                     *)
(***************************************************************************)
EXTENDS Identity, FiniteSets

CONSTANTS
  Names,      \* of placements and tasks
  Alphabet,   \* of arbitrary texts
  MaxSteps,   \* bound: the length of a provenance
  MaxLength   \* bound: the length of a text

VARIABLES
  left, right,   \* two identifiers
  first, second  \* two texts
identifiers == <<left, right>>
texts == <<first, second>>

\* Nothing, a name that is the first word of the code, and one that is an
\* encoding of it; a name that ends like the beginning of a part.
MCNames == {<<>>, Part(Word.invocation), <<11, 1, Colon>>}
MCAlphabet == {0, 1, Colon, 11}

Object(o, kind, args, path, id) ==
  [kind |-> kind, path |-> path, id |-> id, steps |-> o.steps + 1,
   term |-> [kind |-> kind, args |-> args, of |-> o.term]]
RootRun == [kind |-> "run", path |-> <<>>, id |-> <<>>, steps |-> 0, term |-> <<>>]

InvocationsFrom(o, trigger) ==
  {Object(o, "invocation", <<n>>, o.path, keyInvocation(o.path, n, trigger)) : n \in Names}

\* What is made from a run, from something that owns a call or a run, from a
\* result and from a value.
FromRun(o) ==
  InvocationsFrom(o, <<>>)
  \cup {Object(o, "aggregate", <<n>>, o.path, keyAggregate(o.path, n)) : n \in Names}
FromOwner(o) ==
  {Object(o, "run", <<>>, keyChild(o.id), <<>>)}
  \cup {Object(o, "yield", <<i>>, <<>>, exploreValue(<<Word.yield, o.id, Decimal(i)>>)) : i \in {0, 10}}
  \cup {Object(o, "returnValue", <<>>, <<>>, exploreValue(<<Word.return, o.id>>))}
FromInvocation(o) ==
  FromOwner(o)
  \cup {Object(o, "result", <<i>>, o.path, keyCallResult(o.id, i)) : i \in {0, 10}}
  \cup {Object(o, "list", <<>>, o.path, keyList(o.id)), Object(o, "return", <<>>, o.path, keyReturned(o.id))}
  \cup UNION {{Object(o, "task", <<n>>, o.path, keyTask(o.id, n)),
               Object(o, "output", <<n>>, o.path, keyTaskOutput(o.id, n, 0)),
               Object(o, "input", <<n>>, <<>>, exploreValue(<<Word.input, o.id, n>>)),
               Object(o, "outputValue", <<n>>, <<>>, exploreValue(<<Word.output, o.id, n, Decimal(0)>>))} : n \in Names}
FromResult(o) ==
  InvocationsFrom(o, <<o.id>>)
  \cup {Object(o, "transform", <<i>>, <<>>, exploreValue(<<Word.transform, Decimal(i), o.id>>)) : i \in {0, 10}}
FromValue(o) ==
  {Object(o, "listValue", <<n>>, <<>>, listValue([i \in 1..n |-> o.id])) : n \in 1..2}

Results == {"result", "list", "return", "output", "aggregate"}
Values == {"yield", "returnValue", "input", "outputValue", "transform", "listValue"}
Made(o) ==
  CASE o.kind = "run" -> FromRun(o)
    [] o.kind = "invocation" -> FromInvocation(o)
    [] o.kind = "task" -> FromOwner(o)
    [] o.kind \in Results -> FromResult(o)
    [] o.kind \in Values -> FromValue(o)

IdentifiersInit == left = RootRun /\ right = RootRun
Make(o) == o.steps < MaxSteps /\ Made(o) # {}
IdentifiersNext ==
  \/ Make(left) /\ left' \in Made(left) /\ UNCHANGED right
  \/ Make(right) /\ right' \in Made(right) /\ UNCHANGED left

TextsInit == first = <<>> /\ second = <<>>
TextsNext ==
  \/ Len(first) < MaxLength /\ first' \in {Append(first, c) : c \in Alphabet} /\ UNCHANGED second
  \/ Len(second) < MaxLength /\ second' \in {Append(second, c) : c \in Alphabet} /\ UNCHANGED first

-----------------------------------------------------------------------------
(* Properties *)

\* A key, however deep, gives the scope it was made in back: what it owns is
\* made in the same scope (keyOwned).
ScopeKept(o) ==
  o.kind \notin Values \cup {"run"} =>
    keyScope(o.id) = o.path /\ keyChild(o.id) = decodeIdentity(o.id).parts

\* No two things have the same identifier, whatever users call their
\* placements and tasks: keys and values of every kind, and the paths of runs
\* (identity.ts:46-93, and exploreValue of machine.ts and engine.ts).
KeysDistinct ==
  LET same == IF left.kind = "run" THEN left.path = right.path ELSE left.id = right.id
  IN  /\ (left.kind = "run") = (right.kind = "run") /\ same => left.term = right.term
      /\ ScopeKept(left)

\* An identifier decodes to the parts it was made of, and one that is cut short
\* to nothing or to fewer whole parts; a text that decodes otherwise is told
\* apart from a key (machine.test.mjs:44-53).
Decodes ==
  LET whole == identity(<<first, second>>)
  IN  /\ decodeIdentity(whole) = [ok |-> TRUE, parts |-> <<first, second>>]
      /\ \A n \in 1..Len(whole) - 1 :
           decodeIdentity(SubSeq(whole, 1, n)).ok => n = Len(identity(<<first>>))
      /\ keySplit(first) # {} /\ keySplit(first) = keySplit(second) => first = second

\* Any texts, also ones that are not keys, are told apart by keyRelative.
RelativesDistinct ==
  \A path \in {<<>>, << <<>> >>, << <<11>> >>} :
    keyRelative(path, first) = keyRelative(path, second) => first = second

\* The value of a list depends on its members only, not on the order in which
\* they came, and gives them back with their multiplicity (engine.ts:242-251).
ListsCanonical ==
  /\ listValue(<<first, second, first>>) = listValue(<<second, first, first>>)
  /\ listMembers(listValue(<<first, second, first>>)) = {Sorted(<<first, first, second>>)}
  /\ (first = second) = (~compareStrings(first, second) /\ ~compareStrings(second, first))

\* Whatever is put together into one text comes back out of it, and out of no
\* other: the parts of an identifier, a key in its scope, the members of a list.
DecodesBack == Decodes /\ RelativesDistinct /\ ListsCanonical
=============================================================================
