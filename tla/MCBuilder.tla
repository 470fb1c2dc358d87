----------------------------- MODULE MCBuilder ------------------------------
(***************************************************************************)
(* Definitions built call by call, complete or not: what the handles say,  *)
(* what validation says and what the UI kit says must go together.         *)
(***************************************************************************)
EXTENDS Builder, KitDefinition

CONSTANTS p, q, r  \* names of placements

A == TypeNamed("A")
B == TypeNamed("B")
C == TypeNamed("C")

\* C is another name for what A is over.
MCTypeScript == [A |-> A, B |-> B, C |-> A]

MCFunctionTypes ==
  [make |-> [input |-> NoType, output |-> A, stream |-> FALSE],
   each |-> [input |-> A,      output |-> A, stream |-> TRUE]]
MCJudges == [j |-> [input |-> A, arms |-> {"yes", "no"}]]
MCTransforms ==
  [same |-> [input |-> A,         output |-> A],
   all  |-> [input |-> ListOf(A), output |-> A]]
NoWorkflows == <<>>
MCFunctions ==
  [f \in DOMAIN MCFunctionTypes |->
    [input |-> MCFunctionTypes[f].input # NoType, stream |-> MCFunctionTypes[f].stream]]

\* Another builder has the same names for things of other types.
MCForeign ==
  [bodies     |-> {[owner |-> "other", body |-> [type |-> "function", function |-> "make"], input |-> NoType, output |-> B]},
   judges     |-> {[owner |-> "other", id |-> "j", input |-> B, arms |-> {"yes"}]},
   transforms |-> {[owner |-> "other", id |-> "same", input |-> ListOf(A), output |-> A]}]

\* Both names of one type meet wherever types are compared.
MCInputs == [u |-> {NoType, C}, v |-> {NoType, A}]
MCCollectors == {[type |-> "waitStream", element |-> A], [type |-> "merge", element |-> C]}
MCOutputs == {[output |-> "list", element |-> C], [output |-> "stream", element |-> A]}
MCNames == [u |-> <<p>>, v |-> <<p, q, r>>]

-----------------------------------------------------------------------------
Library == UntypedLibrary(workflows)
EntriesSet == \A id \in DOMAIN workflows : workflows[id].input # NoType => workflows[id].entry # None

\* The types a handle carries are those that validation derives from the
\* definition: what a body returns is found through any number of called
\* workflows (bodyElement), what it takes once the entries are set.
HandlesTyped ==
  CallsAcyclic(Library) =>
    /\ \A h \in handles :
         LET node == Node(workflows[h.graph], h.name)
         IN  /\ ResultType(workflows, node) = h.output
             /\ EntriesSet => InputType(workflows, node) = h.input
    /\ \A ref \in bodies :
         /\ BodyElement(workflows, ref.body) = ref.output
         /\ EntriesSet => BodyInput(workflows, ref.body) = ref.input

\* Whatever order a definition is built in, and whichever handles are mixed
\* up, validation refuses what the compiler and the builder let through, for
\* a type, only over two names of one TypeScript type (validateConnection,
\* validateEntry, validateTask): every other reason is in its structure.
\* Meanwhile every handle keeps the types that validation would derive.
OnlyNamesRefused ==
  /\ HandlesTyped
  /\ Structured(workflows) =>
       /\ TypesThere(workflows)
       /\ \A pair \in Pairs(workflows) : Interchangeable(pair[1], pair[2])

\* The kinds that the kit finds by its depth-first search are those that
\* validation derives, for whatever is on the page: cycles, several inputs of
\* one kind or of two, entries that have inputs, placements in any order.
\* And the kit refuses no definition that validation accepts (checkReferences).
KitKindsAgree ==
  /\ \A id \in DOMAIN Library :
       LET w == Library[id]
           orders == {o \in [1..Cardinality(Placements(w)) -> Placements(w)] : IsInjective(o)}
       IN  \A order \in orders : KitKinds(Library, w, order) = DeriveKinds(w)
  /\ Structured(workflows) => KitReferences(Library)
=============================================================================
