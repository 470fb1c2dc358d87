--------------------------- MODULE KitDefinition ----------------------------
(***************************************************************************)
(* What the UI kit makes of a definition: the references it follows to     *)
(* draw and navigate (parse.ts) and the kinds it derives by a depth-first  *)
(* search of its own (lib/definition.ts), with the results so far in memo   *)
(* and the placements on the way to this one in visiting.                  *)
(***************************************************************************)
EXTENDS Definition, SequencesExt

KitBodyKind(library, body) ==
  CASE body.type = "subworkflow" -> IF body.workflow \in DOMAIN library THEN "single" ELSE "unknown"
    [] body.function \notin DOMAIN FunctionTable -> "unknown"
    [] OTHER -> IF FunctionTable[body.function].stream THEN "stream" ELSE "single"

KitOutputKind(library, node, input) ==
  CASE node.type \in {"function", "subworkflow"} ->
         IF input = "stream" THEN "stream" ELSE KitBodyKind(library, node)
    [] node.type = "branch"      -> IF input = "none" THEN "unknown" ELSE input
    [] node.type = "waitStream"  -> IF input = "stream" THEN "single" ELSE "unknown"
    [] node.type = "merge"       -> IF input = "single" THEN "single" ELSE "unknown"
    [] node.type = "concurrency" ->
         IF input = "stream" THEN "stream" ELSE IF node.output = "list" THEN "single" ELSE "stream"

\* A mutation of KitCombined: that one is unknown matters, that they differ does not.
KitCombinedKnown(kinds) == IF "unknown" \in Range(kinds) THEN "unknown" ELSE kinds[1]

\* The kinds of all sources, when they are the same and known.
KitCombined(kinds) ==
  IF \E k \in Range(kinds) : k = "unknown" \/ k # kinds[1] THEN "unknown" ELSE kinds[1]

KitInputKind(w, name, kinds) ==
  CASE w.entry = name -> IF kinds = <<>> THEN "single" ELSE "unknown"
    [] w.entry # name /\ kinds = <<>> -> "none"
    [] OTHER -> KitCombined(kinds)

Memoized(memo, name) == IF name \in DOMAIN memo THEN memo[name] ELSE "unknown"

\* The sources of a placement, in the order of the connections.
SourcesOf(w, name) ==
  LET into == SelectSeq(w.connections, LAMBDA c : c.target = name)
  IN  [i \in DOMAIN into |-> into[i].source]

\* The memo after the search of one placement.  A placement on the way to
\* this one counts as unknown, and so does one that does not exist.
RECURSIVE KindOf(_, _, _, _, _)
KindOf(library, w, name, visiting, memo) ==
  IF name \in DOMAIN memo \/ name \notin Placements(w) \/ name \in visiting THEN memo
  ELSE LET sources == SourcesOf(w, name)
           searched == FoldLeft(LAMBDA m, s : KindOf(library, w, s, visiting \cup {name}, m), memo, sources)
           input == KitInputKind(w, name, [i \in DOMAIN sources |-> Memoized(searched, sources[i])])
           kind  == IF input = "unknown" THEN "unknown" ELSE KitOutputKind(library, Node(w, name), input)
       IN  searched @@ (name :> kind)

\* The search of every placement, in the order they are listed in.
KitKinds(library, w, order) ==
  FoldLeft(LAMBDA m, name : KindOf(library, w, name, {}, m), <<>>, order)

-----------------------------------------------------------------------------
(* checkReferences *)

KitBody(library, body) ==
  body.type = "subworkflow" =>
    /\ body.workflow \in DOMAIN library
    /\ body.output \in Placements(library[body.workflow])

KitConnection(w, c) ==
  /\ c.source \in Placements(w)
  /\ c.target \in Placements(w)
  /\ IF Node(w, c.source).type = "branch" THEN c.arm \in Node(w, c.source).arms
                                          ELSE c.arm = None

KitNode(library, node) ==
  CASE node.type = "subworkflow" -> KitBody(library, node)
    [] node.type = "concurrency" -> \A t \in DOMAIN node.tasks : KitBody(library, node.tasks[t].body)
    [] OTHER -> TRUE

KitReferences(library) ==
  \A id \in DOMAIN library :
    LET w == library[id]
    IN  /\ w.entry # None => w.entry \in Placements(w)
        /\ \A i \in Edges(w) : KitConnection(w, Edge(w, i))
        /\ \A name \in Placements(w) : KitNode(library, Node(w, name))
=============================================================================
