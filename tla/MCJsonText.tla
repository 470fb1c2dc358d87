----------------------------- MODULE MCJsonText -----------------------------
(***************************************************************************)
(* All readers at once, over every text of an alphabet: nothing but the    *)
(* bounds on a string, on the keys of an object and on the depth ends it,  *)
(* so that texts of any length are read.                                   *)
(***************************************************************************)
EXTENDS JsonText, FiniteSets

VARIABLES check, definition, trace, plain, scan
readers == <<check, definition, trace, plain, scan>>

\* Texts of structure and of numbers; and of strings.  Bounds: the characters
\* that strings are made of, their number, the keys of an object, the depth.
StructureTexts ==
  [alphabet |-> {"{", "}", "[", "]", ":", ",", Quote, Slash, "0", "1", "-", "+", ".", "e", "space", "word", "bad"},
   letters |-> {"[", Quote}, string |-> 1, keys |-> 2, depth |-> MaxDepth + 1]
StringTexts ==
  [alphabet |-> {"{", "}", ":", ",", Quote, Slash, "u", "a", "n", "nl"} \cup DOMAIN Hex,
   letters |-> {"a", Slash, "nl", "cr", "ctl", "pair", "high", "low"}, string |-> 2, keys |-> 1, depth |-> 1]

ReadersInit ==
  /\ check = Unchecked /\ scan = Unscanned
  /\ definition = Start /\ trace = Start /\ plain = Start

Bounded(p, bounds) ==
  /\ Len(p.text) <= bounds.string /\ Range(p.text) \subseteq bounds.letters
  /\ Len(p.stack) <= bounds.depth
  /\ \A n \in DOMAIN p.stack : Cardinality(p.stack[n].keys) <= bounds.keys

ReadersNext(bounds) ==
  /\ ~TooDeep(check) /\ plain # Failed
  /\ \E c \in bounds.alphabet :
       /\ check' = checkInput(check, c)
       /\ definition' = Read("definition", definition, c)
       /\ trace' = Read("trace", trace, c)
       /\ plain' = Read("plain", plain, c)
       /\ scan' = IF plain' = Failed THEN scan ELSE repeatedKey(scan, plain, c)
       /\ Bounded(plain', bounds)

-----------------------------------------------------------------------------
(* Properties *)

\* The check that reads the characters once, before the parser, counts exactly
\* the calls of object() and array() that are open at every point of whatever
\* the parser reads in either mode, so that the limit on the depth bounds the
\* recursion (json.ts:18-31, before 95-313).
DepthChecked ==
  \A p \in {definition, trace} :
    p # Failed =>
      /\ check.depth = Len(p.stack)
      /\ check.quoted = (p.phase \in Strings)
      /\ check.escaped = (p.phase \in {"escape", "highEscape"})

\* What trace mode reads, definition mode reads in the same way, so that the
\* definition of a header, which is read in both, is the one that was written
\* (readHeader of trace.ts and the two modes of json.ts).
TraceWithinDefinition == trace # Failed => definition = trace

\* Halves of pairs are one character in a definition, for the kit they are not.
Replaced(keys) ==
  {[n \in DOMAIN key |-> IF key[n] \in {"high", "low"} THEN "replacement" ELSE key[n]] : key \in keys}

\* The kit accepts whatever the program accepts, so that it shows every journal
\* and every definition that the program reads: by its tokens it follows the
\* objects that are open, and finds no key that repeats (parse.ts:88-112).
KitReads ==
  definition # Failed =>
    /\ plain # Failed /\ ~scan.repeated
    /\ [n \in DOMAIN scan.open |-> [scan.open[n] EXCEPT !.keys = Replaced(@)]] = definition.stack

\* A string is read back as it was, however it is written (json.ts:55-68).
StringsWritten ==
  \A lean \in BOOLEAN, mode \in {"definition", "trace"} :
    plain.of = "key" /\ plain.phase = "string" =>
      LET before  == [phase |-> "firstKey", stack |-> <<[kind |-> "object", keys |-> {}]>>, text |-> <<>>, of |-> "value"]
          written == FoldLeft(LAMBDA p, c : Read(mode, p, c), before, renderString(plain.text, lean))
      IN  written # Failed /\ written.stack[1].keys = Replaced({plain.text})

\* The size check, the two modes of the parser and the writer of strings agree on
\* every text, and the reader of the kit accepts what the program accepts, with
\* equal keys.
ReadersAgree == DepthChecked /\ TraceWithinDefinition /\ KitReads /\ StringsWritten
=============================================================================
