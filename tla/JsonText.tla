------------------------------ MODULE JsonText ------------------------------
(***************************************************************************)
(* The readers of JSON text: checkInput and the Parser of json.ts, in its  *)
(* two modes, and the reader of the UI kit, which lets JSON.parse read the *)
(* text and then looks for repeated keys in its tokens (parse.ts).         *)
(*                                                                         *)
(* A reader is a pushdown machine that takes one symbol at a time: what    *)
(* the recursion of the code holds is the stack, an object or an array per *)
(* call of object() or array(). A symbol is a character, except that the   *)
(* four hexadecimal digits after \u are one, and so is a literal word; x61 *)
(* are the digits of the letter a, xNl those of a line feed, xHigh and     *)
(* xLow those of the halves of a pair. A failed reader stays failed: the   *)
(* code throws, possibly a few characters later.                           *)
(***************************************************************************)
EXTENDS Integers, SequencesExt

CONSTANT MaxDepth  \* MAX_INPUT_DEPTH

ASSUME DepthAssumption == MaxDepth \in Nat

Quote == "quote"
Slash == "slash"
Digits == {"0", "1"}
Controls == {"nl", "cr", "ctl"}

-----------------------------------------------------------------------------
(* The size check, before either mode reads *)

\* Too deep, once depth is beyond MaxDepth: the text is refused unread.
Unchecked == [depth |-> 0, quoted |-> FALSE, escaped |-> FALSE]
checkInput(check, c) ==
  CASE check.quoted ->
         [check EXCEPT !.escaped = ~@ /\ c = Slash, !.quoted = check.escaped \/ c # Quote]
    [] ~check.quoted /\ c = Quote -> [check EXCEPT !.quoted = TRUE]
    [] ~check.quoted /\ c \in {"[", "{"} -> [check EXCEPT !.depth = @ + 1]
    [] ~check.quoted /\ c \in {"]", "}"} /\ check.depth > 0 -> [check EXCEPT !.depth = @ - 1]
    [] OTHER -> check
TooDeep(check) == check.depth > MaxDepth

-----------------------------------------------------------------------------
(* Readers: mode is "definition", "trace" or, for JSON.parse, "plain" *)

Reading(phase) == [phase |-> phase, stack |-> <<>>, text |-> <<>>, of |-> "value"]
Start == Reading("value")
Failed == Reading("failed")

\* p, unless the reader q has failed on the way to it.
Unless(q, p) == IF q = Failed THEN Failed ELSE p

Goto(p, phase) == [p EXCEPT !.phase = phase]
Open(p, kind) ==
  [Goto(p, IF kind = "object" THEN "firstKey" ELSE "firstItem") EXCEPT
     !.stack = Append(@, [kind |-> kind, keys |-> {}])]
Close(p) == [Goto(p, "after") EXCEPT !.stack = Front(@)]
BeginString(p, of) == [Goto(p, "string") EXCEPT !.of = of]

\* A key counts as present from its end on, and not from that of its value:
\* nothing reads the object in between.
EndString(mode, p) ==
  LET top == Len(p.stack)
  IN  CASE p.of = "value" -> [Goto(p, "after") EXCEPT !.text = <<>>]
        [] p.of = "key" /\ mode # "plain" /\ p.text \in p.stack[top].keys -> Failed
        [] OTHER -> [Goto(p, "colon") EXCEPT !.stack[top].keys = @ \cup {p.text}, !.text = <<>>]

Value(mode, p, c) ==
  CASE c = "{" -> Open(p, "object")
    [] c = "[" -> Open(p, "array")
    [] c = Quote -> BeginString(p, "value")
    [] c = "word" -> Goto(p, "after")
    [] c = "0" -> Goto(p, "zero")
    [] c = "1" -> Goto(p, "digits")
    [] c = "-" /\ mode # "trace" -> Goto(p, "minus")
    [] OTHER -> Failed
Key(p, c) == IF c = Quote THEN BeginString(p, "key") ELSE Failed
Closer(p) == IF Last(p.stack).kind = "object" THEN "}" ELSE "]"
After(p, c) ==
  CASE p.stack # <<>> /\ c = Closer(p) -> Close(p)
    [] p.stack # <<>> /\ c = "," -> Goto(p, IF Closer(p) = "}" THEN "key" ELSE "value")
    [] OTHER -> Failed

-----------------------------------------------------------------------------
(* Strings *)

Simple == [c \in {Quote, Slash, "n", "r"} |-> CASE c = "n" -> "nl" [] c = "r" -> "cr" [] OTHER -> c]
Hex == [x61 |-> "a", xNl |-> "nl", xCr |-> "cr", xCtl |-> "ctl", xHigh |-> "high", xLow |-> "low"]

Take(p, c) == [Goto(p, "string") EXCEPT !.text = Append(@, c)]

\* Half a pair: an error in a trace, U+FFFD in a definition; JSON.parse keeps it.
Lone(mode, p, half) ==
  CASE mode = "trace" -> Failed
    [] mode = "definition" -> Take(p, "replacement")
    [] mode = "plain" -> Take(p, half)

\* A mutation of Pair: the halves are two characters in a definition.
PairSplit(mode, p) == IF mode = "definition" THEN Take(Take(p, "replacement"), "replacement") ELSE Take(p, "pair")

Pair(mode, p) == Take(p, "pair")

InString(mode, p, c) ==
  CASE c = Quote -> EndString(mode, p)
    [] c = Slash -> Goto(p, "escape")
    [] c \in Controls -> Failed
    [] OTHER -> Take(p, c)
InEscape(p, c) ==
  CASE c \in DOMAIN Simple -> Take(p, Simple[c])
    [] c = "u" -> Goto(p, "hex")
    [] OTHER -> Failed
InHex(mode, p, c) ==
  CASE c \notin DOMAIN Hex -> Failed
    [] c = "xHigh" -> Goto(p, "high")
    [] c = "xLow" -> Lone(mode, p, "low")
    [] OTHER -> Take(p, Hex[c])

\* After the first half of a pair: unless the other half follows, what comes
\* is read as it would be after a half alone.
AfterHigh(mode, p, c) ==
  LET lone == Lone(mode, p, "high")
  IN  CASE p.phase = "high" ->
             IF c = Slash THEN Goto(p, "highEscape") ELSE Unless(lone, InString(mode, lone, c))
        [] p.phase = "highEscape" ->
             IF c = "u" THEN Goto(p, "highHex") ELSE Unless(lone, InEscape(lone, c))
        [] p.phase = "highHex" ->
             IF c = "xLow" THEN Pair(mode, p) ELSE Unless(lone, InHex(mode, lone, c))

Highs == {"high", "highEscape", "highHex"}
Strings == {"string", "escape", "hex"} \cup Highs
String(mode, p, c) ==
  CASE p.phase = "string" -> InString(mode, p, c)
    [] p.phase = "escape" -> InEscape(p, c)
    [] p.phase = "hex" -> InHex(mode, p, c)
    [] p.phase \in Highs -> AfterHigh(mode, p, c)

-----------------------------------------------------------------------------
(* Numbers, as text *)

Ended(p, c) == IF c = "space" THEN Goto(p, "after") ELSE After(p, c)

Whole == {"zero", "digits"}
Numbers == Whole \cup {"fraction", "shift"}
Number(mode, p, c) ==
  CASE p.phase \in Whole \cup {"fraction", "shift"} /\ p.phase # "zero" /\ c \in Digits -> p
    [] p.phase = "zero" /\ c \in Digits -> Failed
    [] p.phase \in Whole /\ c = "." /\ mode # "trace" -> Goto(p, "dot")
    [] p.phase \in Whole \cup {"fraction"} /\ c = "e" /\ mode # "trace" -> Goto(p, "exponent")
    [] p.phase = "minus" /\ c \in Digits -> Goto(p, IF c = "0" THEN "zero" ELSE "digits")
    [] p.phase = "dot" /\ c \in Digits -> Goto(p, "fraction")
    [] p.phase = "exponent" /\ c \in {"-", "+"} -> Goto(p, "sign")
    [] p.phase \in {"exponent", "sign"} /\ c \in Digits -> Goto(p, "shift")
    [] p.phase \in Numbers -> Ended(p, c)
    [] OTHER -> Failed

-----------------------------------------------------------------------------
(* One symbol *)

Read(mode, p, c) ==
  CASE p.phase = "failed" -> p
    [] p.phase \in Strings -> String(mode, p, c)
    [] p.phase \in Numbers \cup {"minus", "dot", "exponent", "sign"} -> Number(mode, p, c)
    [] c = "space" /\ p.phase \in {"value", "firstItem", "firstKey", "key", "colon", "after"} -> p
    [] p.phase \in {"firstItem", "firstKey"} /\ c = Closer(p) -> Close(p)
    [] p.phase \in {"value", "firstItem"} -> Value(mode, p, c)
    [] p.phase \in {"key", "firstKey"} -> Key(p, c)
    [] p.phase = "colon" -> IF c = ":" THEN Goto(p, "value") ELSE Failed
    [] p.phase = "after" -> After(p, c)

\* The text may end here.
Accepts(p) == p.stack = <<>> /\ p.phase \in Numbers \cup {"after"}

-----------------------------------------------------------------------------
(* The kit's search for a repeated key, in the tokens of a text that p, the *)
(* reader of JSON.parse, has read                                           *)

Unscanned == [open |-> <<>>, atKey |-> FALSE, repeated |-> FALSE]

ScanKey(scan, p) ==
  LET key == IF p.phase = "high" THEN Append(p.text, "high") ELSE p.text
      top == Len(scan.open)
  IN  [scan EXCEPT !.atKey = FALSE, !.repeated = @ \/ key \in scan.open[top].keys,
                   !.open[top].keys = @ \cup {key}]

repeatedKey(scan, p, c) ==
  CASE p.phase \in Strings ->
         IF c = Quote /\ p.phase \in {"string", "high"} /\ scan.atKey THEN ScanKey(scan, p) ELSE scan
    [] c = "{" -> [scan EXCEPT !.open = Append(@, [kind |-> "object", keys |-> {}]), !.atKey = TRUE]
    [] c = "[" -> [scan EXCEPT !.open = Append(@, [kind |-> "array", keys |-> {}]), !.atKey = FALSE]
    [] c \in {"}", "]"} -> [scan EXCEPT !.open = Front(@), !.atKey = FALSE]
    [] c = "," -> [scan EXCEPT !.atKey = Last(scan.open).kind = "object"]
    [] OTHER -> scan

-----------------------------------------------------------------------------
(* Writing *)

\* No control but a line feed, a carriage return and ctl is told apart.
renderString(s, lean) ==
  LET written(c) == CASE c \in {Quote, Slash} -> <<Slash, c>>
                      [] c = "nl" -> IF lean THEN <<Slash, "n">> ELSE <<Slash, "u", "xNl">>
                      [] c = "cr" -> IF lean THEN <<Slash, "r">> ELSE <<Slash, "u", "xCr">>
                      [] c = "ctl" -> <<Slash, "u", "xCtl">>
                      [] c \in {"high", "low"} -> <<"replacement">>
                      [] OTHER -> <<c>>
  IN  <<Quote>> \o FlattenSeq([n \in DOMAIN s |-> written(s[n])]) \o <<Quote>>
=============================================================================
