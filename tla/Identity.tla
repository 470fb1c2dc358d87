------------------------------ MODULE Identity ------------------------------
(***************************************************************************)
(* Identifiers (identity.ts): every key of the state, and every value, is  *)
(* a text that spells its provenance, each part preceded by its length.    *)
(* Parts are identifiers again, or names that a user chose.                *)
(*                                                                         *)
(* A text is a sequence of characters: a digit is its number, the colon is *)
(* Colon, letters are numbers above it.                                    *)
(***************************************************************************)
EXTENDS Integers, SequencesExt

Colon == 10
Text == Seq(Nat)

-----------------------------------------------------------------------------
(* The encoding *)

Decimal(n) ==
  LET digits[m \in Nat] == IF m < 10 THEN <<m>> ELSE digits[m \div 10] \o <<m % 10>>
  IN  digits[n]

Part(part) == Decimal(Len(part)) \o <<Colon>> \o part
identity(parts) == FlattenSeq([n \in DOMAIN parts |-> Part(parts[n])])

Undecodable == [ok |-> FALSE, parts |-> <<>>]

\* The end of the digits that begin at a position, and the number they spell.
DigitsEnd(text, at) ==
  CHOOSE n \in at..Len(text) + 1 :
    /\ \A i \in at..n - 1 : text[i] < Colon
    /\ n <= Len(text) => text[n] >= Colon
LengthOf(text, from, end) ==
  LET value[n \in from..end] == IF n = from THEN 0 ELSE value[n - 1] * 10 + text[n - 1]
  IN  value[end]

\* A mutation of decodeIdentity: a part that is cut short is taken as it is.
decodeIdentityLax(text) ==
  LET from[at \in 1..Len(text) + 1] ==
        IF at = Len(text) + 1 THEN [ok |-> TRUE, parts |-> <<>>]
        ELSE LET colon == DigitsEnd(text, at)
                 all   == colon + LengthOf(text, at, colon)
                 end   == IF all > Len(text) THEN Len(text) ELSE all
             IN  IF colon > Len(text) \/ text[colon] # Colon THEN Undecodable
                 ELSE [ok |-> from[end + 1].ok, parts |-> <<SubSeq(text, colon + 1, end)>> \o from[end + 1].parts]
  IN  from[1]

\* Lengths may have leading zeros or no digit at all; what they announce must
\* be there.
decodeIdentity(text) ==
  LET from[at \in 1..Len(text) + 1] ==
        IF at = Len(text) + 1 THEN [ok |-> TRUE, parts |-> <<>>]
        ELSE LET colon == DigitsEnd(text, at)
                 end   == colon + LengthOf(text, at, colon)
             IN  IF colon > Len(text) \/ text[colon] # Colon \/ end > Len(text) THEN Undecodable
                 ELSE IF from[end + 1].ok
                 THEN [ok |-> TRUE, parts |-> <<SubSeq(text, colon + 1, end)>> \o from[end + 1].parts]
                 ELSE Undecodable
  IN  from[1]

-----------------------------------------------------------------------------
(* Keys *)

keyWithin(path, label) == identity(Append(path, label))

\* The scope and the label of a key, nothing for a text that is none.
keySplit(id) ==
  LET decoded == decodeIdentity(id)
  IN  IF decoded.ok /\ decoded.parts # <<>> /\ identity(decoded.parts) = id
      THEN {[path |-> Front(decoded.parts), label |-> Last(decoded.parts)]}
      ELSE {}

keyScope(id) == IF keySplit(id) = {} THEN <<>> ELSE (CHOOSE s \in keySplit(id) : TRUE).path

keyRelative(path, id) ==
  IF \E s \in keySplit(id) : s.path = path
  THEN <<(CHOOSE s \in keySplit(id) : TRUE).label>>
  ELSE <<id, <<>>>>

keyChild(id) ==
  IF keySplit(id) = {} THEN <<id>>
  ELSE LET s == CHOOSE s \in keySplit(id) : TRUE IN Append(s.path, s.label)

\* The words of the code, one letter each.
Word == [invocation |-> <<11>>, task |-> <<12>>, result |-> <<13>>, aggregate |-> <<14>>,
         output |-> <<15>>, list |-> <<16>>, return |-> <<17>>, value |-> <<18>>,
         yield |-> <<19>>, transform |-> <<20>>, input |-> <<21>>]

keyOwned(kind, owner, parts) ==
  keyWithin(keyScope(owner), identity(<<kind>> \o keyRelative(keyScope(owner), owner) \o parts))

\* A mutation of keyInvocation: the trigger alone names an invocation.
keyInvocationOfTrigger(path, placement, trigger) ==
  keyWithin(path, identity(<<Word.invocation>>
    \o (IF trigger = <<>> THEN <<placement>> ELSE keyRelative(path, trigger[1]))))

\* trigger: <<>>, or the key of a result in a sequence.
keyInvocation(path, placement, trigger) ==
  keyWithin(path, identity(<<Word.invocation, placement>>
    \o (IF trigger = <<>> THEN <<>> ELSE keyRelative(path, trigger[1]))))

keyTask(execution, task) == keyOwned(Word.task, execution, <<task>>)
keyCallResult(call, index) == keyOwned(Word.result, call, <<Decimal(index)>>)
keyAggregate(path, placement) == keyWithin(path, identity(<<Word.aggregate, placement>>))
keyTaskOutput(execution, task, index) == keyOwned(Word.output, execution, <<task, Decimal(index)>>)
keyList(execution) == keyOwned(Word.list, execution, <<>>)
keyReturned(invocation) == keyOwned(Word.return, invocation, <<>>)

-----------------------------------------------------------------------------
(* Values *)

exploreValue(parts) == identity(<<Word.value>> \o parts)

\* The order of code points.
compareStrings(a, b) ==
  \/ IsStrictPrefix(a, b)
  \/ \E n \in DOMAIN a \cap DOMAIN b : SubSeq(a, 1, n - 1) = SubSeq(b, 1, n - 1) /\ a[n] < b[n]

Sorted(values) == SortSeq(values, LAMBDA a, b : compareStrings(a, b))
listValue(values) == identity(<<Word.list>> \o Sorted(values))

\* The members of a list value, for a payload that was never recorded.
listMembers(id) ==
  LET parts == decodeIdentity(id).parts
  IN  IF parts # <<>> /\ parts[1] = Word.list /\ identity(parts) = id THEN {Tail(parts)} ELSE {}
=============================================================================
