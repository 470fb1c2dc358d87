---------------------------- MODULE MCJsonNumber ----------------------------
(***************************************************************************)
(* Every literal of a few digits, that grows digit by digit.               *)
(***************************************************************************)
EXTENDS JsonNumber

CONSTANTS
  MaxDigits,       \* bound: digits of each part
  MaxWrittenShift  \* bound: the exponents that are written

VARIABLE literal

FirstLiteral == [negative |-> FALSE, whole |-> <<0>>, fraction |-> <<>>, sign |-> "", shift |-> 0]
LiteralInit ==
  literal \in [negative : BOOLEAN, whole : {<<0>>, <<1>>}, fraction : {<<>>}, sign : {"", "+", "-"}, shift : {0}]
LiteralNext ==
  \/ \E d \in {0, 1} :
       \/ /\ literal.whole # <<0>> /\ Len(literal.whole) < MaxDigits
          /\ literal' = [literal EXCEPT !.whole = Append(@, d)]
       \/ /\ Len(literal.fraction) < MaxDigits
          /\ literal' = [literal EXCEPT !.fraction = Append(@, d)]
  \/ /\ literal.sign # "" /\ literal.shift < MaxWrittenShift
     /\ literal' = [literal EXCEPT !.shift = @ + 1]

-----------------------------------------------------------------------------
(* Properties *)

\* The natural m is what the literal stands for.
Denotes(m) ==
  LET digits == Natural(literal.whole \o literal.fraction)
      scale  == Ten(Len(literal.fraction))
  IN  CASE literal.sign = "-" -> digits = m * scale * Ten(literal.shift)
        [] literal.sign # "-" -> digits * Ten(literal.shift) = m * scale

\* A number is written in one way only, and read back as it was.
WrittenBack(v) ==
  /\ number(renderNumber(v)) = v
  /\ v.exponent > 0 => v.mantissa % 10 # 0

\* A limit or a timeout is admitted exactly if its literal stands for a natural
\* that is not too large, and has that value, whatever way it is written: the
\* zeros that are cut off and those that are not appended never make another
\* number admissible (json.ts:263-312, natural of definition.ts).
NumbersExact ==
  LET v == number(literal)
  IN  /\ IF natural(v) THEN Denotes(v.mantissa) /\ (literal.negative => v.mantissa = 0)
         ELSE \A m \in 0..MaxNatural : Denotes(m) => literal.negative \/ (v = TooLarge /\ m = 0)
      /\ v # TooLarge => WrittenBack(v)
=============================================================================
