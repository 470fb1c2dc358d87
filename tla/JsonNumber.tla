----------------------------- MODULE JsonNumber -----------------------------
(***************************************************************************)
(* The numbers of a definition (number() of json.ts): a literal is a sign, *)
(* the digits of two parts and an exponent; what it stands for is a        *)
(* JsonNumber, or an integer where its exponent is zero.                   *)
(***************************************************************************)
EXTENDS Integers, SequencesExt

CONSTANTS
  MaxShift,    \* the largest exponent, 2^64
  MaxPadding,  \* the zeros that an exponent appends at most, 64
  MaxNatural   \* MAX_UINT64 of definition.ts

ASSUME NumberAssumption == MaxShift \in Nat /\ MaxPadding \in Nat /\ MaxNatural \in Nat

Ten(n) == LET power[m \in 0..n] == IF m = 0 THEN 1 ELSE 10 * power[m - 1] IN power[n]
Natural(digits) == FoldLeft(LAMBDA n, d : 10 * n + d, 0, digits)
Zeros(n) == [m \in 1..n |-> 0]
Least(a, b) == IF a < b THEN a ELSE b
TrailingZeros(digits) ==
  CHOOSE n \in 0..Len(digits) :
    /\ \A m \in Len(digits) - n + 1..Len(digits) : digits[m] = 0
    /\ n < Len(digits) => digits[Len(digits) - n] # 0

TooLarge == [negative |-> FALSE, mantissa |-> -1, exponent |-> 0]

\* A mutation of Canonical: the zeros of the whole part are removed, too.
CanonicalAll(negative, decimal, exponent) ==
  [negative |-> negative, mantissa |-> Natural(SubSeq(decimal, 1, Len(decimal) - TrailingZeros(decimal))),
   exponent |-> exponent - Least(exponent, TrailingZeros(decimal))]

\* mantissa * 10^-exponent, an integer where exponent is zero.
Canonical(negative, decimal, exponent) ==
  LET remove == Least(exponent, TrailingZeros(decimal))
  IN  IF Natural(decimal) = 0 THEN [negative |-> FALSE, mantissa |-> 0, exponent |-> 0]
      ELSE [negative |-> negative, mantissa |-> Natural(SubSeq(decimal, 1, Len(decimal) - remove)),
            exponent |-> exponent - remove]

\* What a text such as -10.5e+3 stands for: sign is that of its exponent.
number(n) ==
  LET decimal == n.whole \o n.fraction
      exponent == Len(n.fraction)
      padding == Least(n.shift - exponent, MaxPadding)
  IN  CASE n.sign = "-" -> Canonical(n.negative, decimal, exponent + n.shift)
        [] n.sign # "-" /\ n.shift > MaxShift -> TooLarge
        [] n.sign # "-" /\ n.shift <= MaxShift ->
             IF n.shift <= exponent THEN Canonical(n.negative, decimal, exponent - n.shift)
             ELSE Canonical(n.negative, decimal \o Zeros(padding), 0)

DecimalDigits(n) ==
  LET digits[m \in Nat] == IF m < 10 THEN <<m>> ELSE digits[m \div 10] \o <<m % 10>> IN digits[n]

renderNumber(v) ==
  [negative |-> v.negative /\ v.mantissa # 0, whole |-> DecimalDigits(v.mantissa), fraction |-> <<>>,
   sign |-> IF v.exponent = 0 THEN "" ELSE "-", shift |-> v.exponent]

\* The values a definition admits for a limit or a timeout.
natural(v) == v.exponent = 0 /\ ~v.negative /\ v.mantissa \in 0..MaxNatural
=============================================================================
