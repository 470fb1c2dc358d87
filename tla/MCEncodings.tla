---------------------------- MODULE MCEncodings -----------------------------
(***************************************************************************)
(* Everything the program writes as a text and reads back, one kind of     *)
(* text at a time: identifiers and what they are made of, JSON, numbers.   *)
(***************************************************************************)
EXTENDS MCIdentity, MCJsonText, MCJsonNumber

VARIABLE explored
vars == <<explored, identifiers, texts, readers, literal>>

\* Only the numbers begin with more than one literal.
Init ==
  /\ explored \in {"identifiers", "texts", "structure", "strings", "numbers"}
  /\ IdentifiersInit /\ TextsInit /\ ReadersInit /\ LiteralInit
  /\ explored # "numbers" => literal = FirstLiteral

Next ==
  /\ UNCHANGED explored
  /\ \/ explored = "identifiers" /\ IdentifiersNext /\ UNCHANGED <<texts, readers, literal>>
     \/ explored = "texts" /\ TextsNext /\ UNCHANGED <<identifiers, readers, literal>>
     \/ explored = "structure" /\ ReadersNext(StructureTexts) /\ UNCHANGED <<identifiers, texts, literal>>
     \/ explored = "strings" /\ ReadersNext(StringTexts) /\ UNCHANGED <<identifiers, texts, literal>>
     \/ explored = "numbers" /\ LiteralNext /\ UNCHANGED <<identifiers, texts, readers>>

Spec == Init /\ [][Next]_vars
=============================================================================
