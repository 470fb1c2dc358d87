------------------------------ MODULE MCBudget ------------------------------
(***************************************************************************)
(* Limits so small that an execution meets each of them, alone and with    *)
(* others.                                                                 *)
(***************************************************************************)
EXTENDS Budget, TLC

MCSizes == {1, 2}
MCLines == {1, 3}
=============================================================================
