------------------------------- MODULE MCKit --------------------------------
(***************************************************************************)
(* What the UI kit shows, on the library of workflows of MCMachine.        *)
(***************************************************************************)
EXTENDS MCMachine, KitProperties
=============================================================================
