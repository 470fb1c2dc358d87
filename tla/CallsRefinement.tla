--------------------------- MODULE CallsRefinement ---------------------------
(***************************************************************************)
(* The machine implements the specification of calls: forget the workflow, *)
(* and keep of every call whether it is a Stream, its status and its       *)
(* elements, and of the failures whether there are any.                    *)
(***************************************************************************)
EXTENDS MachineProperties

Contract == INSTANCE Calls WITH calls <- CallsView, failed <- failures # <<>>

\* Whatever a workflow makes of them, every call lives as the driver expects
\* (machine.ts as engine.ts uses it): at most one answer or one end, no
\* element without a fetch, and no conclusion while user code may be running.
ImplementsCalls == Contract!Spec
=============================================================================
