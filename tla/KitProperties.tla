---------------------------- MODULE KitProperties ----------------------------
(***************************************************************************)
(* What the UI kit promises about the executions it shows: properties of   *)
(* Kit, checked by MCKit on small definitions and proved in KitProofs.     *)
(***************************************************************************)
EXTENDS MachineProperties, Kit

\* A placement that is shown as settled has nothing left to run, not even
\* user code that goes on after a timeout; one that is shown as active has
\* work in flight in a run that is still open.  Only an execution that was
\* stopped leaves placements that are not settled behind.
PhasesSound ==
  \A path \in DOMAIN runs : \A name \in Placements(WorkflowOf(path)) :
    /\ Phase(path, name) = "settled" => ~Busy(path, name)
    /\ Phase(path, name) = "active" => ~runs[path].complete
    /\ Phase(path, name) = "idle" => ResultsOf(path, name) = {}

\* A result is traced to what produced it (status.test.ts:82-86): a call, an
\* execution, a called workflow or an aggregate, as its node is, and to an
\* invocation of its own placement, which is known.
ResultsTraced ==
  \A r \in DOMAIN results :
    /\ ResultSource(r) = CASE PlacementOf(r.run, r.label.placement).type \in {"function", "branch"} -> "call"
                           [] PlacementOf(r.run, r.label.placement).type = "concurrency" -> "execution"
                           [] PlacementOf(r.run, r.label.placement).type = "subworkflow" -> "invocation"
                           [] OTHER -> "aggregate"
    /\ ResultSource(r) # "aggregate" =>
         SourceInvocation(r) \in InvocationsOf(r.run, r.label.placement)

\* The members that the kit finds for a list are those the engine collected.
MembersExact == \A r \in DOMAIN results : IsList(r) => Members(r) = results[r].list

\* The engine and the kit find the owner of everything in a state of an
\* execution: parseState ends in runTree, which throws on a run whose owner it
\* cannot find, and each result leads back to what it was made of.
StatesReadable == OwnersExist /\ TreeReads /\ ResultsTraced /\ MembersExact

\* The state of an execution that the kit does not refuse for its size alone:
\* the budgets of runtime-limits.ts, on the paths that the engine builds.
WithinBudgets ==
  /\ Cardinality(DOMAIN runs) <= KitRuns
  /\ \A path \in DOMAIN runs : Len(path) <= KitSegments /\ Len(path) <= KitDepth

\* Every step of an execution is an operation that the records can hold, and
\* once it happened, it is related to exactly the placement and task that it
\* did something to: where it invoked, called, ended, produced a result or
\* failed (records.ts:50-92, read with the state after it).
Attributed ==
  [][/\ \E op \in Ops : Does(op)
     /\ \A op \in Ops : Does(op) =>
      LET about == Relation(op)'
          at(run, placement) == run = about.run /\ placement = about.placement
      IN  /\ \A n \in DOMAIN failures' \ DOMAIN failures :
               at(failures'[n].run, failures'[n].placement) /\ failures'[n].task = about.task
          /\ \A r \in DOMAIN results' \ DOMAIN results : at(r.run, r.label.placement)
          /\ \A r \in DOMAIN taskResults' \ DOMAIN taskResults :
               at(r.execution.run, r.execution.placement) /\ r.task = about.task
          /\ \A k \in DOMAIN invocations' \ DOMAIN invocations : at(k.run, k.placement)
          /\ \A c \in DOMAIN calls' \ DOMAIN calls : at(c.owner.run, c.owner.placement)
          /\ \A c \in DOMAIN calls :
               calls'[c].status # calls[c].status /\ calls'[c].status # "cancelling" =>
                 at(c.owner.run, c.owner.placement) /\ c.task = about.task]_vars
=============================================================================
