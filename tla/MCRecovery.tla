----------------------------- MODULE MCRecovery -----------------------------
(***************************************************************************)
(* What recovery promises, on executions of two calls that halt twice.     *)
(***************************************************************************)
EXTENDS Recovery, FiniteSets, TLC

MCKind == [gen |-> "stream", use |-> "single"]

\* Whatever a halt leaves behind and however often, the reader accepts the
\* journal (trace.ts:252-262): numbers are consecutive, and operations and
\* commit marks alternate, also where an execution was resumed.
AlwaysReadable == Readable(disk)

\* A state that was published is never lost: it is what the journal holds,
\* or, while an operation is on its way, the journal holds one more.
PublishedIsDurable ==
  published.started =>
    /\ \E n \in {Committed(disk), Committed(disk) - 1} : StateOf(SubSeq(disk, 1, 1 + 2 * n)) = published
    /\ ~writing /\ mode \in {"resuming", "running"} => StateOf(disk) = published /\ Length(disk) = Len(disk)

\* No call is started twice, whatever happens between its start and its end.
StartedOnce == \A c \in DOMAIN begun : begun[c] <= 1

\* In an execution that goes on, every call that has not ended has its user
\* code running in this process: none waits for an answer nobody will give.
NobodyForgotten ==
  mode = "running" /\ ~writing => code = UnendedOf(Memory)

\* An execution is only refused if it never got past its start.
RefusedOnlyUnstarted == mode = "refused" => ~published.started

\* The states published before and after halts are those of one execution
\* that never halted.
Unbroken ==
  INSTANCE Calls WITH status <- published.status, started <- published.started,
    cancelled <- published.cancelled, failed <- published.failed, calls <- published.calls
HaltsAreInvisible == Unbroken!Spec

\* An execution that is resumed as often as it halts comes to its end.
Recovers == <>(mode = "refused" \/ published.status \in Terminal)
=============================================================================
