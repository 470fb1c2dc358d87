------------------------------- MODULE Driver -------------------------------
(***************************************************************************)
(* The driver of one execution (engine.ts, callbacks.ts): a loop that      *)
(* takes one event or one control operation per turn and sleeps when there *)
(* is neither, a queue of events, timers, and one callback per call that   *)
(* runs user code.  The machine behind it is the contract Calls.           *)
(*                                                                         *)
(* JavaScript runs one of these at a time, from one await to the next, and *)
(* every action is such a stretch.  Applying an operation awaits the       *)
(* journal before the new state is published; meanwhile the queue grows    *)
(* and the generators run, which read nothing that publishing writes, so   *)
(* one action stands for both halves.                                      *)
(***************************************************************************)
EXTENDS Calls, Sequences

CONSTANTS
  Kind,      \* call -> {"stream"}, or which of {"single", "judge"} it may be: the calls the workflow may create
  Timeouts,  \* call -> subset of {"call", "element"}
  MaxYields, \* bound: elements a generator produces
  Faults     \* subset of {"throw", "arm", "transform", "limits", "payload", "journal", "cancel", "deadline"}

VARIABLES
  loop,      \* "boot", "turn", "wait", "broken" (an exception) and "closed"
  error,     \* what the loop threw: "none", "stuck", "cannotEnd" or "journal"
  ending,    \* the call to terminate after a stop by quota: {} or {c}
  events,    \* the queue: [kind, call, index]
  timers,    \* the timers armed: [kind, call, index]
  attached,  \* the calls in the driver's map of callbacks
  code,      \* call -> its callback: [at, pending, aborted, index, final]
  quota,     \* a quota error is recorded
  asked,     \* a cancel was requested
  clock      \* "early", "late" (the deadline has passed), "rung" (its timer has fired)

driverVars == <<loop, error, ending, events, timers, attached, code, quota, asked, clock>>
vars == <<machineVars, driverVars>>

EventOf(kind, c, index) == [kind |-> kind, call |-> c, index |-> index]
Finals == {"returned", "judged", "badArm", "ended", "failed", "quota", "exited"}

-----------------------------------------------------------------------------
(* Callbacks seen from the driver *)

NewCallback == [at |-> "user", pending |-> FALSE, aborted |-> FALSE, index |-> 0, final |-> "exited"]

Wake(callback) == IF callback.at = "wait" THEN [callback EXCEPT !.at = "check"] ELSE callback

Requested(callback) == Wake([callback EXCEPT !.pending = TRUE])
Aborted(callback) == Wake([callback EXCEPT !.aborted = TRUE])
AbortAll(cs) == [c \in DOMAIN code |-> IF c \in cs THEN Aborted(code[c]) ELSE code[c]]

Armed(kind, c, index) == IF kind \in Timeouts[c] THEN {EventOf(kind, c, index)} ELSE {}
TimersOf(cs) == {t \in timers : t.call \in cs}

ElementTimer(c) == {t \in TimersOf({c}) : t.kind = "element"}

\* After an operation: cancel the callbacks whose calls are being cancelled.
Publish(kept, armed) ==
  LET hit == {c \in kept : calls'[c].status = "cancelling"} IN
  /\ attached' = kept
  /\ code' = AbortAll(hit)
  /\ timers' = {t \in armed : t.call \notin hit}

\* The events are for the loop: it wakes up if it sleeps.
Send(e) ==
  /\ events' = Append(events, e)
  /\ loop' = IF loop = "wait" THEN "turn" ELSE loop

-----------------------------------------------------------------------------
(* Applying an operation *)

\* While an execution runs, nothing but a cancel and its conclusion is
\* admitted past the deadline.
Overdue == status = "running" /\ clock # "early"
Refusable == status = "running" /\ "limits" \in Faults

StopQuota(kept, armed) ==
  /\ quota' = TRUE
  /\ Cancel
  /\ Publish(kept, armed)

\* op is refused if the deadline has passed, or by another limit if it
\* needs more than the shutdown reserve has set aside.
Apply(op, kept, armed) == ~Overdue /\ op /\ Publish(kept, armed) /\ UNCHANGED quota
Refuse(greedy, kept, armed) == (Overdue \/ (greedy /\ Refusable)) /\ StopQuota(kept, armed)

Throw(what, kept) ==
  /\ error' = what
  /\ loop' = "broken"
  /\ attached' = kept
  /\ code' = AbortAll(kept)
  /\ timers' = timers \ TimersOf(attached)

-----------------------------------------------------------------------------
(* Handling an event *)

Cancelling(c) == calls[c].status = "cancelling"

Stale(e) ==
  \/ e.kind = "cancel" /\ cancelled
  \/ e.kind = "deadline" /\ status # "running"
  \/ e.kind = "call" /\ calls[e.call].status \notin Live
  \/ /\ e.kind \in {"element", "yielded"}
     /\ \/ calls[e.call].status # "fetching"
        \/ calls[e.call].yields # e.index

Ignore ==
  /\ Stale(Head(events))
  /\ UNCHANGED <<machineVars, loop, error, ending, timers, attached, code, quota>>

HandleCancel(e) ==
  /\ e.kind = "cancel"
  /\ Cancel
  /\ Publish(attached, timers)
  /\ UNCHANGED <<loop, error, ending, quota>>

\* A mutation of HandleDeadline: the error is noted, and the execution goes on.
HandleDeadlineNoted(e) ==
  /\ e.kind = "deadline"
  /\ quota' = TRUE
  /\ UNCHANGED <<machineVars, loop, error, ending, timers, attached, code>>

HandleDeadline(e) ==
  /\ e.kind = "deadline"
  /\ StopQuota(attached, timers)
  /\ UNCHANGED <<loop, error, ending>>

HandleTimer(e) ==
  /\ e.kind \in {"call", "element"}
  /\ \/ Apply(TimeOut(e.call, e.kind = "element"), attached, timers)
     \/ Refuse(TRUE, attached, timers)
  /\ UNCHANGED <<loop, error, ending>>

HandleElement(e) ==
  /\ e.kind = "yielded"
  /\ LET armed == timers \ ElementTimer(e.call) IN
       \/ Apply(Yield(e.call), attached, armed)
       \/ Refuse(TRUE, attached, armed)
  /\ UNCHANGED <<loop, error, ending>>

\* The last report of a callback. Its call ends here: cancelled if it was
\* being cancelled or if a quota stops the execution, and else as reported.
Others(c) == attached \ {c}
Unarmed(c) == timers \ TimersOf({c})

\* The code ignores a refusal here, which leaves the call without a callback.
EndCancelled(c) ==
  /\ Cancelling(c)
  /\ \/ Apply(Terminate(c), Others(c), Unarmed(c))
     \/ Refuse(FALSE, Others(c), Unarmed(c))
  /\ UNCHANGED <<loop, error, ending>>

\* A mutation of EndByQuota: the call is not terminated.
EndByQuotaUnended(c) ==
  /\ StopQuota(Others(c), Unarmed(c))
  /\ UNCHANGED <<loop, error, ending>>

EndByQuota(c) ==
  /\ StopQuota(Others(c), Unarmed(c))
  /\ ending' = {c}
  /\ UNCHANGED <<loop, error>>

EndReported(c, kind) ==
  /\ \/ /\ Apply(IF kind \in {"returned", "judged", "ended"} THEN Return(c) ELSE FailCall(c), Others(c), Unarmed(c))
        /\ UNCHANGED ending
     \/ /\ Refuse(kind \in {"returned", "judged"}, Others(c), Unarmed(c))
        /\ ending' = {c}
  /\ UNCHANGED <<loop, error>>

\* A mutation of EndMisjudged: the callback stays in the map.
EndMisjudgedAttached(c) ==
  /\ Apply(FailCall(c), attached, Unarmed(c))
  /\ UNCHANGED <<loop, error, ending>>

\* The machine rejects the report, so the call fails; if that is refused as
\* overdue, the loop gives up.
EndMisjudged(c) ==
  \/ /\ Apply(FailCall(c), Others(c), Unarmed(c))
     /\ UNCHANGED <<loop, error, ending>>
  \/ /\ Overdue
     /\ quota' = TRUE
     /\ Cancel
     /\ Throw("cannotEnd", Others(c))
     /\ UNCHANGED ending

HandleFinal(e) ==
  \/ e.kind \in Finals /\ EndCancelled(e.call)
  \/ /\ e.kind \in Finals
     /\ calls[e.call].status \in Live
     /\ \/ e.kind = "quota" /\ EndByQuota(e.call)
        \/ e.kind = "badArm" /\ EndMisjudged(e.call)
        \/ e.kind \notin {"quota", "badArm"} /\ EndReported(e.call, e.kind)

Serve ==
  /\ ending = {}
  /\ events # <<>>
  /\ events' = Tail(events)
  /\ LET e == Head(events) IN
       \/ Ignore
       \/ /\ ~Stale(e)
          /\ \/ HandleCancel(e)
             \/ HandleDeadline(e)
             \/ HandleTimer(e)
             \/ HandleElement(e)
             \/ HandleFinal(e)
  /\ UNCHANGED <<asked, clock>>

\* The rest of a handler that a quota stopped.
EndStopped ==
  /\ \E c \in ending : Terminate(c)
  /\ ending' = {}
  /\ Publish(attached, timers)
  /\ UNCHANGED <<loop, error, events, quota, asked, clock>>

-----------------------------------------------------------------------------
(* Control operations, when no event is queued *)

Idle == ending = {} /\ events = <<>>
Fetchable == {c \in DOMAIN calls : calls[c].stream /\ calls[c].status = "running"}

ControlFetch(c) ==
  \/ /\ ~Overdue
     /\ Fetch(c)
     /\ code' = [code EXCEPT ![c] = Requested(@)]
     /\ timers' = timers \cup Armed("element", c, calls[c].yields)
     /\ UNCHANGED <<attached, quota>>
  \/ Refuse(TRUE, attached, timers)

ControlCreate(c) ==
  /\ c \notin DOMAIN calls
  /\ \/ /\ ~Overdue
        /\ Create(c, "stream" \in Kind[c])
        /\ code' = [k \in DOMAIN calls \cup {c} |-> IF k = c THEN NewCallback ELSE code[k]]
        /\ timers' = timers \cup Armed("call", c, 0)
        /\ attached' = attached \cup {c}
        /\ UNCHANGED quota
     \/ Refuse(TRUE, attached, timers)

\* The transform of a delivery, a task input or a task output threw.
ControlTransform ==
  /\ "transform" \in Faults
  /\ \/ Apply(FailTransform, attached, timers)
     \/ Refuse(TRUE, attached, timers)

\* Fetches are the first candidates; which others there are is up to the
\* workflow, and it has one whenever no call is left to wait for.
Control ==
  /\ Idle
  /\ \/ Running /\ \E c \in Fetchable : ControlFetch(c)
     \/ Running /\ Fetchable = {} /\ \E c \in DOMAIN Kind : ControlCreate(c)
     \/ Running /\ Fetchable = {} /\ ControlTransform
     \/ Conclude /\ Publish(attached, timers) /\ UNCHANGED quota
  /\ UNCHANGED <<loop, error, ending, events, asked, clock>>

Sleep ==
  /\ Idle
  /\ ~Quiet
  /\ Running => Fetchable = {}
  /\ \/ /\ attached # {}
        /\ loop' = "wait"
        /\ UNCHANGED <<error, attached, code, timers>>
     \/ attached = {} /\ Throw("stuck", {})
  /\ UNCHANGED <<machineVars, ending, events, quota, asked, clock>>

\* The journal rejects the operation of this turn, whichever it is: nothing
\* is published.
JournalFails ==
  /\ "journal" \in Faults
  /\ Idle => Quiet \/ (Running /\ (Fetchable # {} \/ DOMAIN calls # DOMAIN Kind))
  /\ \/ /\ ending = {}
        /\ events # <<>>
        /\ ~Stale(Head(events))
        /\ Throw("journal", IF Head(events).kind \in Finals THEN attached \ {Head(events).call} ELSE attached)
        /\ events' = Tail(events)
     \/ /\ Idle \/ ending # {}
        /\ Throw("journal", attached)
        /\ UNCHANGED events
  /\ UNCHANGED <<machineVars, ending, quota, asked, clock>>

Boot ==
  /\ loop = "boot"
  /\ Start
  /\ loop' = "turn"
  /\ UNCHANGED <<error, ending, events, timers, attached, code, quota, asked, clock>>

Turn ==
  /\ loop = "turn"
  /\ status \notin Terminal
  /\ Serve \/ EndStopped \/ Control \/ Sleep \/ JournalFails

\* A mutation of Close: an exception is reported at once.
CloseAtOnce ==
  /\ \/ loop = "turn" /\ status \in Terminal
     \/ loop = "broken"
  /\ loop' = "closed"
  /\ UNCHANGED <<machineVars, error, ending, events, timers, attached, code, quota, asked, clock>>

\* wait() settles: with the report, or with the error once every callback is
\* over.
Close ==
  /\ \/ loop = "turn" /\ status \in Terminal
     \/ loop = "broken" /\ \A c \in attached : code[c].at = "done"
  /\ loop' = "closed"
  /\ UNCHANGED <<machineVars, error, ending, events, timers, attached, code, quota, asked, clock>>

-----------------------------------------------------------------------------
(* The callback of a call *)

Step(c, callback) ==
  /\ code' = [code EXCEPT ![c] = callback]
  /\ UNCHANGED <<machineVars, error, ending, timers, attached, quota, asked, clock>>

Report(c, kind) ==
  /\ Send(EventOf(kind, c, code[c].index))
  /\ Step(c, [code[c] EXCEPT !.at = "done", !.final = kind])

\* A payload that the budget does not hold is a quota error of its callback.
Refused == IF "payload" \in Faults THEN {"quota"} ELSE {}
Thrown == IF "throw" \in Faults THEN {"failed"} ELSE {}
Misjudged == IF "arm" \in Faults THEN {"badArm"} ELSE {}

\* The user code of a Single call or a judge, and of a Stream up to its
\* iterator, returns or throws.
CodeReturns(c) ==
  /\ code[c].at = "user"
  /\ \/ "single" \in Kind[c] /\ code[c].aborted /\ Report(c, "exited")
     \/ "single" \in Kind[c] /\ ~code[c].aborted /\ \E kind \in {"returned"} \cup Refused : Report(c, kind)
     \/ "judge" \in Kind[c] /\ \E kind \in {"judged"} \cup Misjudged : Report(c, kind)
     \/ "stream" \in Kind[c] /\ Step(c, [code[c] EXCEPT !.at = "check"]) /\ UNCHANGED <<loop, events>>
     \/ \E kind \in Thrown : Report(c, kind)

\* Close the iterator, then report.
Leave(c, kind) ==
  /\ Step(c, [code[c] EXCEPT !.at = "leave", !.final = kind])
  /\ UNCHANGED <<loop, events>>

\* A mutation of CheckFetch: a request that was met is not cleared.
CheckFetchAgain(c) ==
  /\ code[c].at = "check"
  /\ \/ code[c].aborted /\ Leave(c, "exited")
     \/ /\ ~code[c].aborted
        /\ Step(c, [code[c] EXCEPT !.at = IF code[c].pending THEN "next" ELSE "wait"])
        /\ UNCHANGED <<loop, events>>

\* fetchRequested: the test and, if it fails, the wait are one stretch.
CheckFetch(c) ==
  /\ code[c].at = "check"
  /\ \/ /\ code[c].aborted
        /\ Leave(c, "exited")
     \/ /\ ~code[c].aborted
        /\ Step(c, [code[c] EXCEPT !.at = IF code[c].pending THEN "next" ELSE "wait",
                                   !.pending = FALSE])
        /\ UNCHANGED <<loop, events>>

IteratorMoves(c) ==
  /\ code[c].at = "next"
  /\ \/ code[c].aborted /\ Leave(c, "exited")
     \/ ~code[c].aborted /\ Report(c, "ended")
     \/ /\ ~code[c].aborted
        /\ code[c].index < MaxYields
        /\ Send(EventOf("yielded", c, code[c].index))
        /\ Step(c, [code[c] EXCEPT !.at = "check", !.index = @ + 1])
     \/ \E kind \in Thrown \cup (IF code[c].aborted THEN {} ELSE Refused) : Leave(c, kind)

IteratorCloses(c) == code[c].at = "leave" /\ Report(c, code[c].final)

UserCode(c) == CodeReturns(c) \/ IteratorMoves(c) \/ IteratorCloses(c)

-----------------------------------------------------------------------------
(* Timers and the caller *)

Fire(t) ==
  /\ timers' = timers \ {t}
  /\ Send(t)
  /\ UNCHANGED <<machineVars, error, ending, attached, code, quota, asked, clock>>

RequestCancel ==
  /\ "cancel" \in Faults
  /\ ~asked
  /\ loop \notin {"boot", "closed"}
  /\ asked' = TRUE
  /\ Send(EventOf("cancel", "none", 0))
  /\ UNCHANGED <<machineVars, error, ending, timers, attached, code, quota, clock>>

DeadlinePasses ==
  /\ "deadline" \in Faults
  /\ clock = "early"
  /\ loop \notin {"boot", "closed"}
  /\ clock' = "late"
  /\ UNCHANGED <<machineVars, loop, error, ending, events, timers, attached, code, quota, asked>>

DeadlineFires ==
  /\ clock = "late"
  /\ loop # "closed"
  /\ clock' = "rung"
  /\ Send(EventOf("deadline", "none", 0))
  /\ UNCHANGED <<machineVars, error, ending, timers, attached, code, quota, asked>>

-----------------------------------------------------------------------------
(* The specification *)

DriverInit ==
  /\ Init
  /\ loop = "boot"
  /\ error = "none"
  /\ ending = {}
  /\ events = <<>>
  /\ timers = {}
  /\ attached = {}
  /\ code = <<>>
  /\ quota = FALSE
  /\ asked = FALSE
  /\ clock = "early"

Loop == Boot \/ Turn \/ Close

DriverNext ==
  \/ Loop
  \/ \E c \in DOMAIN code : CheckFetch(c) \/ UserCode(c)
  \/ \E t \in timers : Fire(t)
  \/ RequestCancel
  \/ DeadlinePasses
  \/ DeadlineFires
  \/ loop = "closed" /\ UNCHANGED vars

DriverSpec == DriverInit /\ [][DriverNext]_vars

\* The event loop of the host runs what is ready, and fires the deadline in
\* the end. User code is trusted to end only when it is asked to: once its
\* signal is aborted or its iterator is being closed.
FairDriver ==
  /\ DriverSpec
  /\ WF_vars(Loop)
  /\ WF_vars(DeadlinePasses)
  /\ WF_vars(DeadlineFires)
  /\ \A c \in DOMAIN Kind :
       /\ WF_vars(c \in DOMAIN code /\ CheckFetch(c))
       /\ WF_vars(c \in DOMAIN code /\ (code[c].aborted \/ code[c].at = "leave") /\ UserCode(c))
=============================================================================
