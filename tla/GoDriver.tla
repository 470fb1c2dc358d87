------------------------------ MODULE GoDriver ------------------------------
(***************************************************************************)
(* The driver of one execution in the Go implementation (driver.go,        *)
(* calls.go).  Unlike the TypeScript driver (Driver), everything runs in   *)
(* parallel: one goroutine owns the state, each call has a goroutine of    *)
(* its own, timers fire in others, and all report through one channel of   *)
(* bounded capacity.  The driver applies operations until none is left,    *)
(* flushes them to the journal at once, and only then publishes their      *)
(* effects, each in view of the state that was reached meanwhile.          *)
(*                                                                         *)
(* An action is what a goroutine does from one use of a channel, a context *)
(* or a clock to the next.  The machine behind it is the contract Calls.   *)
(***************************************************************************)
EXTENDS Calls, SequencesExt

CONSTANTS
  Kind,      \* call -> {"stream"}, or which of {"single", "judge"} it may be: the calls the workflow may create
  Timeouts,  \* call -> subset of {"call", "element"}
  MaxYields, \* bound: elements a generator produces
  Capacity,  \* of the channel of events
  Faults     \* subset of {"fail", "arm", "transform", "limits", "payload", "journal", "cancel", "deadline"}

VARIABLES
  phase,    \* "boot", "pass", "publish", "drain", "abandon" or "done"
  error,    \* why the loop gave up: "none", "journal" or "stuck"
  ending,   \* the call to terminate after a stop by quota: {} or {c}
  buffered, \* records wait for the journal
  effects,  \* what the operations ask for, in order: [kind, call]
  runtimes, \* the calls in the driver's map: their goroutines have not reported their end
  local,    \* calls whose end the driver reports to itself
  drained,  \* events handled since the last select
  quota,    \* a quota error is recorded
  heard,    \* what the driver no longer selects on: subset of {"cancel", "deadline"}
  durable   \* history: the calls at the last flush

VARIABLES
  events,   \* the channel
  timers,   \* the timers armed: [kind, call, index]
  fired,    \* the timers whose goroutines send their event
  code,     \* call -> its goroutine: [at, fetch, cancelled, index, kind]
  asked,    \* the caller has cancelled
  clock     \* "early" or "late": the deadline has passed

driverVars == <<phase, error, ending, buffered, effects, runtimes, local, drained, quota, heard, durable>>
hostVars == <<events, timers, fired, code, asked, clock>>
vars == <<machineVars, driverVars, hostVars>>

EventOf(kind, c, index) == [kind |-> kind, call |-> c, index |-> index]
EffectOf(kind, c) == [kind |-> kind, call |-> c]
Finals == {"returned", "judged", "badArm", "ended", "failed", "quota", "exited"}

-----------------------------------------------------------------------------
(* Applying an operation *)

Overdue == status = "running" /\ clock = "late"
Refusable == status = "running" /\ "limits" \in Faults

\* The effects of an operation, and of a stop it caused, are queued.
Observe(own) ==
  /\ effects' = effects \o own \o
       (IF status = "running" /\ status' = "stopping"
        THEN SetToSeq({EffectOf("cancel", c) : c \in {k \in DOMAIN calls' : calls'[k].status = "cancelling"}})
        ELSE <<>>)
  /\ buffered' = TRUE

StopQuota == quota' = TRUE /\ Cancel /\ Observe(<<>>)
Accept(op, own) == ~Overdue /\ op /\ Observe(own) /\ UNCHANGED quota

\* op is refused past the deadline, or by another limit if it needs more
\* than what is set aside for the end of the execution.
Refuse(greedy) == (Overdue \/ (greedy /\ Refusable)) /\ StopQuota

Unapplied == UNCHANGED <<machineVars, effects, buffered, quota>>

-----------------------------------------------------------------------------
(* pass: the engine's own operations *)

Fetchable == {c \in DOMAIN calls : calls[c].stream /\ calls[c].status = "running"}

Pass ==
  /\ phase = "pass" /\ ending = {}
  /\ \/ /\ Running
        /\ \/ \E c \in Fetchable : Accept(Fetch(c), <<EffectOf("fetch", c)>>)
           \/ \E c \in DOMAIN Kind : Accept(Create(c, "stream" \in Kind[c]), <<EffectOf("start", c)>>)
           \/ "transform" \in Faults /\ Accept(FailTransform, <<>>)
           \/ (Fetchable # {} \/ DOMAIN calls # DOMAIN Kind) /\ Refuse(TRUE)
     \/ Conclude /\ Observe(<<>>) /\ UNCHANGED quota
  /\ UNCHANGED <<phase, error, ending, runtimes, local, drained, heard, durable, hostVars>>

\* The second half of a report that a quota refused.
EndStopped ==
  /\ \E c \in ending : Terminate(c)
  /\ Observe(<<>>)
  /\ ending' = {}
  /\ UNCHANGED <<phase, error, runtimes, local, drained, quota, heard, durable, hostVars>>

-----------------------------------------------------------------------------
(* flush and publish *)

Cancelled(cs) == [c \in DOMAIN code |-> IF c \in cs THEN [code[c] EXCEPT !.cancelled = TRUE] ELSE code[c]]
TimersOf(cs) == {t \in timers : t.call \in cs}

Armed(kind, c, index) == IF kind \in Timeouts[c] THEN {EventOf(kind, c, index)} ELSE {}

\* The loop returns without a report, and what user code is left is told to stop.
GiveUp(what, waited) ==
  /\ phase' = "abandon"
  /\ error' = what
  /\ timers' = timers \ TimersOf(waited)
  /\ code' = Cancelled(waited)

\* No operation is left to try.
PassEnded ==
  /\ phase = "pass" /\ ending = {}
  /\ Running => Fetchable = {}
  /\ Going => ~Quiet

Flush ==
  /\ PassEnded
  /\ \/ phase' = "publish" /\ buffered' = FALSE /\ durable' = calls /\ UNCHANGED <<error, timers, code>>
     \/ "journal" \in Faults /\ buffered /\ GiveUp("journal", runtimes) /\ UNCHANGED <<buffered, durable>>
  /\ UNCHANGED <<machineVars, ending, effects, runtimes, local, drained, quota, heard, events, fired, asked, clock>>

NewCode == [at |-> "user", fetch |-> FALSE, cancelled |-> FALSE, index |-> 0, kind |-> "exited"]

\* A mutation of PublishStart: a call that was stopped meanwhile is left out.
PublishStartLive(c) ==
  /\ UNCHANGED local
  /\ IF calls[c].status \in Live
     THEN /\ code' = [k \in DOMAIN code \cup {c} |-> IF k = c THEN NewCode ELSE code[k]]
          /\ runtimes' = runtimes \cup {c}
          /\ timers' = timers \cup Armed("call", c, 0)
     ELSE UNCHANGED <<code, runtimes, timers>>

\* A call that was stopped meanwhile has no user code to wait for.
PublishStart(c) ==
  \/ /\ calls[c].status \in Live
     /\ code' = [k \in DOMAIN code \cup {c} |-> IF k = c THEN NewCode ELSE code[k]]
     /\ runtimes' = runtimes \cup {c}
     /\ timers' = timers \cup Armed("call", c, 0)
     /\ UNCHANGED local
  \/ /\ calls[c].status = "cancelling"
     /\ local' = Append(local, c)
     /\ UNCHANGED <<code, runtimes, timers>>

\* The channel of fetches holds one: the driver would wait for room.
PublishFetch(c) ==
  /\ IF c \in runtimes /\ calls[c].status = "fetching"
     THEN /\ ~code[c].fetch
          /\ code' = [code EXCEPT ![c].fetch = TRUE]
          /\ timers' = timers \cup Armed("element", c, calls[c].yields)
     ELSE UNCHANGED <<code, timers>>
  /\ UNCHANGED <<runtimes, local>>

PublishCancel(c) ==
  /\ code' = Cancelled({c} \cap runtimes)
  /\ timers' = timers \ TimersOf({c} \cap runtimes)
  /\ UNCHANGED <<runtimes, local>>

\* A mutation of Publish: effects do not wait for the journal.
PublishEarly ==
  /\ phase \in {"pass", "publish"}
  /\ effects # <<>>
  /\ effects' = Tail(effects)
  /\ LET e == Head(effects) IN
       \/ e.kind = "start" /\ PublishStart(e.call)
       \/ e.kind = "fetch" /\ PublishFetch(e.call)
       \/ e.kind = "cancel" /\ PublishCancel(e.call)
  /\ UNCHANGED <<machineVars, phase, error, ending, buffered, drained, quota, heard, durable, events, fired, asked, clock>>

Publish ==
  /\ phase = "publish"
  /\ effects # <<>>
  /\ effects' = Tail(effects)
  /\ LET e == Head(effects) IN
       \/ e.kind = "start" /\ PublishStart(e.call)
       \/ e.kind = "fetch" /\ PublishFetch(e.call)
       \/ e.kind = "cancel" /\ PublishCancel(e.call)
  /\ UNCHANGED <<machineVars, phase, error, ending, buffered, drained, quota, heard, durable, events, fired, asked, clock>>

-----------------------------------------------------------------------------
(* handle *)

\* A mutation of TimeOutStale: the timer of any element counts.
TimeOutStaleAny(e) ==
  \/ e.call \notin runtimes
  \/ calls[e.call].status \notin (IF e.kind = "call" THEN Live ELSE {"fetching"})

TimeOutStale(e) ==
  \/ e.call \notin runtimes
  \/ e.kind = "call" /\ calls[e.call].status \notin Live
  \/ e.kind = "element" /\ (calls[e.call].status # "fetching" \/ calls[e.call].yields # e.index)

HandleTimer(e) ==
  /\ e.kind \in {"call", "element"}
  /\ \/ TimeOutStale(e) /\ Unapplied
     \/ /\ ~TimeOutStale(e)
        /\ \/ Accept(TimeOut(e.call, e.kind = "element"), <<EffectOf("cancel", e.call)>>)
           \/ Refuse(TRUE)
  /\ UNCHANGED <<error, ending, runtimes, timers, code>>

Expected(e) == calls[e.call].status = "fetching" /\ calls[e.call].yields = e.index

HandleElement(e) ==
  /\ e.kind = "yielded"
  /\ \/ ~Expected(e) /\ Unapplied /\ UNCHANGED timers
     \/ /\ Expected(e)
        /\ timers' = {t \in timers : t.call # e.call \/ t.kind # "element"}
        /\ Accept(Yield(e.call), <<>>) \/ Refuse(TRUE)
  /\ UNCHANGED <<error, ending, runtimes, code>>

Over(c) == runtimes' = runtimes \ {c} /\ timers' = timers \ TimersOf({c} \cap runtimes)

\* A refusal is ignored here, which leaves the call without a goroutine.
EndCancelled(c) ==
  /\ calls[c].status = "cancelling"
  /\ Accept(Terminate(c), <<>>) \/ Refuse(FALSE)
  /\ UNCHANGED <<error, ending, code>>

\* A mutation of EndByQuota: the call is not terminated.
EndByQuotaUnended(c) == StopQuota /\ UNCHANGED <<error, ending, code>>

EndByQuota(c) == StopQuota /\ ending' = {c} /\ UNCHANGED <<error, code>>

EndReported(c, kind) ==
  /\ \/ /\ Accept(IF kind \in {"returned", "judged", "ended"} THEN Return(c) ELSE FailCall(c), <<>>)
        /\ UNCHANGED ending
     \/ Refuse(kind \in {"returned", "judged"}) /\ ending' = {c}
  /\ UNCHANGED <<error, code>>

HandleFinal(e) ==
  /\ e.kind \in Finals
  /\ calls[e.call].status \in Unended
  /\ Over(e.call)
  /\ \/ EndCancelled(e.call)
     \/ calls[e.call].status \in Live /\ e.kind = "quota" /\ EndByQuota(e.call)
     \/ calls[e.call].status \in Live /\ e.kind # "quota" /\ EndReported(e.call, e.kind)

\* A report of a call that has ended would be an internal error of the code;
\* none comes (EndsReportedOnce).
Handle(e, next) == phase' = next /\ (HandleTimer(e) \/ HandleElement(e) \/ HandleFinal(e))

-----------------------------------------------------------------------------
(* loop *)

Turn == phase = "publish" /\ effects = <<>> /\ status \notin Terminal

HandleLocal ==
  /\ Turn
  /\ local # <<>>
  /\ local' = Tail(local)
  /\ Handle(EventOf("exited", Head(local), 0), "pass")
  /\ UNCHANGED <<drained, heard, durable, events, fired, asked, clock>>

Stuck ==
  /\ Turn
  /\ local = <<>>
  /\ runtimes = {}
  /\ GiveUp("stuck", {})
  /\ UNCHANGED <<machineVars, ending, buffered, effects, runtimes, local, drained, quota, heard, durable, events, fired, asked, clock>>

Select == Turn /\ local = <<>> /\ runtimes # {}

Received == events' = Tail(events)

Receive ==
  /\ Select
  /\ events # <<>>
  /\ Received
  /\ drained' = 0
  /\ Handle(Head(events), "drain")
  /\ UNCHANGED <<local, heard, durable, fired, asked, clock>>

\* What waits in the channel is handled before the next flush, up to what
\* the channel holds.
Drain ==
  /\ phase = "drain" /\ ending = {}
  /\ \/ /\ events # <<>> /\ drained < Capacity
        /\ Received
        /\ drained' = drained + 1
        /\ Handle(Head(events), "drain")
     \/ /\ events = <<>> \/ drained = Capacity
        /\ phase' = "pass"
        /\ Unapplied
        /\ UNCHANGED <<error, ending, runtimes, timers, code, events, drained>>
  /\ UNCHANGED <<local, heard, durable, fired, asked, clock>>

HearDeadline ==
  /\ Select
  /\ clock = "late" /\ "deadline" \notin heard
  /\ heard' = heard \cup {"deadline"}
  /\ \/ status = "running" /\ StopQuota
     \/ status # "running" /\ Unapplied
  /\ phase' = "pass"
  /\ UNCHANGED <<error, ending, runtimes, local, drained, durable, hostVars>>

HearCancel ==
  /\ Select
  /\ asked /\ "cancel" \notin heard
  /\ heard' = heard \cup {"cancel"}
  /\ \/ ~cancelled /\ Cancel /\ Observe(<<>>) /\ UNCHANGED quota
     \/ cancelled /\ Unapplied
  /\ phase' = "pass"
  /\ UNCHANGED <<error, ending, runtimes, local, drained, durable, hostVars>>

Finish ==
  /\ phase = "publish" /\ effects = <<>> /\ status \in Terminal
  /\ phase' = "done"
  /\ UNCHANGED <<machineVars, error, ending, buffered, effects, runtimes, local, drained, quota, heard, durable, hostVars>>

\* A mutation of Abandon: nobody is waited for.
AbandonNobody ==
  /\ phase = "abandon"
  /\ phase' = "done"
  /\ UNCHANGED <<events, runtimes>>
  /\ UNCHANGED <<machineVars, error, ending, buffered, effects, local, drained, quota, heard, durable, timers, fired, code, asked, clock>>

\* Nothing more is recorded; the events are received until every goroutine
\* has reported its end.
Abandon ==
  /\ phase = "abandon"
  /\ \/ runtimes = {} /\ phase' = "done" /\ UNCHANGED <<events, runtimes>>
     \/ /\ runtimes # {} /\ events # <<>>
        /\ events' = Tail(events)
        /\ runtimes' = IF Head(events).kind \in Finals THEN runtimes \ {Head(events).call} ELSE runtimes
        /\ UNCHANGED phase
  /\ UNCHANGED <<machineVars, error, ending, buffered, effects, local, drained, quota, heard, durable, timers, fired, code, asked, clock>>

Boot ==
  /\ phase = "boot"
  /\ Start
  /\ phase' = "pass"
  /\ UNCHANGED <<error, ending, buffered, effects, runtimes, local, drained, quota, heard, durable, hostVars>>

-----------------------------------------------------------------------------
(* The goroutine of a call: start, guard and generate *)

Goroutine(c, it) ==
  /\ code' = [code EXCEPT ![c] = it]
  /\ UNCHANGED <<machineVars, driverVars, timers, fired, asked, clock>>

Reporting(c, kind) == Goroutine(c, [code[c] EXCEPT !.at = "send", !.kind = kind]) /\ UNCHANGED events

Thrown == IF "fail" \in Faults THEN {"failed"} ELSE {}
Refused == IF "payload" \in Faults THEN {"quota"} ELSE {}
Misjudged == IF "arm" \in Faults THEN {"badArm"} ELSE {}

\* User code of a Single function or a judge, or what comes before a generator.
CodeReturns(c) ==
  /\ code[c].at = "user"
  /\ \/ "single" \in Kind[c] /\ \E kind \in {"returned"} \cup Refused : Reporting(c, kind)
     \/ "judge" \in Kind[c] /\ \E kind \in {"judged"} \cup Misjudged : Reporting(c, kind)
     \/ "stream" \in Kind[c] /\ Goroutine(c, [code[c] EXCEPT !.at = "select"]) /\ UNCHANGED events
     \/ \E kind \in Thrown : Reporting(c, kind)

\* A mutation of GenerateSelect: the fetch stays in its channel.
GenerateSelectKept(c) ==
  /\ code[c].at = "select"
  /\ \/ code[c].fetch /\ Goroutine(c, [code[c] EXCEPT !.at = "check"])
     \/ code[c].cancelled /\ Goroutine(c, [code[c] EXCEPT !.at = "exit"])
  /\ UNCHANGED events

\* A fetch that comes together with the cancellation may win the select;
\* the context is looked at again.
GenerateSelect(c) ==
  /\ code[c].at = "select"
  /\ \/ code[c].fetch /\ Goroutine(c, [code[c] EXCEPT !.at = "check", !.fetch = FALSE])
     \/ code[c].cancelled /\ Goroutine(c, [code[c] EXCEPT !.at = "exit"])
  /\ UNCHANGED events

GenerateCheck(c) ==
  /\ code[c].at = "check"
  /\ Goroutine(c, [code[c] EXCEPT !.at = IF code[c].cancelled THEN "exit" ELSE "next"])
  /\ UNCHANGED events

\* The generator has moved; its context is looked at once more.
GenerateNext(c) ==
  /\ code[c].at = "next"
  /\ \/ code[c].cancelled /\ Goroutine(c, [code[c] EXCEPT !.at = "exit"]) /\ UNCHANGED events
     \/ /\ ~code[c].cancelled
        /\ \/ \E kind \in {"ended"} \cup Refused : Reporting(c, kind)
           \/ code[c].index < MaxYields /\ Reporting(c, "yielded")
     \/ \E kind \in Thrown : Reporting(c, kind)

\* The generator is ended, then the exit is reported.
GenerateExit(c) == code[c].at = "exit" /\ Reporting(c, "exited")

\* A mutation of Send: events are never given up.
SendWaiting(e) == Len(events) < Capacity /\ events' = Append(events, e)

\* Once the driver is gone, events are given up.
Send(e) ==
  \/ Len(events) < Capacity /\ events' = Append(events, e)
  \/ phase = "done" /\ UNCHANGED events

SendReport(c) ==
  /\ code[c].at = "send"
  /\ Send(EventOf(code[c].kind, c, code[c].index))
  /\ Goroutine(c, IF code[c].kind = "yielded"
                  THEN [code[c] EXCEPT !.at = "select", !.index = @ + 1]
                  ELSE [code[c] EXCEPT !.at = "over"])

Generate(c) == GenerateSelect(c) \/ GenerateCheck(c)
UserCode(c) == CodeReturns(c) \/ GenerateNext(c) \/ GenerateExit(c)

-----------------------------------------------------------------------------
(* Timers, the caller and the clock *)

Fire(t) ==
  /\ timers' = timers \ {t}
  /\ fired' = fired \cup {t}
  /\ UNCHANGED <<machineVars, driverVars, events, code, asked, clock>>

SendTimer(t) ==
  /\ Send(t)
  /\ fired' = fired \ {t}
  /\ UNCHANGED <<machineVars, driverVars, timers, code, asked, clock>>

RequestCancel ==
  /\ "cancel" \in Faults
  /\ ~asked
  /\ phase # "boot"
  /\ asked' = TRUE
  /\ UNCHANGED <<machineVars, driverVars, events, timers, fired, code, clock>>

DeadlinePasses ==
  /\ "deadline" \in Faults
  /\ clock = "early"
  /\ phase # "boot"
  /\ clock' = "late"
  /\ UNCHANGED <<machineVars, driverVars, events, timers, fired, code, asked>>

-----------------------------------------------------------------------------
(* The specification *)

GoInit ==
  /\ Init
  /\ phase = "boot" /\ error = "none"
  /\ ending = {} /\ buffered = FALSE /\ effects = <<>>
  /\ runtimes = {} /\ local = <<>> /\ drained = 0
  /\ quota = FALSE /\ heard = {} /\ durable = <<>>
  /\ events = <<>> /\ timers = {} /\ fired = {} /\ code = <<>>
  /\ asked = FALSE /\ clock = "early"

Loop ==
  \/ Boot \/ Pass \/ EndStopped \/ Flush \/ Publish
  \/ HandleLocal \/ Stuck \/ Receive \/ Drain \/ HearDeadline \/ HearCancel
  \/ Finish \/ Abandon

GoNext ==
  \/ Loop
  \/ \E c \in DOMAIN code : Generate(c) \/ SendReport(c) \/ UserCode(c)
  \/ \E t \in timers : Fire(t)
  \/ \E t \in fired : SendTimer(t)
  \/ RequestCancel
  \/ DeadlinePasses
  \/ phase = "done" /\ UNCHANGED vars

GoSpec == GoInit /\ [][GoNext]_vars

\* The scheduler runs every goroutine that can go on; the deadline passes in
\* the end. User code is trusted to return only once its context is cancelled.
FairGo ==
  /\ GoSpec
  /\ WF_vars(Loop)
  /\ WF_vars(DeadlinePasses)
  /\ WF_vars(\E t \in fired : SendTimer(t))
  /\ \A c \in DOMAIN Kind :
       /\ WF_vars(c \in DOMAIN code /\ Generate(c))
       /\ WF_vars(c \in DOMAIN code /\ SendReport(c))
       /\ WF_vars(c \in DOMAIN code /\ (code[c].cancelled \/ code[c].at = "exit") /\ UserCode(c))
=============================================================================
