---------------------------- MODULE DriverProofs ----------------------------
(***************************************************************************)
(* The safety properties of the driver for every set of calls, whatever    *)
(* their timeouts, and every number of elements.                           *)
(*                                                                         *)
(* The invariant follows a report from the callback through the queue:     *)
(* Reports says what lies in the queue, Attached who may still report,     *)
(* Obeyed whom the driver has told to stop, and Fetched where a fetch is   *)
(* between the machine and its generator.  A loop that broke leaves the    *)
(* machine and the callbacks as they were, so what relates these two is    *)
(* only claimed while the loop is alive.                                   *)
(***************************************************************************)
EXTENDS MCDriver, FiniteSetTheorems, TLAPS

CallRecord == [stream: BOOLEAN, status: Unended \cup {"returned", "failed", "lost", "cancelled"}, yields: Nat]
Callback == [at: {"user", "check", "wait", "next", "leave", "done"}, pending: BOOLEAN, aborted: BOOLEAN,
             index: Nat, final: Finals]
Timer == [kind: {"call", "element"}, call: DOMAIN calls, index: Nat]
EventKinds == {"cancel", "deadline", "call", "element", "yielded"} \cup Finals

\* The call has not ended.
NotOver(c) == calls[c].status \in Unended

-----------------------------------------------------------------------------
(* The invariant *)

\* What the calls promise by themselves.
Lives ==
  /\ status \in Statuses
  /\ cancelled \in BOOLEAN
  /\ started \in BOOLEAN
  /\ \A c \in DOMAIN calls :
       /\ calls[c] \in CallRecord
       /\ calls[c].status \in Live => status = "running"
       /\ calls[c].status \in Unended => status \notin Terminal
  /\ cancelled => status \in {"stopping", "failed", "cancelled"}

\* Every call has a callback, of the kind the workflow says.
Typed ==
  /\ loop \in {"boot", "turn", "wait", "broken", "closed"}
  /\ quota \in BOOLEAN
  /\ DOMAIN code = DOMAIN calls
  /\ \A c \in DOMAIN calls :
       /\ code[c] \in Callback
       /\ calls[c].stream <=> "stream" \in Kind[c]
       /\ code[c].at \notin {"user", "done"} => calls[c].stream
  /\ timers \subseteq Timer

\* The queue: of each callback one last report, which it sends as it ends and
\* which is about a call that has not ended; and its elements, once each.
Reports ==
  /\ events \in Seq({events[n] : n \in DOMAIN events})
  /\ \A i \in DOMAIN events :
       LET e == events[i] IN
       /\ e.kind \in EventKinds
       /\ e.kind \notin {"cancel", "deadline"} => e.call \in DOMAIN calls
       /\ e.kind \in Finals => e.call \in attached /\ code[e.call].at = "done" /\ code[e.call].final = e.kind
       /\ e.kind = "yielded" => e.index \in 0..(code[e.call].index - 1)
  /\ \A i, j \in DOMAIN events :
       /\ events[i].call = events[j].call
       /\ \/ events[i].kind \in Finals /\ events[j].kind \in Finals
          \/ events[i].kind = "yielded" /\ events[j].kind = "yielded" /\ events[i].index = events[j].index
       => i = j

\* Who may still report: a callback leaves the map once it has ended.
Attached ==
  /\ \A c \in DOMAIN calls \ attached : code[c].at = "done"
  /\ \A c \in attached : c \in DOMAIN calls /\ NotOver(c)
  /\ \A c \in ending : c \in DOMAIN calls /\ calls[c].status = "cancelling" /\ c \notin attached
  /\ \A c, d \in ending : c = d
  /\ Alive /\ (clock = "early" \/ ~quota) => \A c \in DOMAIN calls : NotOver(c) => c \in attached \cup ending

Obeyed ==
  Alive =>
    /\ \A c \in attached : code[c].aborted <=> calls[c].status = "cancelling"
    /\ \A c \in LiveCalls : code[c].at \in {"leave", "done"} => code[c].final # "exited"
    /\ TimersMatch

\* An element of c is in the queue.
Coming(c) == \E i \in DOMAIN events : events[i].kind = "yielded" /\ events[i].call = c

\* Where a call that is live stands with its generator: not asked, asked,
\* moving on, or ahead by one element; or its callback has ended.
Unasked(c) == code[c].at \in {"user", "check", "wait"} /\ ~code[c].pending /\ ~Coming(c) /\ calls[c].status = "running"
Asked(c) == code[c].at \in {"user", "check"} /\ code[c].pending /\ ~Coming(c) /\ calls[c].status = "fetching"
Moving(c) == code[c].at \in {"next", "leave"} /\ ~code[c].pending /\ ~Coming(c) /\ calls[c].status = "fetching"
Ahead(c) == /\ code[c].at \in {"check", "wait"} /\ ~code[c].pending /\ calls[c].status = "fetching"
            /\ Coming(c)
            /\ \A i \in DOMAIN events :
                 events[i].kind = "yielded" /\ events[i].call = c => events[i].index = calls[c].yields
Ended(c) == code[c].at = "done" /\ ~Coming(c)

Phase(c) ==
  \/ Ahead(c) /\ code[c].index = calls[c].yields + 1
  \/ (Unasked(c) \/ Asked(c) \/ Moving(c) \/ Ended(c)) /\ code[c].index = calls[c].yields

Fetched ==
  Alive =>
    /\ \A c \in LiveCalls : Phase(c)
    /\ \A i \in DOMAIN events :
         events[i].kind = "element" /\ calls[events[i].call].status = "fetching"
           => events[i].index = calls[events[i].call].yields

\* Why the loop fails, and when all is over.
Given ==
  /\ quota => cancelled
  /\ error \in {"stuck", "cannotEnd"} => quota /\ clock # "early"
  /\ loop = "closed" => \A c \in DOMAIN calls : code[c].at = "done"
  /\ loop = "boot" => DOMAIN calls = {} /\ events = <<>> /\ clock = "early"
  /\ error \in {"none", "stuck", "cannotEnd", "journal"}

IInv == Lives /\ Typed /\ Reports /\ Attached /\ Obeyed /\ Fetched /\ Given

-----------------------------------------------------------------------------
(* Operations on the calls *)

\* What an operation on c does to the calls: the others go on, or they are
\* cancelled.
Rest(c) ==
  /\ Lives'
  /\ DOMAIN calls' = DOMAIN calls
  /\ cancelled => cancelled'
  /\ \A k \in DOMAIN calls : (calls'[k].stream <=> calls[k].stream)
  /\ \A k \in DOMAIN calls \ {c} :
       \/ calls'[k] = calls[k]
       \/ /\ calls[k].status \in Live
          /\ calls'[k].status = "cancelling"
          /\ calls'[k].yields = calls[k].yields

\* Cancelling what is live, in any table of calls.
LEMMA CancelLiveRest ==
  ASSUME NEW table, \A k \in DOMAIN table : table[k] \in CallRecord
  PROVE  /\ DOMAIN CancelLive(table) = DOMAIN table
         /\ \A k \in DOMAIN table :
              /\ CancelLive(table)[k] \in CallRecord
              /\ (CancelLive(table)[k].stream <=> table[k].stream)
              /\ CancelLive(table)[k].yields = table[k].yields
              /\ table[k].status \in Live => CancelLive(table)[k].status = "cancelling"
              /\ table[k].status \notin Live => CancelLive(table)[k] = table[k]
BY DEF CancelLive, CallRecord, Unended, Live

\* A cancel leaves no call live.
LEMMA CancelStep ==
  ASSUME Lives, Cancel, NEW c
  PROVE  /\ Rest(c)
         /\ cancelled' /\ status' = "stopping"
         /\ \A k \in DOMAIN calls :
              /\ calls'[k].status \notin Live
              /\ calls'[k].status \in Unended <=> calls[k].status \in Unended
              /\ calls[k].status \in Unended => calls'[k].status = "cancelling"
<1>1. /\ DOMAIN calls' = DOMAIN calls
      /\ \A k \in DOMAIN calls :
              /\ calls'[k] \in CallRecord
              /\ (calls'[k].stream <=> calls[k].stream)
              /\ calls'[k].yields = calls[k].yields
              /\ calls[k].status \in Live => calls'[k].status = "cancelling"
              /\ calls[k].status \notin Live => calls'[k] = calls[k]
  BY CancelLiveRest DEF Cancel, Lives
<1>2. cancelled' /\ status' = "stopping" /\ started' = started
  BY DEF Cancel
<1>3. Lives'
  BY <1>1, <1>2 DEF Lives, Statuses, Terminal, Unended, Live
<1> QED
  BY <1>1, <1>2, <1>3 DEF Rest, Unended, Live

\* A call gets another status.
LEMMA StatusSet ==
  ASSUME NEW c \in DOMAIN calls, NEW s, Lives
  PROVE  /\ DOMAIN SetStatus(c, s) = DOMAIN calls
         /\ s \in Unended \cup {"returned", "failed", "lost", "cancelled"} => SetStatus(c, s)[c] \in CallRecord
         /\ SetStatus(c, s)[c].status = s
         /\ (SetStatus(c, s)[c].stream <=> calls[c].stream)
         /\ SetStatus(c, s)[c].yields = calls[c].yields
         /\ \A k \in DOMAIN calls \ {c} : SetStatus(c, s)[k] = calls[k]
BY DEF SetStatus, Lives, CallRecord

\* A failure of c, or of no call at all.
LEMMA FailRest ==
  ASSUME Lives, status = "running", NEW c, NEW table, Fail(table),
         DOMAIN table = DOMAIN calls,
         \A k \in DOMAIN calls : table[k] \in CallRecord /\ (table[k].stream <=> calls[k].stream),
         \A k \in DOMAIN calls \ {c} : table[k] = calls[k]
  PROVE  /\ Rest(c)
         /\ c \in DOMAIN calls => \/ calls'[c] = table[c]
                                  \/ table[c].status \in Live /\ calls'[c].status = "cancelling"
<1>1. CASE calls' = table /\ status' = status /\ started' = started /\ cancelled' = cancelled
  <2>1. Lives'
    BY <1>1 DEF Lives, Terminal, Statuses
  <2> QED
    BY <1>1, <2>1 DEF Rest
<1>2. CASE calls' = CancelLive(table) /\ status' = "stopping" /\ started' = started /\ cancelled' = cancelled
  <2>1. /\ DOMAIN calls' = DOMAIN table
        /\ \A k \in DOMAIN calls :
              /\ calls'[k] \in CallRecord
              /\ (calls'[k].stream <=> table[k].stream)
              /\ calls'[k].yields = table[k].yields
              /\ table[k].status \in Live => calls'[k].status = "cancelling"
              /\ table[k].status \notin Live => calls'[k] = table[k]
    BY <1>2, CancelLiveRest
  <2>2. Lives'
    BY <1>2, <2>1 DEF Lives, Terminal, Statuses, Live, Unended
  <2> QED
    BY <2>1, <2>2, <1>2 DEF Rest
<1> QED
  BY <1>1, <1>2 DEF Fail

\* What each report does to its own call.
LEMMA CallSteps ==
  ASSUME Lives, NEW c \in DOMAIN calls
  PROVE  /\ TimeOut(c, FALSE) \/ TimeOut(c, TRUE) => Rest(c) /\ calls'[c].status = "cancelling"
         /\ Return(c) => Rest(c) /\ calls'[c].status \notin Unended
         /\ FailCall(c) => Rest(c) /\ calls'[c].status \notin Unended
         /\ Terminate(c) => Rest(c) /\ calls'[c].status \notin Unended
         /\ Yield(c) => /\ Rest(c) /\ status' = "running"
                        /\ calls'[c].status = "running" /\ calls'[c].yields = calls[c].yields + 1
<1>1. ASSUME TimeOut(c, FALSE) \/ TimeOut(c, TRUE) PROVE Rest(c) /\ calls'[c].status = "cancelling"
  <2>1. status = "running" /\ Fail(SetStatus(c, "cancelling"))
    BY <1>1 DEF TimeOut, Running
  <2> QED
    BY <2>1, StatusSet, FailRest DEF Unended, Lives, Live
<1>2. ASSUME Return(c) PROVE Rest(c) /\ calls'[c].status \notin Unended
  <2>1. calls' = SetStatus(c, "returned") /\ status' = status /\ started' = started /\ cancelled' = cancelled
    BY <1>2 DEF Return
  <2> QED
    BY <2>1, StatusSet DEF Rest, Lives, Unended, Live
<1>3. ASSUME FailCall(c) PROVE Rest(c) /\ calls'[c].status \notin Unended
  <2>1. status = "running" /\ Fail(SetStatus(c, "failed"))
    BY <1>3 DEF FailCall, Running
  <2> QED
    BY <2>1, StatusSet, FailRest DEF Unended, Lives, Live
<1>4. ASSUME Terminate(c) PROVE Rest(c) /\ calls'[c].status \notin Unended
  <2>1. calls' = SetStatus(c, "cancelled") /\ status' = status /\ started' = started /\ cancelled' = cancelled
    BY <1>4 DEF Terminate
  <2> QED
    BY <2>1, StatusSet DEF Rest, Lives, Unended, Live
<1>5. ASSUME Yield(c)
      PROVE  /\ Rest(c) /\ status' = "running"
             /\ calls'[c].status = "running" /\ calls'[c].yields = calls[c].yields + 1
  <2>1. /\ calls' = [calls EXCEPT ![c] = [stream |-> TRUE, status |-> "running", yields |-> @.yields + 1]]
        /\ status' = status /\ started' = started /\ cancelled' = cancelled
        /\ status = "running" /\ calls[c].stream
    BY <1>5 DEF Yield, Running
  <2>2. /\ DOMAIN calls' = DOMAIN calls
        /\ calls'[c] = [stream |-> TRUE, status |-> "running", yields |-> calls[c].yields + 1]
        /\ \A k \in DOMAIN calls \ {c} : calls'[k] = calls[k]
    BY <2>1
  <2>3. calls'[c] \in CallRecord /\ (calls'[c].stream <=> calls[c].stream)
    <3>1. calls[c].yields \in Nat
      BY DEF Lives, CallRecord
    <3>3. calls[c].yields + 1 \in Nat
      BY <3>1
    <3>4. calls'[c].stream <=> calls[c].stream
      BY <2>1, <2>2
    <3>5. [stream |-> TRUE, status |-> "running", yields |-> calls[c].yields + 1] \in CallRecord
      BY <3>3 DEF CallRecord, Unended, Live
    <3> QED
      BY <3>4, <3>5, <2>2
  <2>4. Lives'
    BY <2>1, <2>2, <2>3 DEF Lives, Terminal
  <2> QED
    BY <2>1, <2>2, <2>3, <2>4 DEF Rest
<1> QED
  BY <1>1, <1>2, <1>3, <1>4, <1>5

\* A transform that failed is the fault of no call.
LEMMA TransformStep ==
  ASSUME Lives, FailTransform, NEW c
  PROVE  /\ Rest(c)
         /\ c \in DOMAIN calls => \/ calls'[c] = calls[c]
                                  \/ (calls[c].status \in Live /\ calls'[c].status = "cancelling")
<1>1. status = "running" /\ Fail(calls)
  BY DEF FailTransform, Running
<1> QED
  BY <1>1, FailRest DEF Lives

-----------------------------------------------------------------------------
(* Publishing *)

\* What becomes of a callback, told to stop or not.
LEMMA AbortedCallback ==
  ASSUME NEW cb \in Callback
  PROVE  /\ Aborted(cb) \in Callback
         /\ Aborted(cb).aborted
         /\ Aborted(cb).pending = cb.pending /\ Aborted(cb).index = cb.index /\ Aborted(cb).final = cb.final
         /\ Aborted(cb).at = IF cb.at = "wait" THEN "check" ELSE cb.at
BY DEF Aborted, Wake, Callback

\* The same for a request.
LEMMA RequestedCallback ==
  ASSUME NEW cb \in Callback
  PROVE  /\ Requested(cb) \in Callback
         /\ Requested(cb).pending
         /\ Requested(cb).aborted = cb.aborted /\ Requested(cb).index = cb.index /\ Requested(cb).final = cb.final
         /\ Requested(cb).at = IF cb.at = "wait" THEN "check" ELSE cb.at
BY DEF Requested, Wake, Callback

\* Callbacks that are told to stop, and no others.
LEMMA AbortAllFacts ==
  ASSUME Typed, NEW cs, code' = AbortAll(cs)
  PROVE  /\ DOMAIN code' = DOMAIN code
         /\ \A k \in DOMAIN code :
              /\ code'[k] \in Callback
              /\ code'[k].index = code[k].index /\ code'[k].pending = code[k].pending /\ code'[k].final = code[k].final
              /\ code'[k].at = code[k].at \/ (code[k].at = "wait" /\ code'[k].at = "check")
              /\ code'[k].aborted <=> code[k].aborted \/ k \in cs
              /\ k \notin cs => code'[k] = code[k]
<1>1. DOMAIN code' = DOMAIN code /\ \A k \in DOMAIN code : code'[k] = IF k \in cs THEN Aborted(code[k]) ELSE code[k]
  BY DEF AbortAll
<1>2. \A k \in DOMAIN code : code[k] \in Callback
  BY DEF Typed
<1>3. \A k \in DOMAIN code : code[k].aborted \in BOOLEAN
  BY <1>2 DEF Callback
<1> QED
  BY <1>1, <1>2, <1>3, AbortedCallback

-----------------------------------------------------------------------------
(* The queue *)

IsSequence(s) == s \in Seq({s[n] : n \in DOMAIN s})

\* A sequence over any set is a sequence over its own elements.
LEMMA OwnElements ==
  ASSUME NEW S, NEW s \in Seq(S)
  PROVE  IsSequence(s) /\ Len(s) \in Nat /\ DOMAIN s = 1..Len(s)
BY DEF IsSequence

\* What is left once the first event is taken.
LEMMA TailFacts ==
  ASSUME NEW s, IsSequence(s), s # <<>>
  PROVE  /\ IsSequence(Tail(s))
         /\ 1 \in DOMAIN s /\ Head(s) = s[1]
         /\ \A i \in DOMAIN Tail(s) : i \in Nat /\ i + 1 \in DOMAIN s /\ i + 1 # 1 /\ Tail(s)[i] = s[i + 1]
         /\ \A i \in DOMAIN s : i = 1 \/ (i - 1 \in DOMAIN Tail(s) /\ Tail(s)[i - 1] = s[i])
<1> DEFINE S == {s[n] : n \in DOMAIN s}
           t == Tail(s)
<1>1. s \in Seq(S)
  BY DEF IsSequence
<1> HIDE DEF S
<1>2. t \in Seq(S) /\ Len(s) \in Nat /\ Len(s) # 0 /\ Len(t) = Len(s) - 1 /\ DOMAIN s = 1..Len(s) /\ DOMAIN t = 1..Len(t)
  BY <1>1
<1>3. \A i \in 1..Len(t) : t[i] = s[i + 1]
  BY <1>1, <1>2
<1>4. Head(s) = s[1]
  BY <1>1, <1>2
<1> HIDE DEF t
<1>5. IsSequence(t)
  BY <1>2, OwnElements
<1>6. \A i \in DOMAIN s : i = 1 \/ (i - 1 \in DOMAIN t /\ t[i - 1] = s[i])
  BY <1>2, <1>3
<1> QED
  BY <1>2, <1>3, <1>4, <1>5, <1>6 DEF t

\* The queue with another event.
LEMMA AppendFacts ==
  ASSUME NEW s, IsSequence(s), NEW e
  PROVE  /\ IsSequence(Append(s, e))
         /\ \A i \in DOMAIN Append(s, e) :
              \/ i \in DOMAIN s /\ Append(s, e)[i] = s[i]
              \/ i = Len(s) + 1 /\ i \notin DOMAIN s /\ Append(s, e)[i] = e
         /\ \A i \in DOMAIN s : i \in DOMAIN Append(s, e) /\ Append(s, e)[i] = s[i]
         /\ Len(s) + 1 \in DOMAIN Append(s, e) /\ Append(s, e)[Len(s) + 1] = e
<1> DEFINE S == {s[n] : n \in DOMAIN s} \cup {e}
           t == Append(s, e)
<1>1. s \in Seq(S) /\ e \in S
  BY DEF IsSequence
<1> HIDE DEF S
<1>2. t \in Seq(S) /\ Len(s) \in Nat /\ Len(t) = Len(s) + 1 /\ DOMAIN s = 1..Len(s) /\ DOMAIN t = 1..Len(t)
  BY <1>1
<1>3. (\A i \in 1..Len(s) : t[i] = s[i]) /\ t[Len(s) + 1] = e
  BY <1>1, <1>2
<1> HIDE DEF t
<1>4. IsSequence(t)
  BY <1>2, OwnElements
<1> QED
  BY <1>2, <1>3, <1>4 DEF t

\* What a turn takes from the queue for an operation on c: at most the first
\* event, which is about no other call if it is a report.
Took(c) ==
  \/ events' = events
  \/ /\ events # <<>>
     /\ events' = Tail(events)
     /\ Head(events).kind \in {"yielded"} \cup Finals => Head(events).call = c

\* Whom the driver still has in its map.
Left(c, kept) ==
  \/ kept = attached
  \/ /\ kept = attached \ {c}
     /\ events # <<>>
     /\ events' = Tail(events)
     /\ Head(events).kind \in Finals
     /\ Head(events).call = c

\* An element of another call, or of no call, stays in the queue.
LEMMA ComingKept ==
  ASSUME Reports, NEW c, Took(c), NEW k, k # c
  PROVE  Coming(k)' <=> Coming(k)
<1>1. CASE events' = events
  BY <1>1 DEF Coming
<1>2. CASE /\ events # <<>> /\ events' = Tail(events)
           /\ Head(events).kind \in {"yielded"} \cup Finals => Head(events).call = c
  <2>1. IsSequence(events)
    BY DEF Reports, IsSequence
  <2>2. ASSUME Coming(k) PROVE Coming(k)'
    BY <1>2, <2>1, <2>2, TailFacts DEF Coming
  <2>3. ASSUME Coming(k)' PROVE Coming(k)
    BY <1>2, <2>1, <2>3, TailFacts DEF Coming
  <2> QED
    BY <2>2, <2>3
<1> QED
  BY <1>1, <1>2 DEF Took

\* The reports in the queue stay in order while events are taken.
LEMMA TakenReports ==
  ASSUME Reports, Typed, NEW c, NEW kept, Took(c), Left(c, kept), attached' = kept,
         DOMAIN calls' = DOMAIN calls, DOMAIN code = DOMAIN calls,
         \A k \in DOMAIN code : /\ code'[k].index = code[k].index
                                /\ code'[k].final = code[k].final
                                /\ code[k].at = "done" => code'[k].at = "done"
  PROVE  Reports'
<1>0. Finals \cap {"yielded", "cancel", "deadline"} = {}
  BY DEF Finals
<1>1. CASE events' = events /\ kept = attached
  BY <1>0, <1>1 DEF Reports
<1>2. CASE events # <<>> /\ events' = Tail(events)
  <2>1. IsSequence(events)
    BY DEF Reports, IsSequence
  <2>2. IsSequence(events')
    BY <1>2, <2>1, TailFacts
  <2>3. 1 \in DOMAIN events /\ Head(events) = events[1]
    BY <1>2, <2>1, TailFacts
  <2>4. \A i \in DOMAIN events' : i \in Nat /\ i + 1 \in DOMAIN events /\ i + 1 # 1 /\ events'[i] = events[i + 1]
    BY <1>2, <2>1, TailFacts
  <2>5. ASSUME NEW i \in DOMAIN events'
        PROVE  LET e == events'[i] IN
               /\ e.kind \in EventKinds
               /\ e.kind \notin {"cancel", "deadline"} => e.call \in DOMAIN calls'
               /\ e.kind \in Finals => e.call \in attached' /\ code'[e.call].at = "done" /\ code'[e.call].final = e.kind
               /\ e.kind = "yielded" => e.index \in 0..(code'[e.call].index - 1)
    <3> DEFINE e == events[i + 1]
    <3>1. events'[i] = e /\ i + 1 \in DOMAIN events /\ i + 1 # 1
      BY <2>4
    <3>2. /\ e.kind \in EventKinds
          /\ e.kind \notin {"cancel", "deadline"} => e.call \in DOMAIN calls
          /\ e.kind \in Finals => e.call \in attached /\ code[e.call].at = "done" /\ code[e.call].final = e.kind
          /\ e.kind = "yielded" => e.index \in 0..(code[e.call].index - 1)
      BY <3>1 DEF Reports
    <3>3. e.kind \in Finals => e.call \in attached'
      <4>1. CASE kept = attached
        BY <3>2, <4>1
      <4>2. CASE kept = attached \ {c} /\ Head(events).kind \in Finals /\ Head(events).call = c
        BY <3>1, <3>2, <2>3, <4>2 DEF Reports
      <4> QED
        BY <4>1, <4>2 DEF Left
    <3> HIDE DEF e
    <3> QED
      BY <3>1, <3>2, <3>3, <1>0
  <2>6. ASSUME NEW i \in DOMAIN events', NEW j \in DOMAIN events',
               events'[i].call = events'[j].call,
               \/ events'[i].kind \in Finals /\ events'[j].kind \in Finals
               \/ events'[i].kind = "yielded" /\ events'[j].kind = "yielded" /\ events'[i].index = events'[j].index
        PROVE  i = j
    <3>1. i + 1 = j + 1
      BY <2>4, <2>6 DEF Reports
    <3> QED
      BY <3>1, <2>4
  <2> QED
    BY <2>2, <2>5, <2>6 DEF Reports, IsSequence
<1> QED
  BY <1>1, <1>2 DEF Left, Took

-----------------------------------------------------------------------------
(* A turn of the loop *)

\* What an operation on c does to c itself, which may have left the map.
Own(c, kept, armed) ==
  c \in DOMAIN calls =>
    /\ c \in kept => calls'[c].status \in Unended
    /\ c \in kept /\ calls[c].status = "cancelling" => calls'[c].status = "cancelling"
    /\ calls'[c].status \in Live => calls[c].status \in Live
    /\ calls'[c].status \in Live =>
         \/ calls'[c] = calls[c] /\ (events' = events \/ Head(events).kind # "yielded")
         \/ Phase(c)' /\ calls'[c].status # "fetching" /\ \A t \in armed : t.call = c => t.kind = "call"

\* Callbacks are told to stop, and the map keeps some.
Stops(kept, hit) ==
  /\ code' = AbortAll(hit)
  /\ attached' = kept
  /\ timers' \subseteq timers

\* Who may still report, but for what only holds while the loop is alive.
Mapped ==
  /\ \A c \in DOMAIN calls \ attached : code[c].at = "done"
  /\ \A c \in attached : c \in DOMAIN calls /\ NotOver(c)

\* An operation on c, whether the loop breaks at it or not.
LEMMA StopsKeeps ==
  ASSUME IInv, NEW c, NEW kept, NEW hit, Rest(c), Took(c), Left(c, kept), Stops(kept, hit),
         c \in kept => calls'[c].status \in Unended,
         loop' \in {"turn", "broken"}, quota' \in BOOLEAN
  PROVE  Typed' /\ Reports' /\ Mapped'
<1> USE DEF IInv
<1>1. DOMAIN calls' = DOMAIN calls /\ \A k \in DOMAIN calls : (calls'[k].stream <=> calls[k].stream)
  BY DEF Rest
<1>2. /\ DOMAIN code' = DOMAIN code
      /\ \A k \in DOMAIN code :
           /\ code'[k] \in Callback
           /\ code'[k].index = code[k].index /\ code'[k].final = code[k].final
           /\ code'[k].at = code[k].at \/ (code[k].at = "wait" /\ code'[k].at = "check")
  BY AbortAllFacts DEF Stops
<1>3. Typed'
  <2>1. timers' \subseteq Timer'
    BY <1>1 DEF Stops, Typed, Timer
  <2>2. \A k \in DOMAIN calls' :
          /\ code'[k] \in Callback
          /\ calls'[k].stream <=> "stream" \in Kind[k]
          /\ code'[k].at \notin {"user", "done"} => calls'[k].stream
    BY <1>1, <1>2 DEF Typed
  <2> QED
    BY <1>1, <1>2, <2>1, <2>2 DEF Typed
<1>4. Reports'
  <2>1. \A k \in DOMAIN code : code[k].at = "done" => code'[k].at = "done"
    BY <1>2
  <2> QED
    BY <1>1, <1>2, <2>1, TakenReports DEF Stops, Typed
<1>5. Mapped'
  <2>1. ASSUME NEW k \in DOMAIN calls' \ attached' PROVE code'[k].at = "done"
    <3>1. k \in DOMAIN calls /\ k \in DOMAIN code /\ k \notin kept
      BY <1>1 DEF Typed, Stops
    <3>2. code[k].at = "done"
      <4>1. CASE kept = attached
        BY <3>1, <4>1 DEF Attached
      <4>2. CASE /\ kept = attached \ {c} /\ events # <<>>
                 /\ Head(events).kind \in Finals /\ Head(events).call = c
        <5>1. IsSequence(events)
          BY DEF Reports, IsSequence
        <5>2. 1 \in DOMAIN events /\ Head(events) = events[1]
          BY <4>2, <5>1, TailFacts
        <5>3. code[c].at = "done"
          BY <4>2, <5>2 DEF Reports
        <5> QED
          BY <3>1, <4>2, <5>3 DEF Attached
      <4> QED
        BY <4>1, <4>2 DEF Left
    <3> QED
      BY <3>1, <3>2, <1>2
  <2>2. ASSUME NEW k \in attached' PROVE k \in DOMAIN calls' /\ calls'[k].status \in Unended
    <3>1. k \in attached /\ k \in kept
      BY DEF Stops, Left
    <3>2. k \in DOMAIN calls /\ calls[k].status \in Unended
      BY <3>1 DEF Attached, NotOver
    <3>3. CASE k = c
      BY <3>1, <3>2, <3>3, <1>1
    <3>4. CASE k # c
      BY <3>2, <3>4, <1>1 DEF Rest, Unended
    <3> QED
      BY <3>3, <3>4
  <2> QED
    BY <2>1, <2>2 DEF Mapped, NotOver
<1> QED
  BY <1>3, <1>4, <1>5

\* Publishing the outcome of an operation on c.
LEMMA PublishKeeps ==
  ASSUME IInv, Alive, NEW c, NEW kept, NEW armed, Rest(c), Took(c), Left(c, kept), Publish(kept, armed),
         armed \subseteq timers, c \notin kept => \A t \in armed : t.call # c,
         Own(c, kept, armed),
         loop' \in {"turn", "wait"}
  PROVE  Obeyed' /\ Fetched'
<1> USE DEF IInv
<1> DEFINE hit == {k \in kept : calls'[k].status = "cancelling"}
<1>1. /\ code' = AbortAll(hit)
      /\ attached' = kept
      /\ timers' = {t \in armed : t.call \notin hit}
  BY DEF Publish
<1>2. /\ DOMAIN code' = DOMAIN code
      /\ \A k \in DOMAIN code :
           /\ code'[k].at = code[k].at \/ (code[k].at = "wait" /\ code'[k].at = "check")
           /\ code'[k].aborted <=> code[k].aborted \/ k \in hit
           /\ k \notin hit => code'[k] = code[k]
  BY <1>1, AbortAllFacts
<1>3. kept \subseteq attached /\ kept \subseteq DOMAIN calls /\ DOMAIN calls' = DOMAIN calls /\ DOMAIN code = DOMAIN calls
  BY DEF Left, Attached, Rest, Typed
<1>4. ASSUME NEW k \in kept PROVE code'[k].aborted <=> calls'[k].status = "cancelling"
  <2>1. k \in attached /\ k \in DOMAIN calls /\ (code[k].aborted <=> calls[k].status = "cancelling")
    BY <1>3 DEF Obeyed
  <2>2. calls[k].status = "cancelling" => calls'[k].status = "cancelling"
    <3>1. CASE k = c
      BY <2>1, <3>1 DEF Own
    <3>2. CASE k # c
      BY <2>1, <3>2 DEF Rest
    <3> QED
      BY <3>1, <3>2
  <2> QED
    BY <2>1, <2>2, <1>2, <1>3
<1>5. ASSUME NEW k \in DOMAIN calls', calls'[k].status \in Live
      PROVE  /\ k \in DOMAIN calls /\ calls[k].status \in Live
             /\ code'[k] = code[k]
             /\ k # c => calls'[k] = calls[k]
  <2>1. k \in DOMAIN calls /\ k \notin hit
    BY <1>3, <1>5 DEF Live
  <2>2. code'[k] = code[k]
    BY <2>1, <1>2, <1>3
  <2>3. CASE k = c
    BY <2>1, <2>2, <2>3, <1>5 DEF Own
  <2>4. CASE k # c
    BY <2>1, <2>2, <2>4, <1>5 DEF Rest, Live
  <2> QED
    BY <2>3, <2>4
<1>6. ASSUME NEW t \in timers'
      PROVE  /\ t.call \in kept
             /\ t.call \in DOMAIN calls' /\ calls'[t.call].status \in Live
             /\ t.kind = "element" => calls'[t.call].status = "fetching" /\ calls'[t.call].yields = t.index
  <2>1. t \in armed /\ t \in timers /\ t.call \notin hit
    BY <1>1
  <2>2. /\ t.call \in attached /\ t.call \in DOMAIN calls /\ calls[t.call].status \in Live
        /\ t.kind = "element" => calls[t.call].status = "fetching" /\ calls[t.call].yields = t.index
    BY <2>1 DEF Obeyed, TimersMatch, LiveCalls
  <2>3. t.call \in kept
    BY <2>1, <2>2 DEF Left
  <2>4. calls'[t.call].status # "cancelling"
    BY <2>1, <2>3
  <2>5. CASE t.call = c
    BY <2>1, <2>2, <2>3, <2>4, <2>5, <1>3 DEF Own, Unended
  <2>6. CASE t.call # c
    BY <2>2, <2>3, <2>4, <2>6, <1>3 DEF Rest
  <2> QED
    BY <2>5, <2>6
<1>7. Obeyed'
  <2>1. ASSUME NEW k \in LiveCalls', code'[k].at \in {"leave", "done"} PROVE code'[k].final # "exited"
    BY <2>1, <1>5 DEF LiveCalls, Obeyed
  <2>2. TimersMatch'
    BY <1>1, <1>6 DEF TimersMatch, LiveCalls
  <2> QED
    BY <1>1, <1>4, <2>1, <2>2 DEF Obeyed
<1>8. ASSUME NEW k \in DOMAIN calls', calls'[k].status \in Live PROVE Phase(k)'
  <2>1. k \in DOMAIN calls /\ calls[k].status \in Live /\ code'[k] = code[k] /\ Phase(k)
    BY <1>5, <1>8 DEF Fetched, LiveCalls
  <2>2. CASE calls'[k] = calls[k] /\ (Coming(k)' <=> Coming(k))
    <3>1. CASE Ahead(k)
      <4>1. \A i \in DOMAIN events' : \E j \in DOMAIN events : events'[i] = events[j]
        <5>1. IsSequence(events)
          BY DEF Reports, IsSequence
        <5> QED
          BY <5>1, TailFacts DEF Took
      <4>2. Ahead(k)'
        BY <2>1, <2>2, <3>1, <4>1 DEF Ahead
      <4> QED
        BY <2>1, <2>2, <3>1, <4>2 DEF Phase, Ahead, Unasked, Asked, Moving, Ended
    <3>2. CASE ~Ahead(k)
      BY <2>1, <2>2, <3>2 DEF Phase, Unasked, Asked, Moving, Ended
    <3> QED
      BY <3>1, <3>2
  <2>3. CASE k # c
    BY <2>2, <2>3, <1>5, <1>8, ComingKept
  <2>4. CASE k = c /\ calls'[c] = calls[c] /\ (events' = events \/ Head(events).kind # "yielded")
    <3>1. CASE events' = events
      BY <2>2, <2>4, <3>1 DEF Coming
    <3>2. CASE events # <<>> /\ events' = Tail(events) /\ Head(events).kind # "yielded"
      <4>1. IsSequence(events)
        BY DEF Reports, IsSequence
      <4>2. Coming(c) => Coming(c)'
        BY <3>2, <4>1, TailFacts DEF Coming
      <4>3. Coming(c)' => Coming(c)
        BY <3>2, <4>1, TailFacts DEF Coming
      <4> QED
        BY <2>2, <2>4, <4>2, <4>3
    <3> QED
      BY <2>4, <3>1, <3>2 DEF Took
  <2> QED
    BY <2>1, <2>3, <2>4, <1>8 DEF Own
<1>9. ASSUME NEW i \in DOMAIN events', events'[i].kind = "element", calls'[events'[i].call].status = "fetching"
      PROVE  events'[i].index = calls'[events'[i].call].yields
  <2>1. PICK j \in DOMAIN events : events'[i] = events[j]
    <3>1. IsSequence(events)
      BY DEF Reports, IsSequence
    <3> QED
      BY <3>1, TailFacts DEF Took
  <2>2. events[j].call \in DOMAIN calls
    BY <2>1, <1>9 DEF Reports
  <2>3. calls'[events[j].call] = calls[events[j].call]
    BY <1>5, <1>9, <2>1, <2>2, <1>3 DEF Own, Live
  <2> QED
    BY <1>9, <2>1, <2>3 DEF Fetched
<1>10. Fetched'
  BY <1>8, <1>9 DEF Fetched, LiveCalls
<1> QED
  BY <1>7, <1>10

\* Who is on the way out, after an operation on c.
LEMMA AttachedKeeps ==
  ASSUME IInv, Alive, NEW c, NEW kept, Rest(c), Left(c, kept), attached' = kept, Mapped', clock' = clock,
         quota => quota',
         clock = "early" \/ ~quota' =>
           (c \in DOMAIN calls /\ calls'[c].status \in Unended => c \in kept \cup ending'),
         \A k \in ending : k \in ending' \/ k = c,
         \A k \in ending' : k \in DOMAIN calls /\ calls'[k].status = "cancelling" /\ k \notin kept,
         \A k, d \in ending' : k = d
  PROVE  Attached'
<1> USE DEF IInv
<1>1. DOMAIN calls' = DOMAIN calls
  BY DEF Rest
<1>2. ASSUME clock' = "early" \/ ~quota', NEW k \in DOMAIN calls', calls'[k].status \in Unended
      PROVE  k \in attached' \cup ending'
  <2>1. CASE k = c
    BY <1>1, <1>2, <2>1
  <2>2. CASE k # c
    <3>1. calls[k].status \in Unended /\ k \in DOMAIN calls
      BY <1>1, <1>2, <2>2 DEF Rest, Unended
    <3>2. k \in attached \cup ending
      BY <1>2, <3>1 DEF Attached, NotOver
    <3> QED
      BY <2>2, <3>2 DEF Left
  <2> QED
    BY <2>1, <2>2
<1> QED
  BY <1>1, <1>2 DEF Attached, Mapped, NotOver

\* Every operation that the loop applies and publishes.
LEMMA OperationKeeps ==
  ASSUME IInv, loop = "turn", NEW c, NEW kept, NEW armed, Rest(c), Took(c), Left(c, kept), Publish(kept, armed),
         armed \subseteq timers, c \notin kept => \A t \in armed : t.call # c,
         Own(c, kept, armed),
         loop' = loop, error' = error, clock' = clock,
         quota' \in BOOLEAN, quota => quota', quota' => cancelled',
         clock = "early" \/ ~quota' =>
           (c \in DOMAIN calls /\ calls'[c].status \in Unended => c \in kept \cup ending'),
         \A k \in ending : k \in ending' \/ k = c,
         \A k \in ending' : k \in DOMAIN calls /\ calls'[k].status = "cancelling" /\ k \notin kept,
         \A k, d \in ending' : k = d
  PROVE  IInv'
<1> USE DEF IInv
<1>1. Alive
  BY DEF Alive
<1>2. Obeyed' /\ Fetched'
  BY <1>1, PublishKeeps
<1>3. Typed' /\ Reports' /\ Mapped'
  <2>1. \E hit : Stops(kept, hit)
    BY DEF Publish, Stops
  <2>2. c \in kept => calls'[c].status \in Unended
    BY DEF Own, Left, Attached
  <2> QED
    BY <2>1, <2>2, StopsKeeps
<1>4. Attached'
  BY <1>1, <1>3, AttachedKeeps DEF Publish
<1>5. Given'
  BY DEF Given
<1>6. Lives'
  BY DEF Rest
<1> QED
  BY <1>2, <1>3, <1>4, <1>5, <1>6

\* The loop breaks, after what happened to c.
LEMMA BreakKeeps ==
  ASSUME IInv, loop = "turn", NEW c, NEW kept, NEW what, Rest(c), Took(c), Left(c, kept), Throw(what, kept),
         c \in kept => calls'[c].status \in Unended,
         c \in ending => calls'[c].status = "cancelling",
         what \in {"stuck", "cannotEnd", "journal"},
         what # "journal" => quota' /\ clock # "early",
         ending' = ending, clock' = clock, quota' \in BOOLEAN, quota => quota', quota' => cancelled'
  PROVE  IInv'
<1> USE DEF IInv
<1>1. Typed' /\ Reports' /\ Mapped'
  <2>1. Stops(kept, kept) /\ loop' = "broken"
    BY DEF Throw, Stops
  <2> QED
    BY <2>1, StopsKeeps
<1>2. ~Alive'
  BY DEF Throw, Alive
<1>3. Attached'
  <2>1. \A k \in ending' : k \in DOMAIN calls' /\ calls'[k].status = "cancelling" /\ k \notin attached'
    BY DEF Attached, Rest, Left, Throw, Live
  <2> QED
    BY <1>1, <1>2, <2>1 DEF Attached, Mapped
<1>4. Given'
  BY DEF Given, Throw
<1> QED
  BY <1>1, <1>2, <1>3, <1>4 DEF Obeyed, Fetched, Rest

\* Cancelling everything, whoever asked for it.
LEMMA CancelKeeps ==
  ASSUME IInv, loop = "turn", NEW c, NEW kept, NEW armed, Cancel, Took(c), Left(c, kept), Publish(kept, armed),
         armed \subseteq timers, c \notin kept => \A t \in armed : t.call # c,
         loop' = loop, error' = error, clock' = clock, quota' \in BOOLEAN, quota => quota',
         \/ ending' = ending /\ kept = attached
         \/ ending = {} /\ ending' = {c} /\ c \in attached /\ c \notin kept
         \/ ending = {} /\ ending' = {} /\ quota' /\ clock # "early"
  PROVE  IInv'
<1> USE DEF IInv
<1>1. /\ Rest(c) /\ cancelled'
      /\ \A k \in DOMAIN calls :
           /\ calls'[k].status \notin Live
           /\ calls'[k].status \in Unended <=> calls[k].status \in Unended
           /\ calls[k].status \in Unended => calls'[k].status = "cancelling"
  BY CancelStep
<1>2. \A k \in attached : k \in DOMAIN calls /\ calls[k].status \in Unended
  BY DEF Attached, NotOver
<1>3. kept \subseteq attached
  BY DEF Left
<1>4. Own(c, kept, armed)
  BY <1>1, <1>2, <1>3 DEF Own
<1>5. \A k \in ending : k \in DOMAIN calls /\ calls[k].status = "cancelling" /\ k \notin attached
  BY DEF Attached
<1>6. \A k \in ending' : k \in DOMAIN calls /\ calls'[k].status = "cancelling" /\ k \notin kept
  BY <1>1, <1>2, <1>3, <1>5 DEF Unended
<1>7. \A k, d \in ending' : k = d
  BY DEF Attached
<1>8. clock = "early" \/ ~quota' => (c \in DOMAIN calls /\ calls'[c].status \in Unended => c \in kept \cup ending')
  BY <1>1 DEF Attached, NotOver, Alive
<1>9. \A k \in ending : k \in ending' \/ k = c
  OBVIOUS
<1> QED
  BY <1>1, <1>4, <1>6, <1>7, <1>8, <1>9, OperationKeeps

\* What is live has its callback in the map.
LEMMA LiveAttached ==
  ASSUME IInv, Alive
  PROVE  \A c \in LiveCalls : c \in attached /\ status = "running" /\ ~quota
BY DEF IInv, LiveCalls, Attached, NotOver, Given, Lives, Live, Unended

\* An event that is dropped told nothing.
LEMMA IgnoreKeeps ==
  ASSUME IInv, loop = "turn", events # <<>>, events' = Tail(events), Stale(Head(events)),
         UNCHANGED <<machineVars, loop, error, ending, timers, attached, code, quota, clock>>
  PROVE  IInv'
<1> USE DEF IInv
<1>0. PICK c : c = Head(events).call
  OBVIOUS
<1>1. IsSequence(events)
  BY DEF Reports, IsSequence
<1>2. /\ 1 \in DOMAIN events /\ Head(events) = events[1]
      /\ \A i \in DOMAIN events' : i + 1 \in DOMAIN events /\ events'[i] = events[i + 1]
  BY <1>1, TailFacts
<1>3. Took(c)
  BY <1>0 DEF Took
<1>4. Reports'
  <2>1. Left(c, attached) /\ DOMAIN code = DOMAIN calls
    BY DEF Left, Typed
  <2> QED
    BY <1>3, <2>1, TakenReports DEF machineVars
<1>5. Lives' /\ Typed'
  BY DEF Lives, Typed, Timer, machineVars
<1>6. Obeyed' /\ Attached' /\ Given'
  BY DEF Obeyed, Attached, NotOver, Given, Alive, LiveCalls, TimersMatch, machineVars
<1>7. ASSUME NEW k \in LiveCalls PROVE Phase(k)'
  <2>1. Phase(k)
    BY <1>7 DEF Fetched, Alive
  <2>2. Head(events).kind = "yielded" => c # k
    <3>1. SUFFICES ASSUME Head(events).kind = "yielded", c = k PROVE FALSE
      OBVIOUS
    <3>2. Coming(k)
      BY <1>0, <1>2, <3>1 DEF Coming
    <3>3. Ahead(k)
      BY <2>1, <3>2 DEF Phase, Unasked, Asked, Moving, Ended
    <3>4. calls[k].status = "fetching" /\ events[1].index = calls[k].yields
      BY <1>0, <1>2, <3>1, <3>3 DEF Ahead
    <3> QED
      BY <1>0, <1>2, <3>1, <3>4 DEF Stale, Live
  <2>3. Coming(k)' <=> Coming(k)
    <3>1. Coming(k) => Coming(k)'
      BY <1>0, <1>1, <1>2, <2>2, TailFacts DEF Coming
    <3>2. Coming(k)' => Coming(k)
      BY <1>2 DEF Coming
    <3> QED
      BY <3>1, <3>2
  <2>4. calls' = calls /\ code' = code
    BY DEF machineVars
  <2>5. Ahead(k) => Ahead(k)'
    BY <1>2, <2>3, <2>4 DEF Ahead
  <2> QED
    BY <2>1, <2>3, <2>4, <2>5 DEF Phase, Unasked, Asked, Moving, Ended
<1>8. Fetched'
  <2>1. calls' = calls
    BY DEF machineVars
  <2>2. \A i \in DOMAIN events' :
         events'[i].kind = "element" /\ calls'[events'[i].call].status = "fetching"
           => events'[i].index = calls'[events'[i].call].yields
    BY <1>2, <2>1 DEF Fetched, Alive
  <2> QED
    BY <1>7, <2>1, <2>2 DEF Fetched, LiveCalls
<1> QED
  BY <1>4, <1>5, <1>6, <1>8

-----------------------------------------------------------------------------
(* Events *)

\* An element that was waited for: its generator is not asked any more.
LEMMA YieldedPhase ==
  ASSUME IInv, Alive, events # <<>>, events' = Tail(events), NEW c \in DOMAIN calls,
         Head(events).kind = "yielded", Head(events).call = c, calls[c].status = "fetching",
         calls'[c].status = "running", calls'[c].yields = calls[c].yields + 1, code'[c] = code[c]
  PROVE  Phase(c)'
<1> USE DEF IInv
<1>1. IsSequence(events)
  BY DEF Reports, IsSequence
<1>2. /\ 1 \in DOMAIN events /\ Head(events) = events[1]
      /\ \A i \in DOMAIN events' : i + 1 \in DOMAIN events /\ i + 1 # 1 /\ events'[i] = events[i + 1]
  BY <1>1, TailFacts
<1>3. Coming(c)
  BY <1>2 DEF Coming
<1>4. Ahead(c) /\ code[c].index = calls[c].yields + 1
  BY <1>3 DEF Fetched, LiveCalls, Live, Phase, Unasked, Asked, Moving, Ended
<1>5. ~Coming(c)'
  <2>1. SUFFICES ASSUME NEW i \in DOMAIN events', events'[i].kind = "yielded", events'[i].call = c PROVE FALSE
    BY DEF Coming
  <2>2. events[i + 1].index = calls[c].yields /\ events[1].index = calls[c].yields
    BY <1>2, <1>4, <2>1 DEF Ahead
  <2>3. /\ i + 1 \in DOMAIN events /\ 1 \in DOMAIN events /\ i + 1 # 1
        /\ events[i + 1].kind = "yielded" /\ events[1].kind = "yielded" /\ events[i + 1].call = events[1].call
    BY <1>2, <2>1
  <2> QED
    BY <2>2, <2>3 DEF Reports
<1> QED
  BY <1>4, <1>5 DEF Phase, Unasked, Ahead

\* Every event that is handled leaves the invariant.
LEMMA ServeKeeps ==
  ASSUME IInv, loop = "turn", Serve
  PROVE  IInv'
<1> USE DEF IInv
<1>0. PICK e, c : e = Head(events) /\ c = e.call
  OBVIOUS
<1>1. ending = {} /\ events # <<>> /\ events' = Tail(events) /\ clock' = clock
  BY DEF Serve
<1>2. IsSequence(events)
  BY DEF Reports, IsSequence
<1>3. 1 \in DOMAIN events /\ e = events[1]
  BY <1>0, <1>1, <1>2, TailFacts
<1>4. /\ e.kind \notin {"cancel", "deadline"} => c \in DOMAIN calls
      /\ e.kind \in Finals => c \in attached /\ code[c].at = "done"
  BY <1>0, <1>3 DEF Reports
<1>5. Took(c)
  BY <1>0, <1>1 DEF Took
<1>6. Left(c, attached) /\ (e.kind \in Finals => Left(c, Others(c)))
  BY <1>0, <1>1 DEF Left, Others
<1>7. quota \in BOOLEAN /\ Alive
  BY DEF Typed, Alive
<1>8. /\ timers \ ElementTimer(c) \subseteq timers
      /\ Unarmed(c) \subseteq timers /\ \A t \in Unarmed(c) : t.call # c
      /\ c \notin Others(c)
  BY DEF Unarmed, TimersOf, Others
<1>9. ASSUME StopQuota(attached, timers) \/ StopQuota(attached, timers \ ElementTimer(c)),
             e.kind \notin Finals,
             UNCHANGED <<loop, error, ending>>
      PROVE  IInv'
  <2>1. \A t \in timers : t.call \in attached
    BY <1>7 DEF Obeyed, TimersMatch
  <2>2. CASE StopQuota(attached, timers)
    BY <1>1, <1>5, <1>6, <1>7, <1>9, <2>1, <2>2, CancelKeeps DEF StopQuota
  <2>3. CASE StopQuota(attached, timers \ ElementTimer(c))
    BY <1>1, <1>5, <1>6, <1>7, <1>8, <1>9, <2>1, <2>3, CancelKeeps DEF StopQuota
  <2> QED
    BY <1>9, <2>2, <2>3
<1>10. ASSUME e.kind \in Finals, StopQuota(Others(c), Unarmed(c)), UNCHANGED <<loop, error>>,
              ending' = {c} \/ (ending' = {} /\ clock # "early")
       PROVE  IInv'
  BY <1>1, <1>4, <1>5, <1>6, <1>7, <1>8, <1>10, CancelKeeps DEF StopQuota
<1>11. ASSUME e.kind \in Finals, Rest(c), calls'[c].status \notin Unended,
              Publish(Others(c), Unarmed(c)), UNCHANGED <<loop, error, ending, quota>>
       PROVE  IInv'
  <2>1. Own(c, Others(c), Unarmed(c))
    BY <1>8, <1>11 DEF Own, Unended
  <2>2. quota' => cancelled'
    BY <1>11 DEF Given, Rest
  <2> QED
    BY <1>1, <1>4, <1>5, <1>6, <1>7, <1>8, <1>11, <2>1, <2>2, OperationKeeps
<1> HIDE DEF IInv
<1>12. CASE Ignore
  <2>1. events # <<>> /\ events' = Tail(events) /\ clock' = clock
    BY <1>1
  <2> QED
    BY <2>1, <1>12, IgnoreKeeps DEF Ignore
<1>13. CASE ~Stale(e) /\ HandleCancel(e)
  <2>1. \A t \in timers : t.call \in attached
    BY <1>7 DEF IInv, Obeyed, TimersMatch
  <2> QED
    BY <1>1, <1>5, <1>6, <1>7, <1>13, <2>1, CancelKeeps DEF HandleCancel
<1>14. CASE ~Stale(e) /\ HandleDeadline(e)
  BY <1>9, <1>14 DEF HandleDeadline, Finals
<1>15. CASE ~Stale(e) /\ HandleTimer(e)
  <2>1. e.kind \in {"call", "element"} /\ UNCHANGED <<loop, error, ending>>
    BY <1>15 DEF HandleTimer
  <2>2. CASE Refuse(TRUE, attached, timers)
    BY <2>1, <2>2, <1>9 DEF Refuse, Finals
  <2>3. CASE Apply(TimeOut(c, e.kind = "element"), attached, timers)
    <3>1. TimeOut(c, FALSE) \/ TimeOut(c, TRUE)
      BY <2>3 DEF Apply, TimeOut
    <3>2. c \in DOMAIN calls
      BY <1>4, <2>1
    <3>3. Rest(c) /\ calls'[c].status = "cancelling"
      BY <3>1, <3>2, CallSteps DEF IInv
    <3>4. c \in attached
      BY <3>1, <3>2, <1>7, LiveAttached DEF TimeOut, LiveCalls, Live
    <3>5. Own(c, attached, timers)
      BY <3>3 DEF Own, Unended, Live
    <3>6. quota' = quota /\ Publish(attached, timers)
      BY <2>3 DEF Apply
    <3>7. quota' => cancelled'
      BY <3>3, <3>6 DEF IInv, Given, Rest
    <3> QED
      BY <1>1, <1>5, <1>6, <1>7, <2>1, <3>3, <3>4, <3>5, <3>6, <3>7, OperationKeeps
  <2> QED
    BY <1>0, <1>15, <2>2, <2>3 DEF HandleTimer
<1>16. CASE ~Stale(e) /\ HandleElement(e)
  <2>1. e.kind = "yielded" /\ UNCHANGED <<loop, error, ending>>
    BY <1>16 DEF HandleElement
  <2> DEFINE armed == timers \ ElementTimer(c)
  <2>2. CASE Refuse(TRUE, attached, armed)
    BY <2>1, <2>2, <1>9 DEF Refuse, Finals
  <2>3. CASE Apply(Yield(c), attached, armed)
    <3>1. c \in DOMAIN calls
      BY <1>4, <2>1
    <3>2. /\ Rest(c) /\ status' = "running" /\ calls'[c].status = "running"
          /\ calls'[c].yields = calls[c].yields + 1 /\ calls[c].status = "fetching"
      BY <2>3, <3>1, CallSteps DEF IInv, Apply, Yield
    <3>3. c \in attached
      BY <3>1, <3>2, <1>7, LiveAttached DEF LiveCalls, Live
    <3>4. quota' = quota /\ Publish(attached, armed)
      BY <2>3 DEF Apply
    <3>5. code'[c] = code[c]
      <4>1. code' = AbortAll({k \in attached : calls'[k].status = "cancelling"})
        BY <3>4 DEF Publish
      <4> QED
        BY <4>1, <3>1, <3>2, AbortAllFacts DEF IInv, Typed
    <3>6. Phase(c)'
      BY <1>0, <1>1, <1>7, <2>1, <3>1, <3>2, <3>5, YieldedPhase
    <3>7. \A t \in armed : t \in timers /\ (t.call = c => t.kind = "call")
      BY DEF ElementTimer, TimersOf, IInv, Typed, Timer
    <3>8. Own(c, attached, armed)
      BY <3>2, <3>6, <3>7 DEF Own, Unended, Live
    <3>9. quota' => cancelled'
      BY <3>2, <3>4 DEF IInv, Given, Rest
    <3> HIDE DEF armed
    <3> QED
      BY <1>1, <1>5, <1>6, <1>7, <2>1, <3>2, <3>3, <3>4, <3>7, <3>8, <3>9, OperationKeeps
  <2> QED
    BY <1>0, <1>16, <2>2, <2>3 DEF HandleElement
<1>17. CASE ~Stale(e) /\ HandleFinal(e)
  <2>1. e.kind \in Finals /\ c \in DOMAIN calls
    BY <1>17, <1>4 DEF HandleFinal, Finals
  <2>2. /\ Return(c) => Rest(c) /\ calls'[c].status \notin Unended
        /\ FailCall(c) => Rest(c) /\ calls'[c].status \notin Unended
        /\ Terminate(c) => Rest(c) /\ calls'[c].status \notin Unended
    BY <2>1, CallSteps DEF IInv
  <2>3. CASE EndCancelled(c)
    BY <1>1, <1>10, <1>11, <2>1, <2>2, <2>3 DEF EndCancelled, Apply, Refuse, Overdue
  <2>4. CASE EndByQuota(c)
    BY <1>10, <2>1, <2>4 DEF EndByQuota
  <2>5. CASE EndReported(c, e.kind)
    BY <1>10, <1>11, <2>1, <2>2, <2>5 DEF EndReported, Apply, Refuse
  <2>6. CASE EndMisjudged(c)
    <3>1. CASE Apply(FailCall(c), Others(c), Unarmed(c)) /\ UNCHANGED <<loop, error, ending>>
      BY <1>11, <2>1, <2>2, <3>1 DEF Apply
    <3>2. CASE Overdue /\ quota' = TRUE /\ Cancel /\ Throw("cannotEnd", Others(c)) /\ UNCHANGED ending
      <4>1. Rest(c) /\ cancelled'
        BY <3>2, CancelStep DEF IInv
      <4>2. clock # "early" /\ Left(c, Others(c))
        BY <3>2, <2>1, <1>6 DEF Overdue
      <4> QED
        BY <1>1, <1>5, <1>8, <3>2, <4>1, <4>2, BreakKeeps
    <3> QED
      BY <2>6, <3>1, <3>2 DEF EndMisjudged
  <2> QED
    BY <1>0, <1>17, <2>3, <2>4, <2>5, <2>6 DEF HandleFinal
<1> QED
  BY <1>12, <1>13, <1>14, <1>15, <1>16, <1>17, <1>0 DEF Serve

-----------------------------------------------------------------------------
(* Control operations *)

\* No element comes while the queue is empty.
LEMMA QuietQueue ==
  ASSUME events = <<>>
  PROVE  DOMAIN events = {} /\ \A c : ~Coming(c)
<1>1. DOMAIN events = {}
  OBVIOUS
<1> QED
  BY <1>1 DEF Coming

\* The machine asks for an element, and so is the generator.
LEMMA FetchKeeps ==
  ASSUME IInv, loop = "turn", events = <<>>, ending = {}, NEW c \in Fetchable, Fetch(c),
         code' = [code EXCEPT ![c] = Requested(@)],
         timers' = timers \cup Armed("element", c, calls[c].yields),
         UNCHANGED <<attached, quota, loop, error, ending, events, asked, clock>>
  PROVE  IInv'
<1> USE DEF IInv
<1>1. Alive /\ Alive'
  BY DEF Alive
<1>2. c \in DOMAIN calls /\ c \in DOMAIN code /\ calls[c].status = "running" /\ calls[c].stream /\ c \in LiveCalls /\ c \in attached
  BY <1>1, LiveAttached DEF Fetchable, LiveCalls, Live, Typed
<1>3. calls' = SetStatus(c, "fetching") /\ status' = status /\ started' = started /\ cancelled' = cancelled
  BY DEF Fetch
<1>4. /\ DOMAIN calls' = DOMAIN calls /\ calls'[c] \in CallRecord
      /\ calls'[c].status = "fetching" /\ (calls'[c].stream <=> calls[c].stream) /\ calls'[c].yields = calls[c].yields
      /\ \A k \in DOMAIN calls \ {c} : calls'[k] = calls[k]
  BY <1>2, <1>3, StatusSet DEF Unended, Live
<1>5. Lives'
  <2>1. status = "running" /\ started' \in BOOLEAN
    BY <1>3 DEF Fetch, Running, Lives
  <2> QED
    BY <1>3, <1>4, <2>1 DEF Lives, Terminal
<1>6. /\ DOMAIN code' = DOMAIN code
      /\ code'[c] \in Callback /\ code'[c].pending /\ (code'[c].aborted <=> code[c].aborted)
      /\ code'[c].index = code[c].index /\ code'[c].final = code[c].final
      /\ code'[c].at = IF code[c].at = "wait" THEN "check" ELSE code[c].at
      /\ \A k \in DOMAIN code \ {c} : code'[k] = code[k]
  <2>1. code[c] \in Callback
    BY <1>2 DEF Typed
  <2>2. code'[c] = Requested(code[c]) /\ DOMAIN code' = DOMAIN code /\ \A k \in DOMAIN code \ {c} : code'[k] = code[k]
    BY <1>2
  <2> QED
    BY <2>1, <2>2, RequestedCallback
<1>7. \A t \in timers' : t \in timers \/ (t.kind = "element" /\ t.call = c /\ t.index = calls[c].yields)
  BY DEF Armed, EventOf
<1>8. Typed'
  <2>1. timers' \subseteq Timer'
    <3>1. calls[c].yields \in Nat
      BY <1>2 DEF Lives, CallRecord
    <3>2. EventOf("element", c, calls[c].yields) \in Timer
      BY <1>2, <3>1 DEF EventOf, Timer
    <3>3. Timer' = Timer
      BY <1>4 DEF Timer
    <3> QED
      BY <3>2, <3>3 DEF Armed, Typed
  <2>2. \A k \in DOMAIN calls' : (calls'[k].stream <=> calls[k].stream)
    BY <1>4
  <2>3. \A k \in DOMAIN calls' : code'[k] \in Callback /\ (code'[k].at \notin {"user", "done"} => calls'[k].stream)
    BY <1>2, <1>4, <1>6 DEF Typed
  <2>4. \A k \in DOMAIN calls' : (calls'[k].stream <=> "stream" \in Kind[k])
    BY <1>4, <2>2 DEF Typed
  <2> QED
    BY <1>4, <1>6, <2>1, <2>3, <2>4 DEF Typed
<1>9. Reports'
  BY QuietQueue, <1>4, <1>6 DEF Reports
<1>10. Attached'
  <2>1. \A k \in DOMAIN calls : calls'[k].status \in Unended <=> calls[k].status \in Unended
    BY <1>2, <1>4 DEF Unended, Live
  <2>2. \A k \in DOMAIN calls : code[k].at = "done" => code'[k].at = "done"
    BY <1>4, <1>6 DEF Typed
  <2> QED
    BY <1>1, <1>4, <2>1, <2>2 DEF Attached, NotOver
<1>11. LiveCalls' = LiveCalls
  BY <1>2, <1>4 DEF LiveCalls, Live
<1>12. Obeyed'
  <2>1. \A k \in attached' : code'[k].aborted <=> calls'[k].status = "cancelling"
    BY <1>1, <1>2, <1>4, <1>6 DEF Obeyed, Attached, Typed
  <2>2. \A k \in LiveCalls' : code'[k].at \in {"leave", "done"} => code'[k].final # "exited"
    BY <1>1, <1>2, <1>4, <1>6, <1>11 DEF Obeyed, LiveCalls, Typed
  <2>3. ASSUME NEW t \in timers'
        PROVE  /\ t.call \in attached'
               /\ t.call \in LiveCalls'
               /\ t.kind = "element" => calls'[t.call].status = "fetching" /\ calls'[t.call].yields = t.index
    <3>1. CASE t \in timers
      BY <1>1, <1>2, <1>4, <1>11, <3>1 DEF Obeyed, TimersMatch, LiveCalls
    <3>2. CASE t \notin timers
      BY <1>2, <1>4, <1>7, <1>11, <3>2
    <3> QED
      BY <3>1, <3>2
  <2> QED
    BY <2>1, <2>2, <2>3 DEF Obeyed, TimersMatch
<1>13. Fetched'
  <2>1. ASSUME NEW k \in LiveCalls' PROVE Phase(k)'
    <3>1. Phase(k) /\ ~Coming(k) /\ ~Coming(k)'
      BY <1>1, <1>11, QuietQueue DEF Fetched, Coming
    <3>2. CASE k = c
      BY <1>2, <1>4, <1>6, <3>1, <3>2 DEF Phase, Ahead, Unasked, Asked, Moving, Ended
    <3>3. CASE k # c
      BY <1>4, <1>6, <1>11, <3>1, <3>3 DEF Phase, Ahead, Unasked, Asked, Moving, Ended, LiveCalls, Typed
    <3> QED
      BY <3>2, <3>3
  <2> QED
    BY <2>1, QuietQueue DEF Fetched
<1>14. Given'
  BY <1>3 DEF Given
<1> QED
  BY <1>5, <1>8, <1>9, <1>10, <1>12, <1>13, <1>14

\* A new call has a callback of its own.
LEMMA CreateKeeps ==
  ASSUME IInv, loop = "turn", events = <<>>, ending = {}, NEW c, Create(c, "stream" \in Kind[c]),
         code' = [k \in DOMAIN calls \cup {c} |-> IF k = c THEN NewCallback ELSE code[k]],
         timers' = timers \cup Armed("call", c, 0),
         attached' = attached \cup {c},
         UNCHANGED <<quota, loop, error, ending, events, asked, clock>>
  PROVE  IInv'
<1> USE DEF IInv
<1>1. Alive /\ Alive'
  BY DEF Alive
<1>2. c \notin DOMAIN calls /\ status = "running" /\ c \notin attached
  BY DEF Create, Running, Attached
<1>3. status' = status /\ started' = started /\ cancelled' = cancelled
  BY DEF Create
<1>4. /\ DOMAIN calls' = DOMAIN calls \cup {c}
      /\ calls'[c] = [stream |-> "stream" \in Kind[c], status |-> "running", yields |-> 0]
      /\ \A k \in DOMAIN calls : calls'[k] = calls[k]
  BY <1>2 DEF Create
<1>5. calls'[c] \in CallRecord /\ calls'[c].status = "running" /\ calls'[c].yields = 0
  BY <1>4 DEF CallRecord, Unended, Live
<1>6. calls'[c].stream <=> "stream" \in Kind[c]
  <2> DEFINE b == "stream" \in Kind[c]
  <2>1. calls'[c] = [stream |-> b, status |-> "running", yields |-> 0] /\ b \in BOOLEAN
    BY <1>4
  <2> HIDE DEF b
  <2>2. CASE b = TRUE
    <3>1. calls'[c] = [stream |-> TRUE, status |-> "running", yields |-> 0]
      BY <2>1, <2>2
    <3> QED
      BY <2>2, <3>1 DEF b
  <2>3. CASE b = FALSE
    <3>1. calls'[c] = [stream |-> FALSE, status |-> "running", yields |-> 0]
      BY <2>1, <2>3
    <3> QED
      BY <2>3, <3>1 DEF b
  <2> QED
    BY <2>1, <2>2, <2>3
<1>7. Lives'
  BY <1>2, <1>3, <1>4, <1>5 DEF Lives, Terminal
<1>8. /\ DOMAIN code' = DOMAIN calls \cup {c}
      /\ code'[c] = NewCallback
      /\ \A k \in DOMAIN calls : code'[k] = code[k]
  BY <1>2
<1>9. /\ code'[c] \in Callback /\ code'[c].at = "user" /\ code'[c].pending = FALSE
      /\ code'[c].aborted = FALSE /\ code'[c].index = 0
  BY <1>8 DEF NewCallback, Callback, Finals
<1>10. \A t \in timers' : t \in timers \/ (t.kind = "call" /\ t.call = c)
  BY DEF Armed, EventOf
<1>11. Typed'
  <2>1. timers' \subseteq Timer'
    <3>1. EventOf("call", c, 0) \in Timer'
      BY <1>4 DEF EventOf, Timer
    <3>2. Timer \subseteq Timer'
      BY <1>4 DEF Timer
    <3> QED
      BY <3>1, <3>2 DEF Armed, Typed
  <2>2. \A k \in DOMAIN calls' :
          /\ code'[k] \in Callback
          /\ calls'[k].stream <=> "stream" \in Kind[k]
          /\ code'[k].at \notin {"user", "done"} => calls'[k].stream
    BY <1>4, <1>6, <1>8, <1>9 DEF Typed
  <2> QED
    BY <1>4, <1>8, <2>1, <2>2 DEF Typed
<1>12. Reports'
  BY QuietQueue DEF Reports
<1>13. Attached'
  <2>1. calls'[c].status \in Unended
    BY <1>5 DEF Unended, Live
  <2> QED
    BY <1>1, <1>4, <1>8, <2>1 DEF Attached, NotOver
<1>14. LiveCalls' = LiveCalls \cup {c}
  BY <1>2, <1>4, <1>5 DEF LiveCalls, Live
<1>15. Obeyed'
  <2>1. \A k \in attached' : code'[k].aborted <=> calls'[k].status = "cancelling"
    BY <1>1, <1>4, <1>5, <1>8, <1>9 DEF Obeyed, Attached
  <2>2. \A k \in LiveCalls' : code'[k].at \in {"leave", "done"} => code'[k].final # "exited"
    BY <1>1, <1>8, <1>9, <1>14 DEF Obeyed, LiveCalls
  <2>3. ASSUME NEW t \in timers'
        PROVE  /\ t.call \in attached'
               /\ t.call \in LiveCalls'
               /\ t.kind = "element" => calls'[t.call].status = "fetching" /\ calls'[t.call].yields = t.index
    <3>1. CASE t \in timers
      BY <1>1, <1>4, <1>14, <3>1 DEF Obeyed, TimersMatch, LiveCalls
    <3>2. CASE t \notin timers
      BY <1>10, <1>14, <3>2
    <3> QED
      BY <3>1, <3>2
  <2> QED
    BY <2>1, <2>2, <2>3 DEF Obeyed, TimersMatch
<1>16. Fetched'
  <2>1. ASSUME NEW k \in LiveCalls' PROVE Phase(k)'
    <3>1. ~Coming(k) /\ ~Coming(k)'
      BY QuietQueue DEF Coming
    <3>2. CASE k = c
      BY <1>5, <1>9, <3>1, <3>2 DEF Phase, Unasked
    <3>3. CASE k # c
      <4>1. k \in LiveCalls /\ k \in DOMAIN calls /\ Phase(k)
        BY <1>1, <1>14, <3>3 DEF Fetched, LiveCalls
      <4> QED
        BY <1>4, <1>8, <3>1, <4>1 DEF Phase, Ahead, Unasked, Asked, Moving, Ended
    <3> QED
      BY <3>2, <3>3
  <2> QED
    BY <2>1, QuietQueue DEF Fetched
<1>17. Given'
  BY <1>3 DEF Given
<1> QED
  BY <1>7, <1>11, <1>12, <1>13, <1>15, <1>16, <1>17

\* An operation of no call in particular.
LEMMA StandingFacts ==
  ASSUME IInv, loop = "turn"
  PROVE  /\ Alive /\ quota \in BOOLEAN
         /\ \A t \in timers : t.call \in attached
         /\ \A k \in attached : k \in DOMAIN calls /\ calls[k].status \in Unended
         /\ \A c : Left(c, attached) /\ (events' = events => Took(c))
         /\ clock = "early" \/ ~quota => \A k \in DOMAIN calls : calls[k].status \in Unended => k \in attached \cup ending
BY DEF IInv, Typed, Alive, Obeyed, TimersMatch, Attached, NotOver, Left, Took

\* The end of a call that a quota stopped.
LEMMA EndStoppedKeeps ==
  ASSUME IInv, loop = "turn", EndStopped
  PROVE  IInv'
<1>1. PICK c \in ending : Terminate(c)
  BY DEF EndStopped
<1>2. c \in DOMAIN calls /\ c \notin attached /\ \A k \in ending : k = c
  BY DEF IInv, Attached
<1>3. Rest(c) /\ calls'[c].status \notin Unended
  BY <1>1, <1>2, CallSteps DEF IInv
<1>4. Publish(attached, timers) /\ ending' = {} /\ UNCHANGED <<loop, error, events, quota, clock>>
  BY DEF EndStopped
<1>5. Own(c, attached, timers)
  BY <1>2, <1>3 DEF Own, Unended
<1>6. quota' => cancelled'
  BY <1>3, <1>4 DEF IInv, Given, Rest
<1> QED
  BY <1>2, <1>3, <1>4, <1>5, <1>6, StandingFacts, OperationKeeps

\* The driver's own operations.
LEMMA ControlKeeps ==
  ASSUME IInv, loop = "turn", Control
  PROVE  IInv'
<1>1. events = <<>> /\ ending = {} /\ UNCHANGED <<loop, error, ending, events, asked, clock>>
  BY DEF Control, Idle
<1>2. ASSUME Refuse(TRUE, attached, timers) PROVE IInv'
  BY <1>1, <1>2, StandingFacts, CancelKeeps DEF Refuse, StopQuota
<1>3. CASE \E c \in Fetchable : ControlFetch(c)
  <2>1. PICK c \in Fetchable : ControlFetch(c)
    BY <1>3
  <2> QED
    BY <1>1, <1>2, <2>1, FetchKeeps DEF ControlFetch
<1>4. CASE \E c \in DOMAIN Kind : ControlCreate(c)
  <2>1. PICK c \in DOMAIN Kind : ControlCreate(c)
    BY <1>4
  <2> QED
    BY <1>1, <1>2, <2>1, CreateKeeps DEF ControlCreate
<1>5. CASE ControlTransform
  <2>1. CASE Apply(FailTransform, attached, timers)
    <3>1. FailTransform /\ Publish(attached, timers) /\ quota' = quota
      BY <2>1 DEF Apply
    <3>2. PICK c : c = "none"
      OBVIOUS
    <3>3. /\ Rest(c)
          /\ c \in DOMAIN calls => \/ calls'[c] = calls[c]
                                   \/ (calls[c].status \in Live /\ calls'[c].status = "cancelling")
      BY <3>1, TransformStep DEF IInv
    <3>4. Own(c, attached, timers)
      BY <1>1, <3>3, StandingFacts DEF Own, Unended, Live
    <3>5. quota' => cancelled'
      BY <3>1, <3>3 DEF IInv, Given, Rest
    <3>6. clock = "early" \/ ~quota' => (c \in DOMAIN calls /\ calls'[c].status \in Unended => c \in attached \cup ending')
      BY <1>1, <3>1, <3>3, StandingFacts DEF Unended
    <3> QED
      BY <1>1, <3>1, <3>3, <3>4, <3>5, <3>6, StandingFacts, OperationKeeps
  <2> QED
    BY <1>2, <1>5, <2>1 DEF ControlTransform
<1>6. CASE Conclude /\ Publish(attached, timers) /\ UNCHANGED quota
  <2>1. PICK c : c = "none"
    OBVIOUS
  <2>2. /\ calls' = calls /\ cancelled' = cancelled /\ started' = started
        /\ \A k \in DOMAIN calls : calls[k].status \notin Unended
    BY <1>6 DEF Conclude, Quiet
  <2>3. status' \in {"failed", "cancelled", "succeeded", "skipped"} /\ status \in {"running", "stopping"}
    BY <1>6 DEF Conclude, Going
  <2>4. cancelled => status' \in {"failed", "cancelled"}
    BY <1>6, <2>3 DEF Conclude, IInv, Lives
  <2>5. Lives'
    BY <2>2, <2>3, <2>4 DEF IInv, Lives, Statuses, Unended
  <2>6. Rest(c)
    BY <2>2, <2>5 DEF Rest
  <2>7. Own(c, attached, timers)
    BY <1>1, <2>2, StandingFacts DEF Own
  <2>8. quota' => cancelled'
    BY <1>6, <2>2 DEF IInv, Given
  <2> QED
    BY <1>1, <1>6, <2>2, <2>6, <2>7, <2>8, StandingFacts, OperationKeeps
<1> QED
  BY <1>3, <1>4, <1>5, <1>6 DEF Control

\* Nothing happens to the calls.
LEMMA NothingRest ==
  ASSUME Lives, UNCHANGED machineVars, NEW c
  PROVE  Rest(c) /\ calls' = calls
BY DEF Rest, Lives, machineVars

\* The loop finds nothing to do.
LEMMA SleepKeeps ==
  ASSUME IInv, loop = "turn", Sleep
  PROVE  IInv'
<1>1. events = <<>> /\ ending = {} /\ ~Quiet /\ UNCHANGED <<machineVars, ending, events, quota, clock>>
  BY DEF Sleep, Idle
<1>2. CASE loop' = "wait" /\ UNCHANGED <<error, attached, code, timers>>
  <2>1. Lives' /\ Typed' /\ Reports' /\ Attached' /\ Given'
    <3>1. Lives' /\ Typed'
      BY <1>1, <1>2 DEF IInv, Lives, Typed, Timer, machineVars
    <3>2. Reports'
      BY <1>1, <1>2 DEF IInv, Reports, machineVars
    <3>3. Attached'
      BY <1>1, <1>2 DEF IInv, Attached, NotOver, Alive, machineVars
    <3>4. Given'
      BY <1>1, <1>2 DEF IInv, Given, machineVars
    <3> QED
      BY <3>1, <3>2, <3>3, <3>4
  <2>2. Obeyed' /\ Fetched'
    BY <1>1, <1>2 DEF IInv, Obeyed, Fetched, Alive, LiveCalls, TimersMatch, Phase, Ahead, Unasked, Asked,
                      Moving, Ended, Coming, machineVars
  <2> QED
    BY <2>1, <2>2 DEF IInv
<1>3. CASE attached = {} /\ Throw("stuck", {})
  <2>1. PICK c : c = "none"
    OBVIOUS
  <2>2. Rest(c)
    BY <1>1, NothingRest DEF IInv
  <2>3. quota /\ clock # "early"
    BY <1>1, <1>3, StandingFacts DEF Quiet
  <2>4. Left(c, {}) /\ Took(c) /\ quota \in BOOLEAN
    BY <1>1, <1>3, StandingFacts
  <2>5. quota' => cancelled'
    BY <1>1 DEF IInv, Given, machineVars
  <2> QED
    BY <1>1, <1>3, <2>2, <2>3, <2>4, <2>5, BreakKeeps
<1> QED
  BY <1>2, <1>3 DEF Sleep

\* The journal fails.
LEMMA JournalKeeps ==
  ASSUME IInv, loop = "turn", JournalFails
  PROVE  IInv'
<1>1. UNCHANGED <<machineVars, ending, quota, clock>>
  BY DEF JournalFails
<1>2. quota' => cancelled'
  BY <1>1 DEF IInv, Given, machineVars
<1>3. ASSUME NEW c PROVE Rest(c) /\ calls' = calls
  BY <1>1, NothingRest DEF IInv
<1>4. \A k \in ending : calls[k].status = "cancelling"
  BY DEF IInv, Attached
<1>5. CASE Throw("journal", attached) /\ UNCHANGED events
  <2>1. PICK c : c = "none"
    OBVIOUS
  <2> QED
    BY <1>1, <1>2, <1>3, <1>4, <1>5, <2>1, StandingFacts, BreakKeeps
<1>6. CASE /\ events # <<>>
           /\ Throw("journal", IF Head(events).kind \in Finals THEN attached \ {Head(events).call} ELSE attached)
           /\ events' = Tail(events)
  <2>1. PICK c, kept : /\ c = Head(events).call
                       /\ kept = IF Head(events).kind \in Finals THEN attached \ {c} ELSE attached
    OBVIOUS
  <2>2. Took(c) /\ Left(c, kept)
    BY <1>6, <2>1 DEF Took, Left
  <2>3. c \in kept => calls'[c].status \in Unended
    BY <1>3, <2>1, StandingFacts
  <2>4. Throw("journal", kept)
    BY <1>6, <2>1
  <2> QED
    BY <1>1, <1>2, <1>3, <1>4, <1>6, <2>2, <2>3, <2>4, StandingFacts, BreakKeeps
<1> QED
  BY <1>5, <1>6 DEF JournalFails

\* Every turn of the loop.
LEMMA LoopKeeps ==
  ASSUME IInv, Loop
  PROVE  IInv'
<1>1. CASE Boot
  <2>1. /\ loop = "boot" /\ loop' = "turn" /\ UNCHANGED <<error, ending, events, timers, attached, code, quota, clock>>
        /\ UNCHANGED <<status, cancelled, failed, calls>> /\ started' = TRUE
    BY <1>1 DEF Boot, Start
  <2>2. DOMAIN calls = {} /\ events = <<>> /\ clock = "early"
    BY <2>1 DEF IInv, Given
  <2>3. attached = {} /\ ending = {} /\ timers = {} /\ DOMAIN events = {}
    BY <2>2, QuietQueue DEF IInv, Attached, Typed, Timer
  <2>4. Lives' /\ Typed' /\ Given'
    BY <2>1, <2>2, <2>3 DEF IInv, Lives, Typed, Given, Timer
  <2>5. Reports' /\ Attached'
    BY <2>1, <2>2, <2>3 DEF IInv, Reports, Attached
  <2>6. Obeyed' /\ Fetched'
    BY <2>1, <2>2, <2>3 DEF Obeyed, Fetched, LiveCalls, TimersMatch
  <2> QED
    BY <2>4, <2>5, <2>6 DEF IInv
<1>2. CASE Turn
  BY <1>2, ServeKeeps, EndStoppedKeeps, ControlKeeps, SleepKeeps, JournalKeeps DEF Turn
<1>3. CASE Close
  <2>1. /\ loop' = "closed" /\ loop # "boot"
        /\ UNCHANGED <<machineVars, error, ending, events, timers, attached, code, quota, clock>>
    BY <1>3 DEF Close
  <2>2. \A c \in attached : code[c].at = "done"
    BY <1>3 DEF Close, IInv, Attached, NotOver, Lives
  <2>3. Lives' /\ Typed' /\ Reports'
    BY <2>1 DEF IInv, Lives, Typed, Timer, Reports, machineVars
  <2>4. Attached' /\ Given'
    BY <2>1, <2>2 DEF IInv, Attached, NotOver, Given, Alive, machineVars
  <2>5. Obeyed' /\ Fetched'
    BY <2>1 DEF Obeyed, Fetched, Alive
  <2> QED
    BY <2>3, <2>4, <2>5 DEF IInv
<1> QED
  BY <1>1, <1>2, <1>3 DEF Loop

-----------------------------------------------------------------------------
(* Callbacks, timers and the caller *)

\* An event is queued: the last report of a callback, its next element, or
\* another event.
LEMMA SentReports ==
  ASSUME Reports, Typed, NEW e, events' = Append(events, e), calls' = calls, attached' = attached,
         e.kind \in EventKinds,
         e.kind \notin {"cancel", "deadline"} => e.call \in DOMAIN calls,
         e.kind \in Finals => /\ e.call \in attached
                              /\ code[e.call].at # "done"
                              /\ code'[e.call].at = "done" /\ code'[e.call].final = e.kind,
         e.kind = "yielded" => e.index = code[e.call].index /\ code'[e.call].index = e.index + 1,
         \A k \in DOMAIN calls :
           /\ code[k].at = "done" => code'[k] = code[k]
           /\ code'[k].index \in {code[k].index, code[k].index + 1}
  PROVE  Reports'
<1>0. Finals \cap {"yielded", "cancel", "deadline"} = {}
  BY DEF Finals
<1>1. IsSequence(events)
  BY DEF Reports, IsSequence
<1>2. /\ IsSequence(events')
      /\ \A i \in DOMAIN events' : \/ i \in DOMAIN events /\ events'[i] = events[i]
                                   \/ i = Len(events) + 1 /\ i \notin DOMAIN events /\ events'[i] = e
  BY <1>1, AppendFacts
<1>3. \A k \in DOMAIN calls : code[k].index \in Nat
  BY DEF Typed, Callback
<1>4. ASSUME NEW i \in DOMAIN events'
      PROVE  LET v == events'[i] IN
             /\ v.kind \in EventKinds
             /\ v.kind \notin {"cancel", "deadline"} => v.call \in DOMAIN calls'
             /\ v.kind \in Finals => v.call \in attached' /\ code'[v.call].at = "done" /\ code'[v.call].final = v.kind
             /\ v.kind = "yielded" => v.index \in 0..(code'[v.call].index - 1)
  <2>1. CASE events'[i] = e
    <3>1. e.kind = "yielded" => e.index \in 0..(code'[e.call].index - 1)
      BY <1>3
    <3> QED
      BY <2>1, <3>1
  <2>2. CASE i \in DOMAIN events /\ events'[i] = events[i]
    <3> DEFINE v == events[i]
    <3>1. /\ v.kind \in EventKinds
          /\ v.kind \notin {"cancel", "deadline"} => v.call \in DOMAIN calls
          /\ v.kind \in Finals => v.call \in attached /\ code[v.call].at = "done" /\ code[v.call].final = v.kind
          /\ v.kind = "yielded" => v.index \in 0..(code[v.call].index - 1)
      BY <2>2 DEF Reports
    <3>2. events'[i] = v
      BY <2>2
    <3> HIDE DEF v
    <3>3. v.kind = "yielded" => v.index \in 0..(code'[v.call].index - 1)
      <4>1. SUFFICES ASSUME v.kind = "yielded" PROVE v.index \in 0..(code'[v.call].index - 1)
        OBVIOUS
      <4>2. v.call \in DOMAIN calls /\ v.index \in 0..(code[v.call].index - 1)
        BY <3>1, <4>1
      <4> QED
        BY <4>2, <1>3
    <3> QED
      BY <3>1, <3>2, <3>3, <1>0
  <2> QED
    BY <1>2, <2>1, <2>2
<1>5. ASSUME NEW i \in DOMAIN events', NEW j \in DOMAIN events', i # j,
             events'[i].call = events'[j].call,
             \/ events'[i].kind \in Finals /\ events'[j].kind \in Finals
             \/ events'[i].kind = "yielded" /\ events'[j].kind = "yielded" /\ events'[i].index = events'[j].index
      PROVE  FALSE
  <2>1. ASSUME NEW n \in DOMAIN events, events[n].call = e.call,
               \/ events[n].kind \in Finals /\ e.kind \in Finals
               \/ events[n].kind = "yielded" /\ e.kind = "yielded" /\ events[n].index = e.index
        PROVE  FALSE
    <3>1. CASE events[n].kind \in Finals /\ e.kind \in Finals
      BY <2>1, <3>1 DEF Reports
    <3>2. CASE events[n].kind = "yielded" /\ e.kind = "yielded" /\ events[n].index = e.index
      <4>1. e.call \in DOMAIN calls /\ e.index \in 0..(code[e.call].index - 1) /\ e.index = code[e.call].index
        BY <2>1, <3>2 DEF Reports
      <4> QED
        BY <4>1, <1>3
    <3> QED
      BY <2>1, <3>1, <3>2
  <2>2. CASE i \in DOMAIN events /\ events'[i] = events[i] /\ j \in DOMAIN events /\ events'[j] = events[j]
    BY <1>5, <2>2 DEF Reports
  <2>3. CASE i \in DOMAIN events /\ events'[i] = events[i] /\ events'[j] = e
    BY <1>5, <2>1, <2>3
  <2>4. CASE j \in DOMAIN events /\ events'[j] = events[j] /\ events'[i] = e
    BY <1>5, <2>1, <2>4
  <2> QED
    BY <1>2, <1>5, <2>2, <2>3, <2>4
<1> QED
  BY <1>2, <1>4, <1>5 DEF Reports, IsSequence

\* A stretch of the callback of c, which queues at most something about c.
LEMMA StepKeeps ==
  ASSUME IInv, NEW c \in DOMAIN calls, NEW cb \in Callback, Step(c, cb), code[c].at # "done",
         cb.at \notin {"user", "done"} => calls[c].stream,
         cb.aborted <=> code[c].aborted,
         loop' = loop \/ (loop = "wait" /\ loop' = "turn"),
         Reports',
         \A k : k # c => (Coming(k)' <=> Coming(k)),
         \A i \in DOMAIN events' :
           \/ events'[i].call = c /\ events'[i].kind # "element"
           \/ \E j \in DOMAIN events : events'[i] = events[j],
         Alive /\ c \in LiveCalls => (cb.at \in {"leave", "done"} => cb.final # "exited") /\ Phase(c)'
  PROVE  IInv'
<1> USE DEF IInv
<1>1. /\ UNCHANGED <<machineVars, error, ending, timers, attached, quota, asked, clock>>
      /\ DOMAIN code = DOMAIN calls /\ DOMAIN code' = DOMAIN calls
      /\ code'[c] = cb
      /\ \A k \in DOMAIN calls \ {c} : code'[k] = code[k]
  BY DEF Step, Typed
<1>2. calls' = calls /\ LiveCalls' = LiveCalls /\ (Alive' <=> Alive)
  BY <1>1 DEF machineVars, LiveCalls, Alive
<1>3. Lives'
  BY <1>1 DEF Lives, machineVars
<1>4. Typed'
  <2>1. timers' \subseteq Timer'
    BY <1>1, <1>2 DEF Typed, Timer
  <2>2. \A k \in DOMAIN calls' :
          /\ code'[k] \in Callback
          /\ calls'[k].stream <=> "stream" \in Kind[k]
          /\ code'[k].at \notin {"user", "done"} => calls'[k].stream
    BY <1>1, <1>2 DEF Typed
  <2>3. loop' \in {"boot", "turn", "wait", "broken", "closed"} /\ quota' \in BOOLEAN
    BY <1>1 DEF Typed
  <2> QED
    BY <1>1, <1>2, <2>1, <2>2, <2>3 DEF Typed
<1>5. c \in attached
  BY DEF Attached
<1>6. Attached'
  BY <1>1, <1>2, <1>5 DEF Attached, NotOver
<1>7. Obeyed'
  <2>1. TimersMatch => TimersMatch'
    BY <1>1, <1>2 DEF TimersMatch
  <2>2. Alive => \A k \in attached' : code'[k].aborted <=> calls'[k].status = "cancelling"
    BY <1>1, <1>2 DEF Obeyed, Attached
  <2>3. Alive => \A k \in LiveCalls' : code'[k].at \in {"leave", "done"} => code'[k].final # "exited"
    BY <1>1, <1>2 DEF Obeyed, LiveCalls
  <2> QED
    BY <1>2, <2>1, <2>2, <2>3 DEF Obeyed
<1>8. Fetched'
  <2>1. ASSUME Alive, NEW k \in LiveCalls, k # c PROVE Phase(k)'
    <3>1. Phase(k) /\ k \in DOMAIN calls /\ code'[k] = code[k]
      BY <1>1, <2>1 DEF Fetched, LiveCalls
    <3>2. Ahead(k) => Ahead(k)'
      BY <1>2, <2>1, <3>1 DEF Ahead
    <3> QED
      BY <1>2, <2>1, <3>1, <3>2 DEF Phase, Unasked, Asked, Moving, Ended
  <2>2. ASSUME Alive, NEW i \in DOMAIN events', events'[i].kind = "element", calls'[events'[i].call].status = "fetching"
        PROVE  events'[i].index = calls'[events'[i].call].yields
    BY <1>2, <2>2 DEF Fetched
  <2> QED
    BY <1>2, <2>1, <2>2 DEF Fetched
<1>9. Given'
  BY <1>1, <1>2 DEF Given, machineVars
<1> QED
  BY <1>3, <1>4, <1>6, <1>7, <1>8, <1>9

\* A stretch of a callback that queues nothing.
LEMMA QuietKeeps ==
  ASSUME IInv, NEW c \in DOMAIN calls, NEW cb \in Callback, Step(c, cb), UNCHANGED <<loop, events>>,
         code[c].at # "done",
         cb.index = code[c].index,
         cb.at \notin {"user", "done"} => calls[c].stream,
         cb.aborted <=> code[c].aborted,
         Alive /\ c \in LiveCalls => (cb.at \in {"leave", "done"} => cb.final # "exited") /\ Phase(c)'
  PROVE  IInv'
<1>1. /\ UNCHANGED <<machineVars, attached>>
      /\ DOMAIN code = DOMAIN calls /\ DOMAIN code' = DOMAIN calls
      /\ code'[c] = cb
      /\ \A k \in DOMAIN calls \ {c} : code'[k] = code[k]
  BY DEF Step, IInv, Typed
<1>2. Reports'
  <2>1. \A k \in DOMAIN calls : code'[k].index = code[k].index /\ (k = c \/ code'[k] = code[k])
    BY <1>1
  <2>2. calls' = calls
    BY <1>1 DEF machineVars
  <2>3. \A i \in DOMAIN events : events[i].kind \in Finals => events[i].call # c
    BY DEF IInv, Reports
  <2>4. \A i \in DOMAIN events :
          /\ events[i].kind \in Finals => events[i].call \in DOMAIN calls
          /\ events[i].kind = "yielded" => events[i].call \in DOMAIN calls
    BY DEF IInv, Reports, Finals
  <2> QED
    BY <1>1, <2>1, <2>2, <2>3, <2>4 DEF IInv, Reports
<1>3. \A k : Coming(k)' <=> Coming(k)
  BY DEF Coming
<1> QED
  BY <1>2, <1>3, StepKeeps

\* What events are already queued once another one is.
LEMMA SentFacts ==
  ASSUME Reports, NEW e, events' = Append(events, e), NEW k
  PROVE  /\ Coming(k)' <=> Coming(k) \/ (e.kind = "yielded" /\ e.call = k)
         /\ \A i \in DOMAIN events' : events'[i] = e \/ \E j \in DOMAIN events : events'[i] = events[j]
<1>1. IsSequence(events)
  BY DEF Reports, IsSequence
<1>2. /\ \A i \in DOMAIN events' : \/ i \in DOMAIN events /\ events'[i] = events[i]
                                   \/ events'[i] = e
      /\ \A i \in DOMAIN events : i \in DOMAIN events' /\ events'[i] = events[i]
      /\ \E i \in DOMAIN events' : events'[i] = e
  BY <1>1, AppendFacts
<1>3. Coming(k)' => Coming(k) \/ (e.kind = "yielded" /\ e.call = k)
  BY <1>2 DEF Coming
<1>4. Coming(k) \/ (e.kind = "yielded" /\ e.call = k) => Coming(k)'
  BY <1>2 DEF Coming
<1> QED
  BY <1>2, <1>3, <1>4

\* The last report of a callback.
LEMMA ReportKeeps ==
  ASSUME IInv, NEW c \in DOMAIN calls, NEW kind \in Finals, Report(c, kind), code[c].at # "done",
         Alive /\ c \in LiveCalls => kind # "exited" /\ ~Ahead(c)
  PROVE  IInv'
<1>1. PICK b \in Callback : b = code[c]
  BY DEF IInv, Typed
<1>2. PICK n : n = [b EXCEPT !.at = "done", !.final = kind]
  OBVIOUS
<1>3. n \in Callback /\ n.at = "done" /\ n.final = kind /\ n.index = b.index /\ (n.aborted <=> b.aborted)
  BY <1>1, <1>2 DEF Callback
<1>4. Step(c, n)
  BY <1>1, <1>2 DEF Report
<1>5. PICK e : e = EventOf(kind, c, b.index)
  OBVIOUS
<1>6. e.kind = kind /\ e.call = c
  BY <1>5 DEF EventOf
<1>7. events' = Append(events, e) /\ loop' = IF loop = "wait" THEN "turn" ELSE loop
  BY <1>1, <1>5 DEF Report, Send
<1>8. /\ UNCHANGED <<machineVars, attached>>
      /\ DOMAIN code' = DOMAIN calls
      /\ code'[c] = n
      /\ \A k \in DOMAIN calls \ {c} : code'[k] = code[k]
  BY <1>4 DEF Step, IInv, Typed
<1>9. Reports'
  <2>1. c \in attached /\ calls' = calls
    BY <1>8 DEF IInv, Attached, machineVars
  <2>2. \A k \in DOMAIN calls : /\ code[k].at = "done" => code'[k] = code[k]
                                /\ code'[k].index \in {code[k].index, code[k].index + 1}
    BY <1>1, <1>3, <1>8
  <2>3. kind \in EventKinds /\ kind # "yielded"
    BY DEF EventKinds, Finals
  <2> QED
    BY <1>3, <1>6, <1>7, <1>8, <2>1, <2>2, <2>3, SentReports DEF IInv
<1>10. \A k : Coming(k)' <=> Coming(k)
  BY <1>6, <1>7, SentFacts DEF IInv, Finals
<1>11. \A i \in DOMAIN events' : events'[i] = e \/ \E j \in DOMAIN events : events'[i] = events[j]
  BY <1>7, SentFacts DEF IInv
<1>12. kind # "element"
  BY DEF Finals
<1>13. ASSUME Alive, c \in LiveCalls PROVE kind # "exited" /\ Phase(c)'
  <2>1. Phase(c) /\ ~Ahead(c) /\ ~Coming(c)' /\ kind # "exited"
    BY <1>10, <1>13 DEF IInv, Fetched, Phase, Unasked, Asked, Moving, Ended
  <2>2. calls' = calls
    BY <1>8 DEF machineVars
  <2> QED
    BY <1>1, <1>3, <1>8, <2>1, <2>2 DEF Phase, Ended
<1> QED
  BY <1>1, <1>3, <1>4, <1>6, <1>7, <1>9, <1>10, <1>11, <1>12, <1>13, StepKeeps

\* A generator yields, ahead of the machine by one element.
LEMMA YieldKeeps ==
  ASSUME IInv, NEW c \in DOMAIN calls, code[c].at = "next", ~code[c].aborted,
         Send(EventOf("yielded", c, code[c].index)),
         Step(c, [code[c] EXCEPT !.at = "check", !.index = @ + 1])
  PROVE  IInv'
<1>1. PICK b \in Callback : b = code[c]
  BY DEF IInv, Typed
<1>2. PICK n : n = [b EXCEPT !.at = "check", !.index = @ + 1]
  OBVIOUS
<1>3. b.index \in Nat /\ b.index + 1 \in Nat
  BY DEF Callback
<1>4. n.at = "check" /\ n.index = b.index + 1 /\ n.final = b.final /\ (n.aborted <=> b.aborted) /\ (n.pending <=> b.pending)
  BY <1>1, <1>2 DEF Callback
<1>5. n \in Callback
  <2>1. n = [at |-> "check", pending |-> b.pending, aborted |-> b.aborted, index |-> b.index + 1, final |-> b.final]
    BY <1>1, <1>2 DEF Callback
  <2> QED
    BY <1>3, <2>1 DEF Callback
<1>6. Step(c, n)
  BY <1>1, <1>2
<1>7. PICK e : e = EventOf("yielded", c, b.index)
  OBVIOUS
<1>8. e.kind = "yielded" /\ e.call = c /\ e.index = b.index
  BY <1>7 DEF EventOf
<1>9. events' = Append(events, e) /\ loop' = IF loop = "wait" THEN "turn" ELSE loop
  BY <1>1, <1>7 DEF Send
<1>10. /\ UNCHANGED <<machineVars, attached>>
       /\ DOMAIN code' = DOMAIN calls
       /\ code'[c] = n
       /\ \A k \in DOMAIN calls \ {c} : code'[k] = code[k]
  BY <1>6 DEF Step, IInv, Typed
<1>11. calls' = calls
  BY <1>10 DEF machineVars
<1>12. Reports'
  <2>1. \A k \in DOMAIN calls : /\ code[k].at = "done" => code'[k] = code[k]
                                /\ code'[k].index \in {code[k].index, code[k].index + 1}
    BY <1>1, <1>4, <1>10
  <2>2. e.kind \in EventKinds /\ e.kind \notin Finals
    BY <1>8 DEF EventKinds, Finals
  <2> QED
    BY <1>1, <1>4, <1>8, <1>9, <1>10, <1>11, <2>1, <2>2, SentReports DEF IInv
<1>13. \A k : Coming(k)' <=> Coming(k) \/ k = c
  BY <1>8, <1>9, SentFacts DEF IInv
<1>14. \A i \in DOMAIN events' : events'[i] = e \/ \E j \in DOMAIN events : events'[i] = events[j]
  BY <1>9, SentFacts DEF IInv
<1>15. ASSUME Alive, c \in LiveCalls PROVE Phase(c)'
  <2>1. Moving(c) /\ code[c].index = calls[c].yields
    BY <1>15 DEF IInv, Fetched, Phase, Ahead, Unasked, Asked, Ended
  <2>2. \A i \in DOMAIN events' :
          events'[i].kind = "yielded" /\ events'[i].call = c => events'[i].index = calls[c].yields
    <3>1. \A j \in DOMAIN events : ~(events[j].kind = "yielded" /\ events[j].call = c)
      BY <2>1 DEF Moving, Coming
    <3> QED
      BY <1>1, <1>8, <1>14, <2>1, <3>1
  <2>3. Ahead(c)'
    BY <1>1, <1>4, <1>10, <1>11, <1>13, <2>1, <2>2 DEF Ahead, Moving
  <2> QED
    BY <1>1, <1>4, <1>10, <1>11, <2>1, <2>3 DEF Phase
<1>16. calls[c].stream
  BY DEF IInv, Typed
<1> QED
  BY <1>1, <1>4, <1>5, <1>6, <1>8, <1>9, <1>12, <1>13, <1>14, <1>15, <1>16, StepKeeps

\* The iterator is closed before anything is reported.
LEMMA LeaveKeeps ==
  ASSUME IInv, NEW c \in DOMAIN calls, NEW kind \in Finals, Leave(c, kind), code[c].at \in {"check", "next"},
         Alive /\ c \in LiveCalls => kind # "exited" /\ code[c].at = "next"
  PROVE  IInv'
<1>1. PICK b \in Callback : b = code[c]
  BY DEF IInv, Typed
<1>2. PICK n : n = [b EXCEPT !.at = "leave", !.final = kind]
  OBVIOUS
<1>3. /\ n \in Callback /\ n.at = "leave" /\ n.final = kind /\ n.index = b.index
      /\ (n.aborted <=> b.aborted) /\ (n.pending <=> b.pending)
  BY <1>1, <1>2 DEF Callback
<1>4. Step(c, n) /\ UNCHANGED <<loop, events>>
  BY <1>1, <1>2 DEF Leave
<1>5. calls' = calls /\ code'[c] = n
  BY <1>4 DEF Step, machineVars, IInv, Typed
<1>6. ASSUME Alive, c \in LiveCalls PROVE kind # "exited" /\ Phase(c)'
  <2>1. Moving(c) /\ code[c].index = calls[c].yields
    BY <1>6 DEF IInv, Fetched, Phase, Ahead, Unasked, Asked, Ended
  <2>2. Coming(c)' <=> Coming(c)
    BY <1>4 DEF Coming
  <2> QED
    BY <1>1, <1>3, <1>5, <1>6, <2>1, <2>2 DEF Phase, Moving
<1>7. calls[c].stream
  BY DEF IInv, Typed
<1> QED
  BY <1>1, <1>3, <1>4, <1>6, <1>7, QuietKeeps

\* A generator looks for a request.
LEMMA CheckKeeps ==
  ASSUME IInv, NEW c \in DOMAIN calls, CheckFetch(c)
  PROVE  IInv'
<1>1. code[c].at = "check" /\ "exited" \in Finals
  BY DEF CheckFetch, Finals
<1>2. CASE code[c].aborted /\ Leave(c, "exited")
  <2>1. ~(Alive /\ c \in LiveCalls)
    BY <1>2, LiveAttached DEF IInv, Obeyed, LiveCalls, Live
  <2> QED
    BY <1>1, <1>2, <2>1, LeaveKeeps
<1>3. CASE /\ ~code[c].aborted
           /\ Step(c, [code[c] EXCEPT !.at = IF code[c].pending THEN "next" ELSE "wait", !.pending = FALSE])
           /\ UNCHANGED <<loop, events>>
  <2>1. PICK b \in Callback : b = code[c]
    BY DEF IInv, Typed
  <2>2. PICK a : a = IF b.pending THEN "next" ELSE "wait"
    OBVIOUS
  <2>3. PICK n : n = [b EXCEPT !.at = a, !.pending = FALSE]
    OBVIOUS
  <2>4. a \in {"wait", "next"}
    BY <2>2
  <2>5. /\ n \in Callback /\ n.at = a /\ n.final = b.final /\ n.index = b.index
        /\ (n.aborted <=> b.aborted) /\ ~n.pending
    BY <2>1, <2>3, <2>4 DEF Callback
  <2>6. Step(c, n)
    BY <1>3, <2>1, <2>2, <2>3
  <2>7. calls' = calls /\ code'[c] = n
    BY <2>6 DEF Step, machineVars, IInv, Typed
  <2>8. ASSUME Alive, c \in LiveCalls PROVE Phase(c)'
    <3>1. Phase(c) /\ (Coming(c)' <=> Coming(c))
      BY <1>3, <2>8 DEF IInv, Fetched, Coming
    <3>2. CASE Ahead(c)
      <4>1. Ahead(c)'
        BY <1>3, <2>1, <2>2, <2>5, <2>7, <3>1, <3>2 DEF Ahead
      <4> QED
        BY <2>1, <2>5, <2>7, <3>1, <3>2, <4>1 DEF Phase, Ahead, Unasked, Asked, Moving, Ended
    <3>3. CASE ~Ahead(c)
      BY <1>1, <2>1, <2>2, <2>5, <2>7, <3>1, <3>3 DEF Phase, Unasked, Asked, Moving, Ended
    <3> QED
      BY <3>2, <3>3
  <2>9. calls[c].stream
    BY <1>1 DEF IInv, Typed
  <2> QED
    BY <1>1, <1>3, <2>1, <2>4, <2>5, <2>6, <2>8, <2>9, QuietKeeps
<1> QED
  BY <1>2, <1>3 DEF CheckFetch

\* User code returns, throws or yields.
LEMMA UserCodeKeeps ==
  ASSUME IInv, NEW c \in DOMAIN calls, UserCode(c)
  PROVE  IInv'
<1>0. /\ {"returned", "judged", "badArm", "ended", "failed", "quota", "exited"} = Finals
      /\ Refused \subseteq Finals \ {"exited"} /\ Thrown \subseteq Finals \ {"exited"}
      /\ Misjudged \subseteq Finals \ {"exited"}
  BY DEF Finals, Refused, Thrown, Misjudged
<1>1. Alive /\ c \in LiveCalls => ~code[c].aborted
  BY LiveAttached DEF IInv, Obeyed, LiveCalls, Live
<1>2. CASE CodeReturns(c)
  <2>1. code[c].at = "user" /\ ~Ahead(c)
    BY <1>2 DEF CodeReturns, Ahead
  <2>2. CASE "single" \in Kind[c] /\ code[c].aborted /\ Report(c, "exited")
    BY <1>0, <1>1, <2>1, <2>2, ReportKeeps
  <2>3. CASE \E kind \in Finals \ {"exited"} : Report(c, kind)
    BY <2>1, <2>3, ReportKeeps
  <2>4. CASE "stream" \in Kind[c] /\ Step(c, [code[c] EXCEPT !.at = "check"]) /\ UNCHANGED <<loop, events>>
    <3>1. PICK b \in Callback : b = code[c]
      BY DEF IInv, Typed
    <3>2. PICK n : n = [b EXCEPT !.at = "check"]
      OBVIOUS
    <3>3. /\ n \in Callback /\ n.at = "check" /\ n.final = b.final /\ n.index = b.index
          /\ (n.aborted <=> b.aborted) /\ (n.pending <=> b.pending)
      BY <3>1, <3>2 DEF Callback
    <3>4. Step(c, n)
      BY <2>4, <3>1, <3>2
    <3>5. calls' = calls /\ code'[c] = n
      BY <3>4 DEF Step, machineVars, IInv, Typed
    <3>6. ASSUME Alive, c \in LiveCalls PROVE Phase(c)'
      <4>1. Phase(c) /\ (Coming(c)' <=> Coming(c))
        BY <2>4, <3>6 DEF IInv, Fetched, Coming
      <4> QED
        BY <2>1, <3>1, <3>3, <3>5, <4>1 DEF Phase, Unasked, Asked, Moving, Ended
    <3>7. calls[c].stream
      BY <2>4 DEF IInv, Typed
    <3> QED
      BY <2>1, <2>4, <3>1, <3>3, <3>4, <3>6, <3>7, QuietKeeps
  <2> QED
    BY <1>0, <1>2, <2>2, <2>3, <2>4 DEF CodeReturns
<1>3. CASE IteratorMoves(c)
  <2>1. code[c].at = "next" /\ ~Ahead(c)
    BY <1>3 DEF IteratorMoves, Ahead
  <2>2. CASE code[c].aborted /\ Leave(c, "exited")
    BY <1>0, <1>1, <2>1, <2>2, LeaveKeeps
  <2>3. CASE ~code[c].aborted /\ Report(c, "ended")
    BY <1>0, <2>1, <2>3, ReportKeeps
  <2>4. CASE /\ ~code[c].aborted
             /\ Send(EventOf("yielded", c, code[c].index))
             /\ Step(c, [code[c] EXCEPT !.at = "check", !.index = @ + 1])
    BY <2>1, <2>4, YieldKeeps
  <2>5. CASE \E kind \in Finals \ {"exited"} : Leave(c, kind)
    BY <2>1, <2>5, LeaveKeeps
  <2>6. Thrown \cup (IF code[c].aborted THEN {} ELSE Refused) \subseteq Finals \ {"exited"}
    BY <1>0
  <2> QED
    BY <1>3, <2>2, <2>3, <2>4, <2>5, <2>6 DEF IteratorMoves
<1>4. CASE IteratorCloses(c)
  <2>1. code[c].at = "leave" /\ Report(c, code[c].final) /\ ~Ahead(c)
    BY <1>4 DEF IteratorCloses, Ahead
  <2>2. PICK kind : kind = code[c].final
    OBVIOUS
  <2>3. kind \in Finals
    BY <2>2 DEF IInv, Typed, Callback
  <2>4. Alive /\ c \in LiveCalls => kind # "exited"
    BY <2>1, <2>2 DEF IInv, Obeyed
  <2> QED
    BY <2>1, <2>2, <2>3, <2>4, ReportKeeps
<1> QED
  BY <1>2, <1>3, <1>4 DEF UserCode

\* Something else than a callback sends an event.
LEMMA SendKeeps ==
  ASSUME IInv, NEW e, Send(e), e.kind \in {"call", "element", "cancel", "deadline"},
         e.kind \in {"call", "element"} => e.call \in DOMAIN calls,
         Alive /\ e.kind = "element" => e.index = calls[e.call].yields,
         timers' \subseteq timers,
         clock' = clock \/ (clock # "early" /\ clock' # "early"),
         loop # "boot",
         UNCHANGED <<machineVars, error, ending, attached, code, quota>>
  PROVE  IInv'
<1> USE DEF IInv
<1>1. events' = Append(events, e) /\ loop' = IF loop = "wait" THEN "turn" ELSE loop
  BY DEF Send
<1>2. calls' = calls /\ (Alive' <=> Alive) /\ LiveCalls' = LiveCalls
  BY <1>1 DEF machineVars, Alive, LiveCalls
<1>3. e.kind \in EventKinds /\ e.kind \notin Finals /\ e.kind # "yielded"
  BY DEF EventKinds, Finals
<1>4. Reports'
  BY <1>1, <1>2, <1>3, SentReports
<1>5. Lives'
  BY DEF Lives, machineVars
<1>6. Typed'
  <2>1. timers' \subseteq Timer'
    BY <1>2 DEF Typed, Timer
  <2> QED
    BY <1>1, <1>2, <2>1 DEF Typed
<1>7. Attached'
  BY <1>2 DEF Attached, NotOver
<1>8. Obeyed'
  BY <1>2 DEF Obeyed, TimersMatch
<1>9. Fetched'
  <2>1. \A k : Coming(k)' <=> Coming(k)
    BY <1>1, <1>3, SentFacts
  <2>2. \A i \in DOMAIN events' : events'[i] = e \/ \E j \in DOMAIN events : events'[i] = events[j]
    BY <1>1, SentFacts
  <2>3. ASSUME Alive, NEW k \in LiveCalls PROVE Phase(k)'
    <3>1. Phase(k)
      BY <2>3 DEF Fetched
    <3>2. Ahead(k) => Ahead(k)'
      BY <1>2, <1>3, <2>1, <2>2 DEF Ahead
    <3> QED
      BY <1>2, <2>1, <3>1, <3>2 DEF Phase, Unasked, Asked, Moving, Ended
  <2>4. ASSUME Alive, NEW i \in DOMAIN events', events'[i].kind = "element", calls'[events'[i].call].status = "fetching"
        PROVE  events'[i].index = calls'[events'[i].call].yields
    BY <1>2, <2>2, <2>4 DEF Fetched
  <2> QED
    BY <1>2, <2>3, <2>4 DEF Fetched
<1>10. Given'
  BY <1>1, <1>2 DEF Given, machineVars
<1> QED
  BY <1>4, <1>5, <1>6, <1>7, <1>8, <1>9, <1>10

\* The invariant holds at the start.
LEMMA InitIInv == DriverInit => IInv
<1> SUFFICES ASSUME DriverInit PROVE IInv
  OBVIOUS
<1> USE DEF DriverInit, Init
<1>1. DOMAIN calls = {} /\ DOMAIN code = {} /\ DOMAIN events = {}
  OBVIOUS
<1>2. Lives
  BY <1>1 DEF Lives, Statuses
<1>3. Typed
  BY <1>1 DEF Typed
<1>4. Reports
  <2>1. events \in Seq({events[n] : n \in DOMAIN events})
    OBVIOUS
  <2> QED
    BY <1>1, <2>1 DEF Reports
<1>5. Attached
  BY <1>1 DEF Attached
<1>6. Obeyed /\ Fetched
  BY DEF Obeyed, Fetched, Alive
<1>7. Given
  BY <1>1 DEF Given
<1> QED
  BY <1>2, <1>3, <1>4, <1>5, <1>6, <1>7 DEF IInv

\* Every step keeps the invariant.
LEMMA StepIInv == IInv /\ [DriverNext]_vars => IInv'
<1> SUFFICES ASSUME IInv, [DriverNext]_vars PROVE IInv'
  OBVIOUS
<1>1. CASE Loop
  BY <1>1, LoopKeeps
<1>2. CASE \E c \in DOMAIN code : CheckFetch(c) \/ UserCode(c)
  <2>1. DOMAIN code = DOMAIN calls
    BY DEF IInv, Typed
  <2> QED
    BY <1>2, <2>1, CheckKeeps, UserCodeKeeps
<1>3. CASE \E t \in timers : Fire(t)
  <2>1. PICK t \in timers : Fire(t)
    BY <1>3
  <2>2. t \in Timer /\ t.kind \in {"call", "element"} /\ t.call \in DOMAIN calls
    BY <2>1 DEF IInv, Typed, Timer
  <2>3. Alive /\ t.kind = "element" => t.index = calls[t.call].yields
    BY <2>1 DEF IInv, Obeyed, TimersMatch
  <2>4. loop # "boot"
    BY <2>2 DEF IInv, Given
  <2> QED
    BY <2>1, <2>2, <2>3, <2>4, SendKeeps DEF Fire
<1>4. CASE RequestCancel
  <2>1. PICK e : e = EventOf("cancel", "none", 0)
    OBVIOUS
  <2>2. e.kind = "cancel"
    BY <2>1 DEF EventOf
  <2> QED
    BY <1>4, <2>1, <2>2, SendKeeps DEF RequestCancel
<1>5. CASE DeadlinePasses
  <2>1. /\ UNCHANGED <<machineVars, loop, error, ending, events, timers, attached, code, quota>>
        /\ loop # "boot" /\ clock = "early" /\ clock' = "late"
    BY <1>5 DEF DeadlinePasses
  <2>2. Lives' /\ Typed'
    BY <2>1 DEF IInv, Lives, Typed, Timer, machineVars
  <2>3. Reports'
    BY <2>1 DEF IInv, Reports, machineVars
  <2>4. Attached'
    BY <2>1 DEF IInv, Attached, NotOver, Alive, machineVars
  <2>5. Obeyed' /\ Fetched'
    BY <2>1 DEF IInv, Obeyed, Fetched, Alive, LiveCalls, TimersMatch, Phase, Ahead, Unasked, Asked,
                Moving, Ended, Coming, machineVars
  <2>6. Given'
    BY <2>1 DEF IInv, Given, machineVars
  <2> QED
    BY <2>2, <2>3, <2>4, <2>5, <2>6 DEF IInv
<1>6. CASE DeadlineFires
  <2>1. PICK e : e = EventOf("deadline", "none", 0)
    OBVIOUS
  <2>2. e.kind = "deadline"
    BY <2>1 DEF EventOf
  <2>3. loop # "boot" /\ clock = "late"
    BY <1>6 DEF DeadlineFires, IInv, Given
  <2> QED
    BY <1>6, <2>1, <2>2, <2>3, SendKeeps DEF DeadlineFires
<1>7. CASE UNCHANGED vars
  <2>1. UNCHANGED <<machineVars, loop, error, ending, events, timers, attached, code, quota, clock>>
    BY <1>7 DEF vars, driverVars
  <2>2. Lives' /\ Typed'
    BY <2>1 DEF IInv, Lives, Typed, Timer, machineVars
  <2>3. Reports'
    BY <2>1 DEF IInv, Reports, machineVars
  <2>4. Attached'
    BY <2>1 DEF IInv, Attached, NotOver, Alive, machineVars
  <2>5. Obeyed' /\ Fetched'
    BY <2>1 DEF IInv, Obeyed, Fetched, Alive, LiveCalls, TimersMatch, Phase, Ahead, Unasked, Asked,
                Moving, Ended, Coming, machineVars
  <2>6. Given'
    BY <2>1 DEF IInv, Given, machineVars
  <2> QED
    BY <2>2, <2>3, <2>4, <2>5, <2>6 DEF IInv
<1> QED
  BY <1>1, <1>2, <1>3, <1>4, <1>5, <1>6, <1>7 DEF DriverNext

-----------------------------------------------------------------------------
(* Why the loop fails *)

\* A call is told to stop because it timed out, as long as nothing stops the
\* execution; so such calls are the only ones that the driver can lose.
Explained ==
  /\ \A t \in timers : t.kind \in Timeouts[t.call]
  /\ \A i \in DOMAIN events : events[i].kind \in {"call", "element"} => events[i].kind \in Timeouts[events[i].call]
  /\ status = "running" => \A c \in DOMAIN calls : Cancelling(c) => Timeouts[c] # {}
  /\ Alive => \A c \in DOMAIN calls : NotOver(c) /\ c \notin attached \cup ending => Timeouts[c] # {}
  /\ error # "none" => loop \in {"broken", "closed"}
  /\ error = "stuck" => \E c \in Abandoned : Timeouts[c] # {}
  /\ error = "cannotEnd" => \E c \in Abandoned : code[c].final = "badArm"

\* Nothing happens to the calls, and no other timer fires than one that was armed.
LEMMA ExplainedAside ==
  ASSUME Explained, UNCHANGED <<machineVars, error, ending, attached>>, timers' \subseteq timers,
         \A i \in DOMAIN events' :
           \/ events'[i].kind \notin {"call", "element"}
           \/ events'[i] \in timers
           \/ \E j \in DOMAIN events : events'[i] = events[j],
         Alive' => Alive,
         loop \in {"broken", "closed"} => loop' \in {"broken", "closed"},
         \A c \in DOMAIN calls \ attached : code'[c].final = code[c].final
  PROVE  Explained'
<1>1. calls' = calls /\ status' = status /\ Abandoned' = Abandoned
  BY DEF machineVars, Abandoned
<1>2. \A c \in Abandoned : code'[c].final = code[c].final
  BY DEF Abandoned
<1>3. (\A t \in timers : t.kind \in Timeouts[t.call])'
  BY DEF Explained
<1>4. (\A i \in DOMAIN events : events[i].kind \in {"call", "element"} => events[i].kind \in Timeouts[events[i].call])'
  BY DEF Explained
<1>5. (status = "running" => \A c \in DOMAIN calls : Cancelling(c) => Timeouts[c] # {})'
  BY <1>1 DEF Explained, Cancelling
<1>6. (Alive => \A c \in DOMAIN calls : NotOver(c) /\ c \notin attached \cup ending => Timeouts[c] # {})'
  BY <1>1 DEF Explained, NotOver
<1>7. (error # "none" => loop \in {"broken", "closed"})'
  BY DEF Explained
<1>8. /\ (error = "stuck" => \E c \in Abandoned : Timeouts[c] # {})'
      /\ (error = "cannotEnd" => \E c \in Abandoned : code[c].final = "badArm")'
  BY <1>1, <1>2 DEF Explained
<1> QED
  BY <1>3, <1>4, <1>5, <1>6, <1>7, <1>8 DEF Explained

\* What is left in the queue was there before.
LEMMA TakenEvents ==
  ASSUME Reports, NEW c, Took(c)
  PROVE  \A i \in DOMAIN events' : \E j \in DOMAIN events : events'[i] = events[j]
<1>1. IsSequence(events)
  BY DEF Reports, IsSequence
<1> QED
  BY <1>1, TailFacts DEF Took

\* Every operation on c that the loop applies and publishes.
LEMMA ExplainedOperation ==
  ASSUME IInv, Explained, loop = "turn", NEW c, NEW kept, Rest(c), Took(c), Left(c, kept), attached' = kept,
         \A t \in timers' : t.kind \in Timeouts[t.call],
         UNCHANGED <<loop, error>>,
         status' = "running" => /\ status = "running"
                                /\ \A k \in DOMAIN calls \ {c} : calls'[k] = calls[k]
                                /\ c \in DOMAIN calls /\ calls'[c].status = "cancelling" => Timeouts[c] # {},
         c \in DOMAIN calls /\ calls'[c].status \in Unended => c \in kept \cup ending' \/ Timeouts[c] # {},
         \A k \in ending : k \in ending' \/ k = c
  PROVE  Explained'
<1>1. DOMAIN calls' = DOMAIN calls /\ error' = "none"
  BY DEF Rest, Explained
<1>2. (\A i \in DOMAIN events : events[i].kind \in {"call", "element"} => events[i].kind \in Timeouts[events[i].call])'
  BY TakenEvents DEF Explained, IInv
<1>3. (status = "running" => \A k \in DOMAIN calls : Cancelling(k) => Timeouts[k] # {})'
  BY <1>1 DEF Explained, Cancelling
<1>4. ASSUME NEW k \in DOMAIN calls', calls'[k].status \in Unended, k \notin attached' \cup ending'
      PROVE  Timeouts[k] # {}
  <2>1. CASE k = c
    BY <1>1, <1>4, <2>1
  <2>2. CASE k # c
    <3>1. k \in DOMAIN calls /\ calls[k].status \in Unended
      BY <1>1, <1>4, <2>2 DEF Rest, Unended
    <3>2. k \notin attached \cup ending
      BY <1>4, <2>2 DEF Left
    <3> QED
      BY <3>1, <3>2 DEF Explained, Alive, NotOver
  <2> QED
    BY <2>1, <2>2
<1> QED
  BY <1>1, <1>2, <1>3, <1>4 DEF Explained, NotOver

\* Cancelling everything: a call that is lost over it was told to stop before.
LEMMA ExplainedCancel ==
  ASSUME IInv, Explained, loop = "turn", NEW c, NEW kept, Cancel, Took(c), Left(c, kept), attached' = kept,
         timers' \subseteq timers,
         UNCHANGED <<loop, error>>,
         \/ ending' = ending /\ kept = attached
         \/ ending = {} /\ ending' = {c}
         \/ ending = {} /\ ending' = {} /\ status = "running" /\ calls[c].status = "cancelling"
  PROVE  Explained'
<1>1. /\ Rest(c) /\ status' = "stopping"
      /\ \A k \in DOMAIN calls : calls'[k].status \in Unended <=> calls[k].status \in Unended
  BY CancelStep DEF IInv
<1>2. c \in DOMAIN calls /\ calls'[c].status \in Unended => c \in kept \cup ending' \/ Timeouts[c] # {}
  BY <1>1 DEF Explained, Alive, NotOver, Cancelling
<1>3. \A t \in timers' : t.kind \in Timeouts[t.call]
  BY DEF Explained
<1> QED
  BY <1>1, <1>2, <1>3, ExplainedOperation

\* A failure without a stop is of its own call alone.
LEMMA FailAlone ==
  ASSUME NEW table, Fail(table), status' = "running"
  PROVE  calls' = table /\ status' = status
BY DEF Fail

\* Every event that is handled.
LEMMA ServeExplained ==
  ASSUME IInv, Explained, loop = "turn", Serve
  PROVE  Explained'
<1>0. PICK e, c : e = Head(events) /\ c = e.call
  OBVIOUS
<1>1. ending = {} /\ events # <<>> /\ events' = Tail(events)
  BY DEF Serve
<1>2. IsSequence(events)
  BY DEF IInv, Reports, IsSequence
<1>3. 1 \in DOMAIN events /\ e = events[1]
  BY <1>0, <1>1, <1>2, TailFacts
<1>4. /\ e.kind \notin {"cancel", "deadline"} => c \in DOMAIN calls
      /\ e.kind \in Finals => c \in attached /\ code[c].at = "done" /\ code[c].final = e.kind
      /\ e.kind \in {"call", "element"} => Timeouts[c] # {}
  BY <1>0, <1>3 DEF IInv, Reports, Explained
<1>5. Took(c)
  BY <1>0, <1>1 DEF Took
<1>6. Left(c, attached) /\ (e.kind \in Finals => Left(c, Others(c)))
  BY <1>0, <1>1 DEF Left, Others
<1>7. /\ timers \ ElementTimer(c) \subseteq timers /\ Unarmed(c) \subseteq timers
      /\ \A t \in timers : t.kind \in Timeouts[t.call]
  BY DEF Unarmed, Explained
<1>8. ASSUME NEW kept, NEW armed, armed \subseteq timers, StopQuota(kept, armed), UNCHANGED <<loop, error>>,
             \/ kept = attached /\ ending' = ending
             \/ /\ kept = Others(c) /\ e.kind \in Finals
                /\ ending' = {c} \/ (ending' = {} /\ status = "running" /\ calls[c].status = "cancelling")
      PROVE  Explained'
  <2>1. Cancel /\ attached' = kept /\ timers' \subseteq timers
    BY <1>8 DEF StopQuota, Publish
  <2>2. Left(c, kept)
    BY <1>6, <1>8
  <2> QED
    BY <1>1, <1>5, <1>8, <2>1, <2>2, ExplainedCancel
<1>9. ASSUME e.kind \in Finals, Rest(c), calls'[c].status \notin Unended, Publish(Others(c), Unarmed(c)),
             status' = "running" => status = "running" /\ \A k \in DOMAIN calls \ {c} : calls'[k] = calls[k],
             UNCHANGED <<loop, error, ending>>
      PROVE  Explained'
  <2>1. attached' = Others(c) /\ \A t \in timers' : t.kind \in Timeouts[t.call]
    BY <1>7, <1>9 DEF Publish
  <2> QED
    BY <1>1, <1>5, <1>6, <1>9, <2>1, ExplainedOperation DEF Unended
<1>12. CASE Ignore
  BY <1>1, <1>5, <1>12, TakenEvents, ExplainedAside DEF Ignore, Alive, IInv
<1>13. CASE ~Stale(e) /\ HandleCancel(e)
  <2>1. Cancel /\ attached' = attached /\ timers' \subseteq timers /\ UNCHANGED <<loop, error, ending>>
    BY <1>13 DEF HandleCancel, Publish
  <2> QED
    BY <1>5, <1>6, <2>1, ExplainedCancel
<1>14. CASE ~Stale(e) /\ HandleDeadline(e)
  BY <1>8, <1>14 DEF HandleDeadline
<1>15. CASE ~Stale(e) /\ HandleTimer(e)
  <2>1. e.kind \in {"call", "element"} /\ UNCHANGED <<loop, error, ending>>
    BY <1>15 DEF HandleTimer
  <2>2. CASE Refuse(TRUE, attached, timers)
    BY <1>8, <2>1, <2>2 DEF Refuse
  <2>3. CASE Apply(TimeOut(c, e.kind = "element"), attached, timers)
    <3>1. c \in DOMAIN calls /\ Timeouts[c] # {}
      BY <1>4, <2>1
    <3>2. TimeOut(c, FALSE) \/ TimeOut(c, TRUE)
      BY <2>1, <2>3 DEF Apply
    <3>3. Rest(c)
      BY <3>1, <3>2, CallSteps DEF IInv
    <3>4. Fail(SetStatus(c, "cancelling"))
      BY <3>2 DEF TimeOut
    <3>5. status' = "running" => status = "running" /\ \A k \in DOMAIN calls \ {c} : calls'[k] = calls[k]
      BY <3>1, <3>4, FailAlone, StatusSet DEF IInv
    <3>6. attached' = attached /\ \A t \in timers' : t.kind \in Timeouts[t.call]
      BY <1>7, <2>3 DEF Apply, Publish
    <3> QED
      BY <1>1, <1>5, <1>6, <2>1, <3>1, <3>3, <3>5, <3>6, ExplainedOperation
  <2> QED
    BY <1>0, <1>15, <2>2, <2>3 DEF HandleTimer
<1>16. CASE ~Stale(e) /\ HandleElement(e)
  <2>1. e.kind = "yielded" /\ UNCHANGED <<loop, error, ending>>
    BY <1>16 DEF HandleElement
  <2>2. CASE Refuse(TRUE, attached, timers \ ElementTimer(c))
    BY <1>7, <1>8, <2>1, <2>2 DEF Refuse
  <2>3. CASE Apply(Yield(c), attached, timers \ ElementTimer(c))
    <3>1. c \in DOMAIN calls
      BY <1>4, <2>1
    <3>2. Rest(c) /\ calls'[c].status = "running" /\ status = "running"
      BY <2>3, <3>1, CallSteps DEF IInv, Apply, Yield, Running
    <3>3. \A k \in DOMAIN calls \ {c} : calls'[k] = calls[k]
      BY <2>3 DEF Apply, Yield
    <3>4. c \in attached
      BY <2>3, <3>1, LiveAttached DEF Apply, Yield, LiveCalls, Live, Alive
    <3>5. attached' = attached /\ \A t \in timers' : t.kind \in Timeouts[t.call]
      BY <1>7, <2>3 DEF Apply, Publish
    <3> QED
      BY <1>1, <1>5, <1>6, <2>1, <3>2, <3>3, <3>4, <3>5, ExplainedOperation
  <2> QED
    BY <1>0, <1>16, <2>2, <2>3 DEF HandleElement
<1>17. CASE ~Stale(e) /\ HandleFinal(e)
  <2>1. e.kind \in Finals /\ c \in DOMAIN calls
    BY <1>17, <1>4 DEF HandleFinal, Finals
  <2>2. /\ Return(c) => Rest(c) /\ calls'[c].status \notin Unended
        /\ FailCall(c) => Rest(c) /\ calls'[c].status \notin Unended
        /\ Terminate(c) => Rest(c) /\ calls'[c].status \notin Unended
    BY <2>1, CallSteps DEF IInv
  <2>3. ASSUME Return(c) \/ FailCall(c) \/ Terminate(c)
        PROVE  status' = "running" => status = "running" /\ \A k \in DOMAIN calls \ {c} : calls'[k] = calls[k]
    <3>1. CASE Return(c)
      BY <2>1, <3>1, StatusSet DEF Return, IInv
    <3>2. CASE FailCall(c)
      BY <2>1, <3>2, FailAlone, StatusSet DEF FailCall, IInv
    <3>3. CASE Terminate(c)
      BY <2>1, <3>3, StatusSet DEF Terminate, IInv
    <3> QED
      BY <2>3, <3>1, <3>2, <3>3
  <2>4. CASE EndCancelled(c)
    <3>1. CASE Apply(Terminate(c), Others(c), Unarmed(c))
      BY <1>9, <2>1, <2>2, <2>3, <2>4, <3>1 DEF Apply, EndCancelled
    <3>2. CASE Refuse(FALSE, Others(c), Unarmed(c))
      BY <1>1, <1>7, <1>8, <2>1, <2>4, <3>2 DEF Refuse, Overdue, EndCancelled, Cancelling
    <3> QED
      BY <2>4, <3>1, <3>2 DEF EndCancelled
  <2>5. CASE EndByQuota(c)
    BY <1>7, <1>8, <2>1, <2>5 DEF EndByQuota
  <2>6. CASE EndReported(c, e.kind)
    BY <1>7, <1>8, <1>9, <2>1, <2>2, <2>3, <2>6 DEF EndReported, Apply, Refuse
  <2>7. CASE EndMisjudged(c) /\ e.kind = "badArm" /\ calls[c].status \in Live
    <3>1. CASE Apply(FailCall(c), Others(c), Unarmed(c)) /\ UNCHANGED <<loop, error, ending>>
      BY <1>9, <2>1, <2>2, <2>3, <3>1 DEF Apply
    <3>2. CASE Cancel /\ Throw("cannotEnd", Others(c)) /\ UNCHANGED ending
      <4>1. /\ DOMAIN calls' = DOMAIN calls /\ calls'[c].status = "cancelling" /\ status' = "stopping"
        BY <2>1, <2>7, <3>2, CancelStep DEF IInv, Rest, Unended
      <4>2. c \in Abandoned'
        BY <2>1, <3>2, <4>1 DEF Abandoned, Throw, Others
      <4>3. code'[c].final = "badArm"
        <5>1. DOMAIN code = DOMAIN calls /\ code[c].final = "badArm" /\ Typed
          BY <1>4, <2>1, <2>7 DEF IInv, Typed
        <5> QED
          BY <2>1, <3>2, <5>1, AbortAllFacts DEF Throw
      <4>4. ~Alive' /\ error' = "cannotEnd" /\ loop' = "broken" /\ timers' \subseteq timers
        BY <3>2 DEF Throw, Alive
      <4>5. (\A i \in DOMAIN events : events[i].kind \in {"call", "element"} => events[i].kind \in Timeouts[events[i].call])'
        BY <1>5, TakenEvents DEF Explained, IInv
      <4> QED
        BY <1>7, <4>1, <4>2, <4>3, <4>4, <4>5 DEF Explained
    <3> QED
      BY <2>7, <3>1, <3>2 DEF EndMisjudged
  <2> QED
    BY <1>0, <1>17, <2>4, <2>5, <2>6, <2>7 DEF HandleFinal
<1> QED
  BY <1>12, <1>13, <1>14, <1>15, <1>16, <1>17, <1>0 DEF Serve

\* The driver's own operations, and the end of a call that a quota stopped.
LEMMA ControlExplained ==
  ASSUME IInv, Explained, loop = "turn", Control \/ EndStopped
  PROVE  Explained'
<1>1. /\ Alive /\ \A t \in timers : t.kind \in Timeouts[t.call]
      /\ \A c : Left(c, attached) /\ (events' = events => Took(c))
  BY DEF Alive, Explained, Left, Took
<1>2. CASE EndStopped
  <2>1. PICK c \in ending : Terminate(c)
    BY <1>2 DEF EndStopped
  <2>2. c \in DOMAIN calls
    BY DEF IInv, Attached
  <2>3. /\ ending' = {} /\ attached' = attached /\ timers' \subseteq timers
        /\ UNCHANGED <<loop, error, events>> /\ \A k \in ending : k = c
    BY <1>2 DEF EndStopped, Publish, IInv, Attached
  <2>4. Rest(c) /\ calls'[c].status \notin Unended
    BY <2>1, <2>2, CallSteps DEF IInv
  <2>5. status' = status /\ \A k \in DOMAIN calls \ {c} : calls'[k] = calls[k]
    BY <2>1, <2>2, StatusSet DEF Terminate, IInv
  <2> QED
    BY <1>1, <2>3, <2>4, <2>5, ExplainedOperation DEF Unended
<1>3. CASE Control
  <2>1. events = <<>> /\ ending = {} /\ UNCHANGED <<loop, error, ending, events>>
    BY <1>3 DEF Control, Idle
  <2>2. ASSUME Refuse(TRUE, attached, timers) PROVE Explained'
    <3>1. PICK c : c = "none"
      OBVIOUS
    <3>2. Cancel /\ attached' = attached /\ timers' \subseteq timers
      BY <2>2 DEF Refuse, StopQuota, Publish
    <3> QED
      BY <1>1, <2>1, <3>2, ExplainedCancel
  <2>3. CASE \E c \in Fetchable : ControlFetch(c)
    <3>1. PICK c \in Fetchable : ControlFetch(c)
      BY <2>3
    <3>2. CASE /\ Fetch(c) /\ timers' = timers \cup Armed("element", c, calls[c].yields)
               /\ UNCHANGED <<attached, quota>>
      <4>1. c \in DOMAIN calls /\ calls[c].status = "running" /\ calls[c].status \in Live
        BY <3>1 DEF Fetchable, Live
      <4>2. c \in attached
        BY <1>1, <4>1, LiveAttached DEF LiveCalls
      <4>3. calls' = SetStatus(c, "fetching") /\ status' = status /\ cancelled' = cancelled /\ started' = started
        BY <3>2 DEF Fetch
      <4>4. /\ DOMAIN calls' = DOMAIN calls /\ calls'[c].status = "fetching"
            /\ \A k \in DOMAIN calls \ {c} : calls'[k] = calls[k]
        BY <4>1, <4>3, StatusSet DEF IInv
      <4>5. \A t \in timers' : t.kind \in Timeouts[t.call]
        BY <1>1, <3>2 DEF Armed, EventOf
      <4> QED
        BY <2>1, <3>2, <4>2, <4>3, <4>4, <4>5 DEF Explained, Alive, NotOver, Cancelling
    <3> QED
      BY <2>2, <3>1, <3>2 DEF ControlFetch
  <2>4. CASE \E c \in DOMAIN Kind : ControlCreate(c)
    <3>1. PICK c \in DOMAIN Kind : ControlCreate(c)
      BY <2>4
    <3>2. CASE /\ Create(c, "stream" \in Kind[c]) /\ timers' = timers \cup Armed("call", c, 0)
               /\ attached' = attached \cup {c}
      <4>1. /\ DOMAIN calls' = DOMAIN calls \cup {c} /\ calls'[c].status = "running" /\ status' = status
            /\ c \notin DOMAIN calls
            /\ \A k \in DOMAIN calls : calls'[k] = calls[k]
        BY <3>2 DEF Create
      <4>2. \A t \in timers' : t.kind \in Timeouts[t.call]
        BY <1>1, <3>2 DEF Armed, EventOf
      <4> QED
        BY <2>1, <3>2, <4>1, <4>2 DEF Explained, Alive, NotOver, Cancelling
    <3> QED
      BY <2>2, <3>1, <3>2 DEF ControlCreate
  <2>5. CASE ControlTransform
    <3>1. CASE Apply(FailTransform, attached, timers)
      <4>1. PICK c : c = "none"
        OBVIOUS
      <4>2. /\ Rest(c) /\ attached' = attached /\ timers' \subseteq timers
            /\ c \in DOMAIN calls => \/ calls'[c] = calls[c]
                                     \/ (calls[c].status \in Live /\ calls'[c].status = "cancelling")
        BY <3>1, TransformStep DEF Apply, Publish, IInv
      <4>3. status' = "running" => status = "running" /\ calls' = calls
        BY <3>1, FailAlone DEF Apply, FailTransform
      <4>4. c \in DOMAIN calls /\ calls'[c].status \in Unended => c \in attached \cup ending' \/ Timeouts[c] # {}
        BY <1>1, <2>1, <4>2, LiveAttached DEF Explained, NotOver, LiveCalls
      <4>5. c \in DOMAIN calls /\ status' = "running" /\ calls'[c].status = "cancelling" => Timeouts[c] # {}
        BY <4>3 DEF Explained, Cancelling
      <4> QED
        BY <1>1, <2>1, <4>2, <4>3, <4>4, <4>5, ExplainedOperation
    <3> QED
      BY <2>2, <2>5, <3>1 DEF ControlTransform
  <2>6. CASE Conclude /\ Publish(attached, timers)
    <3>1. calls' = calls /\ status' # "running" /\ attached' = attached /\ timers' \subseteq timers
      BY <2>6 DEF Conclude, Publish
    <3> QED
      BY <1>1, <2>1, <3>1 DEF Explained, Alive, NotOver
  <2> QED
    BY <1>3, <2>3, <2>4, <2>5, <2>6 DEF Control
<1> QED
  BY <1>2, <1>3

\* The loop stops for good: it is stuck, or its journal fails.
LEMMA BreakExplained ==
  ASSUME IInv, Explained, loop = "turn", Sleep \/ JournalFails
  PROVE  Explained'
<1>1. ASSUME NEW c, Took(c), UNCHANGED machineVars, NEW kept, Throw("journal", kept) PROVE Explained'
  <2>1. calls' = calls /\ status' = status /\ ~Alive' /\ error' = "journal" /\ loop' = "broken" /\ timers' \subseteq timers
    BY <1>1 DEF machineVars, Throw, Alive
  <2>2. (\A i \in DOMAIN events : events[i].kind \in {"call", "element"} => events[i].kind \in Timeouts[events[i].call])'
    BY <1>1, TakenEvents DEF Explained, IInv
  <2> QED
    BY <2>1, <2>2 DEF Explained, Cancelling
<1>2. CASE JournalFails
  <2>1. PICK c : c = Head(events).call
    OBVIOUS
  <2>2. Took(c) /\ UNCHANGED machineVars
    BY <1>2, <2>1 DEF JournalFails, Took
  <2> QED
    BY <1>1, <1>2, <2>2 DEF JournalFails
<1>3. CASE Sleep
  <2>1. events = <<>> /\ ending = {} /\ ~Quiet /\ UNCHANGED <<machineVars, ending, events>>
    BY <1>3 DEF Sleep, Idle
  <2>2. CASE loop' = "wait" /\ UNCHANGED <<error, attached, code, timers>>
    BY <2>1, <2>2, ExplainedAside DEF Alive
  <2>3. CASE attached = {} /\ Throw("stuck", {})
    <3>1. PICK c \in DOMAIN calls : calls[c].status \in Unended
      BY <2>1 DEF Quiet
    <3>2. calls[c].status = "cancelling"
      BY <2>3, <3>1, LiveAttached DEF LiveCalls, Alive, Unended
    <3>3. Timeouts[c] # {}
      BY <2>1, <2>3, <3>1 DEF Explained, NotOver, Alive
    <3>4. calls' = calls /\ status' = status /\ ~Alive' /\ error' = "stuck" /\ loop' = "broken" /\ timers' \subseteq timers
          /\ attached' = {}
      BY <2>1, <2>3 DEF machineVars, Throw, Alive
    <3>5. c \in Abandoned'
      BY <3>1, <3>2, <3>4 DEF Abandoned
    <3> QED
      BY <2>1, <3>3, <3>4, <3>5 DEF Explained, Cancelling
  <2> QED
    BY <1>3, <2>2, <2>3 DEF Sleep
<1> QED
  BY <1>2, <1>3

\* Another event, which is no timer's or of one that was armed.
LEMMA SentEvents ==
  ASSUME Reports, NEW e, Send(e), e.kind \notin {"call", "element"} \/ e \in timers
  PROVE  /\ \A i \in DOMAIN events' :
              \/ events'[i].kind \notin {"call", "element"}
              \/ events'[i] \in timers
              \/ \E j \in DOMAIN events : events'[i] = events[j]
         /\ Alive' <=> Alive
         /\ loop \in {"broken", "closed"} => loop' = loop
<1>1. IsSequence(events)
  BY DEF Reports, IsSequence
<1>2. events' = Append(events, e)
  BY DEF Send
<1>3. Alive' <=> Alive
  BY DEF Send, Alive
<1>4. loop \in {"broken", "closed"} => loop' = loop
  BY DEF Send
<1> QED
  BY <1>1, <1>2, <1>3, <1>4, AppendFacts

\* A stretch of a callback, which is in the map as long as it runs.
LEMMA CallbackExplained ==
  ASSUME IInv, Explained, NEW c \in DOMAIN code, CheckFetch(c) \/ UserCode(c)
  PROVE  Explained'
<1>1. code[c].at # "done" /\ c \in attached
  <2>1. code[c].at # "done" /\ DOMAIN code = DOMAIN calls
    BY DEF CheckFetch, UserCode, CodeReturns, IteratorMoves, IteratorCloses, IInv, Typed
  <2> QED
    BY <2>1 DEF IInv, Attached
<1>2. ASSUME NEW callback, Step(c, callback), NEW e, (UNCHANGED <<loop, events>>) \/ (Send(e) /\ e.kind \notin {"call", "element"})
      PROVE  Explained'
  <2>1. /\ \A i \in DOMAIN events' :
             \/ events'[i].kind \notin {"call", "element"}
             \/ events'[i] \in timers
             \/ \E j \in DOMAIN events : events'[i] = events[j]
        /\ Alive' => Alive
        /\ loop \in {"broken", "closed"} => loop' \in {"broken", "closed"}
    BY <1>2, SentEvents DEF IInv, Alive
  <2>2. UNCHANGED <<machineVars, error, ending, attached, timers>>
    BY <1>2 DEF Step
  <2>3. \A k \in DOMAIN calls \ attached : code'[k].final = code[k].final
    <3>1. DOMAIN code = DOMAIN calls /\ code' = [code EXCEPT ![c] = callback]
      BY <1>2 DEF Step, IInv, Typed
    <3> QED
      BY <1>1, <3>1
  <2> QED
    BY <2>1, <2>2, <2>3, ExplainedAside
<1>3. ASSUME NEW kind, kind \notin {"call", "element"}, Report(c, kind) PROVE Explained'
  <2>1. EventOf(kind, c, code[c].index).kind \notin {"call", "element"}
    BY <1>3 DEF EventOf
  <2> QED
    BY <1>2, <1>3, <2>1 DEF Report
<1>4. ASSUME NEW kind, Leave(c, kind) PROVE Explained'
  BY <1>2, <1>4 DEF Leave
<1>5. CASE CheckFetch(c)
  BY <1>2, <1>4, <1>5 DEF CheckFetch
<1>6. CASE CodeReturns(c)
  BY <1>2, <1>3, <1>6 DEF CodeReturns, Refused, Misjudged, Thrown
<1>7. CASE IteratorMoves(c)
  <2>1. EventOf("yielded", c, code[c].index).kind = "yielded"
    BY DEF EventOf
  <2> QED
    BY <1>2, <1>3, <1>4, <1>7, <2>1 DEF IteratorMoves
<1>8. CASE IteratorCloses(c)
  <2>1. code[c].final \in Finals
    BY DEF IInv, Typed, Callback
  <2> QED
    BY <1>3, <1>8, <2>1 DEF IteratorCloses, Finals
<1> QED
  BY <1>5, <1>6, <1>7, <1>8 DEF UserCode

\* Every step keeps the reasons.
LEMMA ExplainedStep == IInv /\ Explained /\ [DriverNext]_vars => Explained'
<1> SUFFICES ASSUME IInv, Explained, [DriverNext]_vars PROVE Explained'
  OBVIOUS
<1>1. CASE Boot
  <2>1. /\ calls' = calls /\ DOMAIN calls = {} /\ UNCHANGED <<error, events, timers>> /\ loop' = "turn" /\ error = "none"
    BY <1>1 DEF Boot, Start, IInv, Given, Explained
  <2> QED
    BY <2>1 DEF Explained
<1>2. CASE Turn
  BY <1>2, ServeExplained, ControlExplained, BreakExplained DEF Turn
<1>3. CASE Close
  <2>1. UNCHANGED <<machineVars, error, ending, events, timers, attached, code>> /\ loop' = "closed"
    BY <1>3 DEF Close
  <2> QED
    BY <2>1, ExplainedAside DEF Alive
<1>4. CASE \E c \in DOMAIN code : CheckFetch(c) \/ UserCode(c)
  BY <1>4, CallbackExplained
<1>5. ASSUME NEW e, Send(e), e.kind \notin {"call", "element"} \/ e \in timers, timers' \subseteq timers,
             UNCHANGED <<machineVars, error, ending, attached, code>>
      PROVE  Explained'
  BY <1>5, SentEvents, ExplainedAside DEF IInv
<1>6. CASE \E t \in timers : Fire(t)
  BY <1>5, <1>6 DEF Fire
<1>7. CASE RequestCancel
  <2>1. EventOf("cancel", "none", 0).kind = "cancel"
    BY DEF EventOf
  <2> QED
    BY <1>5, <1>7, <2>1 DEF RequestCancel
<1>8. CASE DeadlineFires
  <2>1. EventOf("deadline", "none", 0).kind = "deadline"
    BY DEF EventOf
  <2> QED
    BY <1>5, <1>8, <2>1 DEF DeadlineFires
<1>9. CASE DeadlinePasses \/ UNCHANGED vars
  <2>1. UNCHANGED <<machineVars, loop, error, ending, events, timers, attached, code>>
    BY <1>9 DEF DeadlinePasses, vars, driverVars
  <2> QED
    BY <2>1, ExplainedAside DEF Alive
<1> QED
  BY <1>1, <1>2, <1>3, <1>4, <1>6, <1>7, <1>8, <1>9 DEF DriverNext, Loop

\* The reasons are known throughout.
LEMMA AlwaysExplained == DriverSpec => [](IInv /\ Explained)
<1>1. DriverInit => Explained
  <2> SUFFICES ASSUME DriverInit PROVE Explained
    OBVIOUS
  <2>1. /\ calls = <<>> /\ loop = "boot" /\ error = "none" /\ events = <<>> /\ timers = {}
    BY DEF DriverInit, Init
  <2>2. DOMAIN calls = {} /\ DOMAIN events = {}
    BY <2>1
  <2> QED
    BY <2>1, <2>2 DEF Explained, Alive
<1> QED
  BY <1>1, InitIInv, StepIInv, ExplainedStep, PTL DEF DriverSpec

-----------------------------------------------------------------------------
(* The theorems *)

\* The invariant holds throughout.
LEMMA AlwaysIInv == DriverSpec => []IInv
BY InitIInv, StepIInv, PTL DEF DriverSpec

\* The map of callbacks, their abort signals and their timers are those that
\* the machine's calls need, for any number of calls with any timeouts.
THEOREM CallbacksAlwaysMatch == DriverSpec => []CallbacksMatchCalls
<1>1. IInv => CallbacksMatchCalls
  <2> SUFFICES ASSUME IInv, Alive PROVE CallbacksAttached /\ AbortsMatch /\ TimersMatch
    BY DEF CallbacksMatchCalls
  <2>1. CallbacksAttached
    <3>1. attached \subseteq {c \in DOMAIN calls : calls[c].status \in Unended}
      BY DEF IInv, Attached, NotOver
    <3>2. ending \subseteq {c \in DOMAIN calls : calls[c].status \in Unended}
      BY DEF IInv, Attached, Unended
    <3>3. clock = "early" \/ ~quota => {c \in DOMAIN calls : calls[c].status \in Unended} \subseteq attached \cup ending
      BY DEF IInv, Attached, NotOver
    <3> QED
      BY <3>1, <3>2, <3>3 DEF CallbacksAttached
  <2>2. AbortsMatch
    BY DEF AbortsMatch, IInv, Obeyed
  <2>3. TimersMatch
    BY DEF IInv, Obeyed
  <2> QED
    BY <2>1, <2>2, <2>3
<1> QED
  BY <1>1, AlwaysIInv, PTL

\* The elements of c that are queued.
LEMMA YieldingFacts ==
  ASSUME IInv, Alive, NEW c \in LiveCalls
  PROVE  /\ ~Coming(c) => Yielding(c) = {}
         /\ Coming(c) => \E e : Yielding(c) = {e}
<1>1. \A e : e \in Yielding(c) <=> \E i \in DOMAIN events : e = events[i] /\ events[i].kind = "yielded" /\ events[i].call = c
  BY DEF Yielding, Queued
<1>2. ASSUME Coming(c) PROVE \E e : Yielding(c) = {e}
  <2>1. PICK i \in DOMAIN events : events[i].kind = "yielded" /\ events[i].call = c
    BY <1>2 DEF Coming
  <2>2. Ahead(c)
    BY <1>2 DEF IInv, Fetched, Phase, Unasked, Asked, Moving, Ended
  <2>3. ASSUME NEW j \in DOMAIN events, events[j].kind = "yielded", events[j].call = c PROVE j = i
    BY <2>1, <2>2, <2>3 DEF Ahead, IInv, Reports
  <2>4. Yielding(c) = {events[i]}
    BY <1>1, <2>1, <2>3
  <2> QED
    BY <2>4
<1> QED
  BY <1>1, <1>2 DEF Coming

\* A fetch is neither lost nor doubled, whatever the generators do and for any
\* number of elements.
THEOREM FetchesAlwaysMatch == DriverSpec => []FetchesMatch
<1>1. IInv => FetchesMatch
  <2> SUFFICES ASSUME IInv, Alive
               PROVE  /\ EventsAreCurrent
                      /\ \A c \in LiveCalls : ElementsInOrder(c)
                      /\ \A c \in LiveCalls \cap attached :
                           calls[c].stream /\ code[c].at # "done" =>
                             (calls[c].status = "fetching" <=>
                                code[c].pending \/ code[c].at \in {"next", "leave"} \/ Yielding(c) # {})
    BY DEF FetchesMatch
  <2>1. EventsAreCurrent
    <3>1. SUFFICES ASSUME NEW e \in Queued, e.kind \in {"element", "yielded"}, calls[e.call].status = "fetching"
                   PROVE  e.index = calls[e.call].yields
      BY DEF EventsAreCurrent
    <3>2. PICK i \in DOMAIN events : e = events[i]
      BY <3>1 DEF Queued
    <3>3. CASE e.kind = "element"
      BY <3>1, <3>2, <3>3 DEF IInv, Fetched
    <3>4. CASE e.kind = "yielded"
      <4>1. PICK c : c = e.call
        OBVIOUS
      <4>2. c \in LiveCalls /\ Coming(c)
        BY <3>1, <3>2, <3>4, <4>1 DEF IInv, Reports, LiveCalls, Live, Coming
      <4>3. Ahead(c)
        BY <4>2 DEF IInv, Fetched, Phase, Unasked, Asked, Moving, Ended
      <4> QED
        BY <3>2, <3>4, <4>1, <4>3 DEF Ahead
    <3> QED
      BY <3>1, <3>3, <3>4
  <2>2. ASSUME NEW c \in LiveCalls PROVE ElementsInOrder(c)
    <3>1. Phase(c) /\ calls[c].yields \in Nat
      BY DEF IInv, Fetched, Lives, CallRecord, LiveCalls
    <3>2. CASE ~Coming(c)
      <4>1. Yielding(c) = {} /\ code[c].index = calls[c].yields
        BY <3>1, <3>2, YieldingFacts DEF Phase, Ahead
      <4>2. Cardinality(Yielding(c)) = 0
        BY <4>1, FS_EmptySet
      <4> QED
        BY <3>1, <4>1, <4>2 DEF ElementsInOrder
    <3>3. CASE Coming(c)
      <4>1. PICK e : Yielding(c) = {e}
        BY <3>3, YieldingFacts
      <4>2. Ahead(c) /\ code[c].index = calls[c].yields + 1
        BY <3>1, <3>3 DEF Phase, Unasked, Asked, Moving, Ended
      <4>3. Cardinality(Yielding(c)) = 1
        BY <4>1, FS_Singleton
      <4>4. \A v \in Yielding(c) : calls[c].status = "fetching" /\ v.index = calls[c].yields
        BY <4>2 DEF Yielding, Queued, Ahead
      <4> QED
        BY <4>2, <4>3, <4>4 DEF ElementsInOrder
    <3> QED
      BY <3>2, <3>3
  <2>3. ASSUME NEW c \in LiveCalls, code[c].at # "done"
        PROVE  calls[c].status = "fetching" <=>
                 code[c].pending \/ code[c].at \in {"next", "leave"} \/ Yielding(c) # {}
    <3>1. Phase(c)
      BY DEF IInv, Fetched
    <3>2. Yielding(c) # {} <=> Coming(c)
      BY YieldingFacts
    <3> QED
      BY <2>3, <3>1, <3>2 DEF Phase, Ahead, Unasked, Asked, Moving, Ended
  <2> QED
    BY <2>1, <2>2, <2>3
<1> QED
  BY <1>1, AlwaysIInv, PTL

\* When wait() settles, whatever the reason, no user code runs any more.
THEOREM NeverZombies == DriverSpec => []NoZombies
<1>1. IInv => NoZombies
  BY DEF IInv, Given, Typed, NoZombies
<1> QED
  BY <1>1, AlwaysIInv, PTL

\* The loop only fails by itself past the deadline, after a stop by quota:
\* stuck over a call with a timeout that was told to stop and whose callback
\* is gone, or giving up over a judge whose answer was rejected; and a quota is
\* never reported as a success.
THEOREM FailuresExplained == DriverSpec => []FailsOnlyOverdue
<1>1. IInv /\ Explained => FailsOnlyOverdue
  BY DEF IInv, Explained, Given, Lives, FailsOnlyOverdue, Terminal, Statuses
<1> QED
  BY <1>1, AlwaysExplained, PTL
=============================================================================
