---------------------------- MODULE GoDriverProofs ----------------------------
(***************************************************************************)
(* The safety properties of the Go driver for every set of calls, whatever *)
(* their timeouts, every number of elements and every capacity of the      *)
(* channel of events.                                                      *)
(*                                                                         *)
(* The invariant says what lies in each queue between the driver and the   *)
(* goroutines: Reports what is in the channel of events, Asking what the   *)
(* effects still ask for, Owing what the driver has to report to itself.   *)
(* Attended adds them up to the calls that have not ended; Fetched follows *)
(* a fetch from the machine through the effects to the generator and back; *)
(* Clocks follows a timer.  A loop that gave up leaves its effects undone, *)
(* so what relates the goroutines to the machine is only claimed while the *)
(* driver is driving.                                                      *)
(***************************************************************************)
EXTENDS MCGoDriver, FiniteSetTheorems, TLAPS

CallRecord == [stream: BOOLEAN, status: Unended \cup {"returned", "failed", "lost", "cancelled"}, yields: Nat]
Routine == [at: {"user", "select", "check", "next", "send", "exit", "over"}, fetch: BOOLEAN, cancelled: BOOLEAN,
            index: Nat, kind: {"yielded"} \cup Finals]

IsSequence(s) == s \in Seq({s[n] : n \in DOMAIN s})

\* The call has not ended.
NotOver(c) == calls[c].status \in Unended

\* An effect on c is still to be published.
Asks(kind, c) == \E i \in DOMAIN effects : effects[i].kind = kind /\ effects[i].call = c

\* The driver is to report the end of c to itself.
Owes(c) == \E i \in DOMAIN local : local[i] = c

\* An element of c is in the channel of events; the end of c is.
Coming(c) == \E i \in DOMAIN events : events[i].kind = "yielded" /\ events[i].call = c
Ending(c) == \E i \in DOMAIN events : events[i].kind \in Finals /\ events[i].call = c

-----------------------------------------------------------------------------
(* The invariant *)

\* What the calls promise by themselves.
Lives ==
  /\ status \in Statuses
  /\ cancelled \in BOOLEAN
  /\ started \in BOOLEAN
  /\ IsFiniteSet(DOMAIN calls)
  /\ \A c \in DOMAIN calls :
       /\ calls[c] \in CallRecord
       /\ calls[c].status \in Live => status = "running"
       /\ calls[c].status \in Unended => status \notin Terminal
  /\ cancelled => status \in {"stopping", "failed", "cancelled"}

Typed ==
  /\ phase \in {"boot", "pass", "publish", "drain", "abandon", "done"}
  /\ quota \in BOOLEAN
  /\ clock \in {"early", "late"}
  /\ \A c \in DOMAIN calls : calls[c].stream <=> "stream" \in Kind[c]
  /\ \A c \in DOMAIN code :
       /\ c \in DOMAIN calls
       /\ code[c] \in Routine
       /\ code[c].at \in {"check", "next"} \/ (code[c].at = "send" /\ code[c].kind = "yielded") => ~code[c].fetch

\* The channel of events: of each goroutine one end, which it sends as it
\* goes, and nothing of a goroutine that was never started.
Reports ==
  /\ IsSequence(events)
  /\ \A i \in DOMAIN events :
       /\ events[i].kind \in {"call", "element", "yielded"} \cup Finals
       /\ events[i].call \in DOMAIN code
       /\ events[i].kind \in Finals => events[i].call \in runtimes /\ code[events[i].call].at = "over"
  /\ \A i, j \in DOMAIN events :
       events[i].kind \in Finals /\ events[j].kind \in Finals /\ events[i].call = events[j].call => i = j
  /\ \A c \in DOMAIN code : c \notin runtimes => code[c].at = "over"
  /\ \A c \in runtimes :
       /\ c \in DOMAIN code
       /\ NotOver(c)
       /\ code[c].at = "over" => Ending(c)

\* The effects, in the order of the operations that ask for them.
Asking ==
  /\ IsSequence(effects)
  /\ \A i \in DOMAIN effects :
       /\ effects[i].kind \in {"start", "fetch", "cancel"}
       /\ effects[i].call \in DOMAIN calls
       /\ effects[i].kind = "start" =>
            effects[i].call \notin DOMAIN code /\ NotOver(effects[i].call) /\ ~Owes(effects[i].call)
       /\ effects[i].kind = "fetch" => calls[effects[i].call].stream /\ calls[effects[i].call].status # "running"
       /\ effects[i].kind = "cancel" => calls[effects[i].call].status \notin Live
       /\ phase = "drain" => effects[i].kind = "cancel"
  /\ \A i, j \in DOMAIN effects : effects[i].call = effects[j].call =>
       /\ effects[i].kind = "start" /\ effects[j].kind = "start" => i = j
       /\ effects[i].kind = "fetch" /\ effects[j].kind = "fetch" => i = j
       /\ effects[i].kind = "start" /\ effects[j].kind = "fetch" => i < j

\* The ends the driver reports to itself, and the second half of one that a
\* quota has interrupted.
Owing ==
  /\ IsSequence(local)
  /\ \A i \in DOMAIN local :
       local[i] \in DOMAIN calls /\ local[i] \notin DOMAIN code /\ calls[local[i]].status = "cancelling"
  /\ \A i, j \in DOMAIN local : local[i] = local[j] => i = j
  /\ \A c \in ending : c \in DOMAIN code /\ c \notin runtimes /\ calls[c].status = "cancelling"
  /\ \A c, d \in ending : c = d
  /\ ending # {} => phase \in {"pass", "drain"}

Attended ==
  Driving /\ (clock = "early" \/ ~quota) =>
    \A c \in DOMAIN calls : NotOver(c) => c \in runtimes \/ Asks("start", c) \/ Owes(c) \/ c \in ending

\* Whom the driver has told to stop, or will.
Obeyed ==
  Driving =>
    /\ \A c \in runtimes : calls[c].status = "cancelling" => code[c].cancelled \/ Asks("cancel", c)
    /\ \A c \in DOMAIN code : code[c].cancelled => calls[c].status \notin Live

\* Where a live call stands with its generator: not asked for an element, to
\* be asked, asked, moving on, or ahead by the element that is on its way;
\* or there is no generator yet.
Ready(c) == code[c].at \in {"user", "select", "over"} \/ (code[c].at = "send" /\ code[c].kind \in Finals)
Unasked(c) == calls[c].status = "running" /\ code[c].at = "select" /\ ~code[c].fetch /\ ~Asks("fetch", c) /\ ~Coming(c)
ToAsk(c) == calls[c].status = "fetching" /\ Ready(c) /\ ~code[c].fetch /\ Asks("fetch", c) /\ ~Coming(c)
Told(c) == calls[c].status = "fetching" /\ Ready(c) /\ code[c].fetch /\ ~Asks("fetch", c) /\ ~Coming(c)
Moving(c) == /\ calls[c].status = "fetching" /\ code[c].at \in {"check", "next", "send", "over"}
             /\ ~code[c].fetch /\ ~Asks("fetch", c) /\ ~Coming(c)
Ahead(c) == /\ calls[c].status = "fetching" /\ code[c].at = "select" /\ ~code[c].fetch /\ ~Asks("fetch", c)
            /\ Coming(c)
            /\ \A i, j \in DOMAIN events :
                 events[i].kind = "yielded" /\ events[i].call = c /\ events[j].kind = "yielded" /\ events[j].call = c
                   => i = j /\ events[i].index = calls[c].yields

Stands(c) ==
  IF c \in DOMAIN code
  THEN \/ Ahead(c) /\ code[c].index = calls[c].yields + 1
       \/ (Unasked(c) \/ ToAsk(c) \/ Told(c) \/ Moving(c)) /\ code[c].index = calls[c].yields
  ELSE calls[c].yields = 0 /\ (calls[c].status = "fetching" => Asks("fetch", c))

Fetched == Driving => \A c \in LiveCalls : calls[c].stream => Stands(c)

\* What a generator was asked for stays as it was asked.
Frozen ==
  \A c \in DOMAIN code :
    code[c].fetch \/ code[c].at \in {"check", "next"} => calls[c].status # "running" /\ calls[c].yields = code[c].index

\* Of each element there is one timer, wherever it is by now.
Timed(t) ==
  /\ t = EventOf(t.kind, t.call, t.index)
  /\ t.kind \in {"call", "element"}
  /\ t.call \in DOMAIN code
  /\ t.kind \in Timeouts[t.call]
  /\ t.kind = "element" =>
       /\ t.index \in Nat /\ t.index <= calls[t.call].yields
       /\ calls[t.call].status = "running" \/ Asks("fetch", t.call) => t.index < calls[t.call].yields

Clocks ==
  /\ \A t \in timers : Timed(t) /\ t \notin fired /\ \A i \in DOMAIN events : events[i] # t
  /\ \A t \in fired : Timed(t)
  /\ \A i \in DOMAIN events : events[i].kind \in {"call", "element"} => Timed(events[i])
  /\ Driving => \A t \in timers :
       /\ t.call \in runtimes
       /\ calls[t.call].status \in Live \/ Asks("cancel", t.call)
       /\ t.kind = "element" /\ calls[t.call].status \in Live =>
            calls[t.call].status = "fetching" /\ calls[t.call].yields = t.index

\* What a flush leaves.
Flushed == phase = "publish" => durable = calls /\ Fetchable = {} /\ (Going => ~Quiet)

Given ==
  /\ Driving => started
  /\ quota => cancelled
  /\ error = "stuck" => quota /\ clock = "late"
  /\ phase = "boot" => DOMAIN calls = {} /\ clock = "early"
  /\ phase = "done" => runtimes = {}

IInv ==
  /\ Lives /\ Typed /\ Reports /\ Asking /\ Owing /\ Attended /\ Obeyed /\ Fetched /\ Frozen
  /\ Clocks /\ Flushed /\ DurableFirst /\ Given

-----------------------------------------------------------------------------
(* Queues *)

\* A sequence over any set is a sequence over its own elements.
LEMMA OwnElements ==
  ASSUME NEW S, NEW s \in Seq(S)
  PROVE  IsSequence(s) /\ Len(s) \in Nat /\ DOMAIN s = 1..Len(s)
BY DEF IsSequence

\* What is left once the first element is taken.
LEMMA TailFacts ==
  ASSUME NEW s, IsSequence(s), s # <<>>
  PROVE  /\ IsSequence(Tail(s))
         /\ 1 \in DOMAIN s /\ Head(s) = s[1]
         /\ \A i \in DOMAIN Tail(s) : i \in Nat /\ i + 1 \in DOMAIN s /\ i + 1 # 1 /\ Tail(s)[i] = s[i + 1]
         /\ \A i \in DOMAIN s : i \in Nat /\ (i = 1 \/ (i - 1 \in DOMAIN Tail(s) /\ Tail(s)[i - 1] = s[i]))
<1> DEFINE S == {s[n] : n \in DOMAIN s}
           t == Tail(s)
<1>1. s \in Seq(S)
  BY DEF IsSequence
<1> HIDE DEF S
<1>2. t \in Seq(S) /\ Len(s) \in Nat /\ Len(s) # 0 /\ Len(t) = Len(s) - 1 /\ DOMAIN s = 1..Len(s) /\ DOMAIN t = 1..Len(t)
  BY <1>1
<1>3. \A i \in 1..Len(t) : t[i] = s[i + 1]
  BY <1>1, <1>2
<1>4. Head(s) = s[1]
  BY <1>1, <1>2
<1> HIDE DEF t
<1>5. IsSequence(t)
  BY <1>2, OwnElements
<1>6. \A i \in DOMAIN s : i \in Nat /\ (i = 1 \/ (i - 1 \in DOMAIN t /\ t[i - 1] = s[i]))
  BY <1>2, <1>3
<1>7. \A i \in DOMAIN t : i \in Nat /\ i + 1 \in DOMAIN s /\ i + 1 # 1 /\ t[i] = s[i + 1]
  BY <1>2, <1>3
<1> QED
  BY <1>2, <1>4, <1>5, <1>6, <1>7 DEF t

\* A queue is not what is left of it.
LEMMA EmptyTail ==
  ASSUME NEW s, IsSequence(s), s # <<>>
  PROVE  Tail(s) # s
<1> DEFINE S == {s[n] : n \in DOMAIN s}
<1>1. s \in Seq(S)
  BY DEF IsSequence
<1> HIDE DEF S
<1>2. Len(s) \in Nat /\ Len(s) # 0 /\ Len(Tail(s)) = Len(s) - 1
  BY <1>1
<1>3. ASSUME Tail(s) = s PROVE FALSE
  <2>1. Len(s) = Len(s) - 1
    BY <1>2, <1>3
  <2> QED
    BY <1>2, <2>1
<1> QED
  BY <1>3

\* u is the queue s with the queue t put behind it.
Follows(s, t, u) ==
  /\ IsSequence(u)
  /\ \A i \in DOMAIN s : i \in DOMAIN u /\ u[i] = s[i]
  /\ \A i \in DOMAIN u \ DOMAIN s :
       /\ i \in Nat /\ i - Len(s) \in DOMAIN t /\ u[i] = t[i - Len(s)]
       /\ \A j \in DOMAIN s : j < i
  /\ \A j \in DOMAIN t : j + Len(s) \in DOMAIN u /\ j + Len(s) \notin DOMAIN s /\ u[j + Len(s)] = t[j]

\* Concatenation does that.
LEMMA ConcatFacts ==
  ASSUME NEW s, IsSequence(s), NEW t, IsSequence(t)
  PROVE  Follows(s, t, s \o t)
<1> DEFINE S == {s[n] : n \in DOMAIN s} \cup {t[n] : n \in DOMAIN t}
           u == s \o t
<1>1. s \in Seq(S) /\ t \in Seq(S)
  BY DEF IsSequence
<1> HIDE DEF S
<1>2. /\ u \in Seq(S) /\ Len(s) \in Nat /\ Len(t) \in Nat /\ Len(u) = Len(s) + Len(t)
      /\ DOMAIN s = 1..Len(s) /\ DOMAIN t = 1..Len(t) /\ DOMAIN u = 1..Len(u)
  BY <1>1
<1>3. \A i \in 1..Len(u) : u[i] = IF i <= Len(s) THEN s[i] ELSE t[i - Len(s)]
  BY <1>1, <1>2
<1> HIDE DEF u
<1>4. IsSequence(u)
  BY <1>2, OwnElements
<1>5. \A i \in DOMAIN s : i \in DOMAIN u /\ u[i] = s[i]
  BY <1>2, <1>3
<1>6. \A i \in DOMAIN u \ DOMAIN s : /\ i \in Nat /\ i - Len(s) \in DOMAIN t /\ u[i] = t[i - Len(s)]
                                     /\ \A j \in DOMAIN s : j < i
  BY <1>2, <1>3
<1>7. \A j \in DOMAIN t : j + Len(s) \in DOMAIN u /\ j + Len(s) \notin DOMAIN s /\ u[j + Len(s)] = t[j]
  BY <1>2, <1>3
<1>8. Follows(s, t, u)
  BY <1>4, <1>5, <1>6, <1>7 DEF Follows
<1> QED
  BY <1>8 DEF u

\* A queue with another element.
LEMMA AppendFacts ==
  ASSUME NEW s, IsSequence(s), NEW e
  PROVE  /\ IsSequence(Append(s, e))
         /\ \A i \in DOMAIN Append(s, e) :
              \/ i \in DOMAIN s /\ Append(s, e)[i] = s[i]
              \/ i = Len(s) + 1 /\ i \notin DOMAIN s /\ Append(s, e)[i] = e
         /\ \A i \in DOMAIN s : i \in DOMAIN Append(s, e) /\ Append(s, e)[i] = s[i]
         /\ Len(s) + 1 \in DOMAIN Append(s, e) /\ Append(s, e)[Len(s) + 1] = e
<1> DEFINE S == {s[n] : n \in DOMAIN s} \cup {e}
           t == Append(s, e)
<1>1. s \in Seq(S) /\ e \in S
  BY DEF IsSequence
<1> HIDE DEF S
<1>2. t \in Seq(S) /\ Len(s) \in Nat /\ Len(t) = Len(s) + 1 /\ DOMAIN s = 1..Len(s) /\ DOMAIN t = 1..Len(t)
  BY <1>1
<1>3. (\A i \in 1..Len(s) : t[i] = s[i]) /\ t[Len(s) + 1] = e
  BY <1>1, <1>2
<1> HIDE DEF t
<1>4. IsSequence(t)
  BY <1>2, OwnElements
<1> QED
  BY <1>2, <1>3, <1>4 DEF t

\* s holds the elements of S.
Lists(s, S) ==
  /\ IsSequence(s)
  /\ \A i \in DOMAIN s : s[i] \in S
  /\ \A x \in S : \E i \in DOMAIN s : s[i] = x

\* A finite set can be put in some order.
LEMMA SetToSeqFacts ==
  ASSUME NEW S, IsFiniteSet(S)
  PROVE  Lists(SetToSeq(S), S)
<1> DEFINE n == Cardinality(S)
           s == SetToSeq(S)
<1>1. n \in Nat /\ ExistsBijection(1..n, S)
  BY FS_CardinalityType
<1>2. PICK b \in Bijection(1..n, S) : TRUE
  BY <1>1 DEF ExistsBijection
<1>3. b \in [1..n -> S] /\ IsInjective(b)
  BY <1>2 DEF Bijection, Injection
<1>4. s \in [1..n -> S] /\ IsInjective(s)
  BY <1>3 DEF SetToSeq
<1>5. s \in Seq(S)
  BY <1>1, <1>4
<1>6. IsFiniteSet(1..n) /\ Cardinality(1..n) = n
  BY <1>1, FS_Interval
<1>7. s \in Surjection(1..n, S)
  BY <1>4, <1>6, FS_Injection DEF Injection
<1> HIDE DEF n, s
<1>8. DOMAIN s = 1..n /\ \A x \in S : \E i \in DOMAIN s : s[i] = x
  BY <1>4, <1>7 DEF Surjection
<1> QED
  BY <1>4, <1>5, <1>8, OwnElements DEF s, Lists

-----------------------------------------------------------------------------
(* Operations on the calls *)

\* What an operation on the calls C does to the calls: the others go on, or a
\* stop cancels them.
Rest(C) ==
  /\ Lives'
  /\ DOMAIN calls' = DOMAIN calls \cup C
  /\ cancelled => cancelled'
  /\ started' = started
  /\ \A k \in DOMAIN calls : (calls'[k].stream <=> calls[k].stream)
  /\ \A k \in DOMAIN calls \ C :
       \/ calls'[k] = calls[k]
       \/ /\ calls[k].status \in Live
          /\ calls'[k].status = "cancelling"
          /\ calls'[k].yields = calls[k].yields
          /\ status' = "stopping"

\* Cancelling what is live, in any table of calls.
LEMMA CancelLiveRest ==
  ASSUME NEW table, \A k \in DOMAIN table : table[k] \in CallRecord
  PROVE  /\ DOMAIN CancelLive(table) = DOMAIN table
         /\ \A k \in DOMAIN table :
              /\ CancelLive(table)[k] \in CallRecord
              /\ (CancelLive(table)[k].stream <=> table[k].stream)
              /\ CancelLive(table)[k].yields = table[k].yields
              /\ table[k].status \in Live => CancelLive(table)[k].status = "cancelling"
              /\ table[k].status \notin Live => CancelLive(table)[k] = table[k]
BY DEF CancelLive, CallRecord, Unended, Live

\* A cancel leaves no call live.
LEMMA CancelStep ==
  ASSUME Lives, Cancel
  PROVE  /\ Rest({})
         /\ cancelled' /\ status' = "stopping"
         /\ \A k \in DOMAIN calls :
              /\ calls'[k].status \notin Live
              /\ calls[k].status \in Unended => calls'[k].status = "cancelling"
<1>1. /\ DOMAIN calls' = DOMAIN calls
      /\ \A k \in DOMAIN calls :
              /\ calls'[k] \in CallRecord
              /\ (calls'[k].stream <=> calls[k].stream)
              /\ calls'[k].yields = calls[k].yields
              /\ calls[k].status \in Live => calls'[k].status = "cancelling"
              /\ calls[k].status \notin Live => calls'[k] = calls[k]
  BY CancelLiveRest DEF Cancel, Lives
<1>2. cancelled' /\ status' = "stopping" /\ started' = started
  BY DEF Cancel
<1>3. Lives'
  BY <1>1, <1>2 DEF Lives, Statuses, Terminal, Unended, Live
<1> QED
  BY <1>1, <1>2, <1>3 DEF Rest, Unended, Live

\* A call gets another status.
LEMMA StatusSet ==
  ASSUME NEW c \in DOMAIN calls, NEW s, Lives
  PROVE  /\ DOMAIN SetStatus(c, s) = DOMAIN calls
         /\ s \in Unended \cup {"returned", "failed", "lost", "cancelled"} => SetStatus(c, s)[c] \in CallRecord
         /\ SetStatus(c, s)[c].status = s
         /\ (SetStatus(c, s)[c].stream <=> calls[c].stream)
         /\ SetStatus(c, s)[c].yields = calls[c].yields
         /\ \A k \in DOMAIN calls \ {c} : SetStatus(c, s)[k] = calls[k]
BY DEF SetStatus, Lives, CallRecord

\* A failure of the calls C.
LEMMA FailRest ==
  ASSUME Lives, status = "running", NEW C, C \subseteq DOMAIN calls, NEW table, Fail(table),
         DOMAIN table = DOMAIN calls,
         \A k \in DOMAIN calls : table[k] \in CallRecord /\ (table[k].stream <=> calls[k].stream),
         \A k \in DOMAIN calls \ C : table[k] = calls[k]
  PROVE  /\ Rest(C)
         /\ \A k \in C : table[k].status \notin Live => calls'[k] = table[k]
<1>1. CASE calls' = table /\ status' = status /\ started' = started /\ cancelled' = cancelled
  <2>1. Lives'
    BY <1>1 DEF Lives, Terminal, Statuses
  <2> QED
    BY <1>1, <2>1 DEF Rest
<1>2. CASE calls' = CancelLive(table) /\ status' = "stopping" /\ started' = started /\ cancelled' = cancelled
  <2>1. /\ DOMAIN calls' = DOMAIN table
        /\ \A k \in DOMAIN calls :
              /\ calls'[k] \in CallRecord
              /\ (calls'[k].stream <=> table[k].stream)
              /\ calls'[k].yields = table[k].yields
              /\ table[k].status \in Live => calls'[k].status = "cancelling"
              /\ table[k].status \notin Live => calls'[k] = table[k]
    BY <1>2, CancelLiveRest
  <2>2. Lives'
    BY <1>2, <2>1 DEF Lives, Terminal, Statuses, Live, Unended
  <2> QED
    BY <2>1, <2>2, <1>2 DEF Rest
<1> QED
  BY <1>1, <1>2 DEF Fail

\* c gets the status s, and the execution goes on.
LEMMA StatusRest ==
  ASSUME Lives, NEW c \in DOMAIN calls, NEW s, s \in Unended \cup {"returned", "failed", "lost", "cancelled"},
         calls' = SetStatus(c, s), status' = status, started' = started, cancelled' = cancelled,
         s \in Unended => calls[c].status \in Unended,
         s \in Live => calls[c].status \in Live
  PROVE  Rest({c}) /\ calls'[c].status = s /\ calls'[c].yields = calls[c].yields
<1>1. /\ DOMAIN calls' = DOMAIN calls
      /\ calls'[c] \in CallRecord /\ calls'[c].status = s
      /\ (calls'[c].stream <=> calls[c].stream) /\ calls'[c].yields = calls[c].yields
      /\ \A k \in DOMAIN calls \ {c} : calls'[k] = calls[k]
  BY StatusSet
<1>2. Lives'
  BY <1>1 DEF Lives
<1> QED
  BY <1>1, <1>2 DEF Rest

\* What each operation does to its own call.
LEMMA CallSteps ==
  ASSUME Lives, NEW c \in DOMAIN calls
  PROVE  /\ TimeOut(c, FALSE) \/ TimeOut(c, TRUE) =>
              Rest({c}) /\ calls'[c].status = "cancelling" /\ calls'[c].yields = calls[c].yields
         /\ Return(c) \/ FailCall(c) \/ Terminate(c) =>
              Rest({c}) /\ calls'[c].status \notin Unended /\ calls'[c].yields = calls[c].yields
         /\ Fetch(c) => Rest({c}) /\ calls'[c].status = "fetching" /\ calls'[c].yields = calls[c].yields
         /\ Yield(c) => Rest({c}) /\ calls'[c].status = "running" /\ calls'[c].yields = calls[c].yields + 1
<1>1. ASSUME TimeOut(c, FALSE) \/ TimeOut(c, TRUE)
      PROVE  Rest({c}) /\ calls'[c].status = "cancelling" /\ calls'[c].yields = calls[c].yields
  <2>1. status = "running" /\ Fail(SetStatus(c, "cancelling"))
    BY <1>1 DEF TimeOut, Running
  <2> DEFINE table == SetStatus(c, "cancelling")
  <2>2. /\ DOMAIN table = DOMAIN calls /\ table[c].status = "cancelling" /\ table[c].yields = calls[c].yields
        /\ table[c] \in CallRecord /\ (table[c].stream <=> calls[c].stream)
        /\ \A k \in DOMAIN calls \ {c} : table[k] = calls[k]
    BY StatusSet DEF Unended
  <2> HIDE DEF table
  <2>3. \A k \in DOMAIN calls : table[k] \in CallRecord /\ (table[k].stream <=> calls[k].stream)
    BY <2>2 DEF Lives
  <2>4. Rest({c}) /\ (table[c].status \notin Live => calls'[c] = table[c])
    BY <2>1, <2>2, <2>3, FailRest DEF table
  <2> QED
    BY <2>2, <2>4 DEF Live
<1>2. ASSUME FailCall(c)
      PROVE  Rest({c}) /\ calls'[c].status \notin Unended /\ calls'[c].yields = calls[c].yields
  <2>1. status = "running" /\ Fail(SetStatus(c, "failed"))
    BY <1>2 DEF FailCall, Running
  <2> DEFINE table == SetStatus(c, "failed")
  <2>2. /\ DOMAIN table = DOMAIN calls /\ table[c].status = "failed" /\ table[c].yields = calls[c].yields
        /\ table[c] \in CallRecord /\ (table[c].stream <=> calls[c].stream)
        /\ \A k \in DOMAIN calls \ {c} : table[k] = calls[k]
    BY StatusSet
  <2> HIDE DEF table
  <2>3. \A k \in DOMAIN calls : table[k] \in CallRecord /\ (table[k].stream <=> calls[k].stream)
    BY <2>2 DEF Lives
  <2>4. Rest({c}) /\ (table[c].status \notin Live => calls'[c] = table[c])
    BY <2>1, <2>2, <2>3, FailRest DEF table
  <2> QED
    BY <2>2, <2>4 DEF Live, Unended
<1>3. ASSUME Return(c) \/ Terminate(c)
      PROVE  Rest({c}) /\ calls'[c].status \notin Unended /\ calls'[c].yields = calls[c].yields
  <2>1. PICK s \in {"returned", "cancelled"} :
          calls' = SetStatus(c, s) /\ status' = status /\ started' = started /\ cancelled' = cancelled
    BY <1>3 DEF Return, Terminate
  <2>2. s \notin Unended
    BY <2>1 DEF Unended, Live
  <2> QED
    BY <2>1, <2>2, StatusRest DEF Live, Unended
<1>4. ASSUME Fetch(c)
      PROVE  Rest({c}) /\ calls'[c].status = "fetching" /\ calls'[c].yields = calls[c].yields
  <2>1. /\ calls' = SetStatus(c, "fetching") /\ status' = status /\ started' = started /\ cancelled' = cancelled
        /\ calls[c].status = "running"
    BY <1>4 DEF Fetch
  <2> QED
    BY <2>1, StatusRest DEF Live, Unended
<1>5. ASSUME Yield(c)
      PROVE  Rest({c}) /\ calls'[c].status = "running" /\ calls'[c].yields = calls[c].yields + 1
  <2>1. /\ calls' = [calls EXCEPT ![c] = [stream |-> TRUE, status |-> "running", yields |-> @.yields + 1]]
        /\ status' = status /\ started' = started /\ cancelled' = cancelled
        /\ status = "running" /\ calls[c].stream
    BY <1>5 DEF Yield, Running
  <2>2. /\ DOMAIN calls' = DOMAIN calls
        /\ calls'[c] = [stream |-> TRUE, status |-> "running", yields |-> calls[c].yields + 1]
        /\ \A k \in DOMAIN calls \ {c} : calls'[k] = calls[k]
    BY <2>1
  <2>3. calls[c].yields + 1 \in Nat
    BY DEF Lives, CallRecord
  <2>4. [stream |-> TRUE, status |-> "running", yields |-> calls[c].yields + 1] \in CallRecord
    BY <2>3 DEF CallRecord, Unended, Live
  <2>5. calls'[c].stream <=> calls[c].stream
    BY <2>1, <2>2
  <2>6. Lives'
    BY <2>1, <2>2, <2>4 DEF Lives, Terminal
  <2> QED
    BY <2>1, <2>2, <2>5, <2>6 DEF Rest
<1> QED
  BY <1>1, <1>2, <1>3, <1>4, <1>5

\* Operations on no call: a transform that failed, and the conclusion.
LEMMA OtherSteps ==
  ASSUME Lives
  PROVE  /\ FailTransform => Rest({})
         /\ Conclude => Rest({}) /\ calls' = calls
<1>1. ASSUME FailTransform PROVE Rest({})
  <2>1. status = "running" /\ Fail(calls)
    BY <1>1 DEF FailTransform, Running
  <2> QED
    BY <2>1, FailRest DEF Lives
<1>2. ASSUME Conclude PROVE Rest({}) /\ calls' = calls
  <2>1. /\ calls' = calls /\ started' = started /\ cancelled' = cancelled
        /\ \A c \in DOMAIN calls : calls[c].status \notin Unended
    BY <1>2 DEF Conclude, Quiet
  <2>2. status' \in {"failed", "cancelled", "succeeded", "skipped"}
    BY <1>2 DEF Conclude
  <2>3. cancelled => status = "stopping"
    BY <1>2 DEF Conclude, Going, Lives
  <2>4. cancelled => status' \in {"failed", "cancelled"}
    BY <1>2, <2>3 DEF Conclude
  <2>5. Lives'
    BY <2>1, <2>2, <2>4 DEF Lives, Statuses, Unended
  <2> QED
    BY <2>1, <2>5 DEF Rest
<1> QED
  BY <1>1, <1>2

\* A new call.
LEMMA CreateStep ==
  ASSUME Lives, NEW c, NEW stream \in BOOLEAN, Create(c, stream)
  PROVE  /\ Rest({c})
         /\ c \notin DOMAIN calls
         /\ calls'[c] = [stream |-> stream, status |-> "running", yields |-> 0]
<1>1. /\ DOMAIN calls' = DOMAIN calls \cup {c} /\ c \notin DOMAIN calls
      /\ calls'[c] = [stream |-> stream, status |-> "running", yields |-> 0]
      /\ \A k \in DOMAIN calls : calls'[k] = calls[k]
      /\ status' = status /\ started' = started /\ cancelled' = cancelled /\ status = "running"
  BY DEF Create, Running
<1>2. IsFiniteSet(DOMAIN calls')
  BY <1>1, FS_AddElement DEF Lives
<1>3. calls'[c] \in CallRecord
  BY <1>1 DEF CallRecord, Unended, Live
<1>4. Lives'
  BY <1>1, <1>2, <1>3 DEF Lives, Terminal
<1> QED
  BY <1>1, <1>4 DEF Rest

-----------------------------------------------------------------------------
(* What an operation asks for *)

\* The effects E of an operation are queued, and those of a stop it caused.
Grows(E) ==
  /\ IsSequence(effects')
  /\ \A i \in DOMAIN effects : i \in DOMAIN effects' /\ effects'[i] = effects[i]
  /\ \A i \in DOMAIN effects' \ DOMAIN effects :
       /\ \A j \in DOMAIN effects : j < i
       /\ \/ effects'[i] \in E
          \/ /\ effects'[i].kind = "cancel"
             /\ effects'[i].call \in DOMAIN calls' /\ calls'[effects'[i].call].status = "cancelling"
  /\ \A i, j \in DOMAIN effects' \ DOMAIN effects :
       effects'[i].kind # "cancel" /\ effects'[j].kind # "cancel" => i = j
  /\ \A e \in E : \E i \in DOMAIN effects' : effects'[i] = e
  /\ status = "running" /\ status' = "stopping" =>
       \A c \in DOMAIN calls' : calls'[c].status = "cancelling" =>
         \E i \in DOMAIN effects' : effects'[i].kind = "cancel" /\ effects'[i].call = c

\* The calls a stop cancels, as effects.
LEMMA StopFacts ==
  ASSUME NEW C, IsFiniteSet(C)
  PROVE  Lists(SetToSeq({EffectOf("cancel", c) : c \in C}), {EffectOf("cancel", c) : c \in C})
<1> DEFINE T == {EffectOf("cancel", c) : c \in C}
           f == [c \in C |-> EffectOf("cancel", c)]
<1>1. f \in Surjection(C, T)
  <2>1. f \in [C -> T]
    OBVIOUS
  <2>2. \A t \in T : \E c \in C : f[c] = t
    OBVIOUS
  <2> QED
    BY <2>1, <2>2 DEF Surjection
<1> HIDE DEF f, T
<1>2. IsFiniteSet(T)
  BY <1>1, FS_Surjection
<1>3. Lists(SetToSeq(T), T)
  BY <1>2, SetToSeqFacts
<1> QED
  BY <1>3 DEF T

\* An operation that asks for the effect E, or for none.
LEMMA ObserveGrows ==
  ASSUME IsFiniteSet(DOMAIN calls'), IsSequence(effects), NEW own, NEW E, Observe(own),
         (own = <<>> /\ E = {}) \/ (\E e : own = <<e>> /\ E = {e})
  PROVE  Grows(E)
<1> DEFINE C == {k \in DOMAIN calls' : calls'[k].status = "cancelling"}
           T == {EffectOf("cancel", c) : c \in C}
           hit == status = "running" /\ status' = "stopping"
           Stops == IF hit THEN SetToSeq(T) ELSE <<>>
           Mid == effects \o own
<1>1. effects' = Mid \o Stops
  BY DEF Observe
<1>2. IsFiniteSet(C)
  BY FS_Subset
<1>3. \A c \in C : c \in DOMAIN calls' /\ calls'[c].status = "cancelling"
  OBVIOUS
<1>4. \A c \in DOMAIN calls' : calls'[c].status = "cancelling" => c \in C
  OBVIOUS
<1> HIDE DEF C
<1>5. \A t \in T : t.kind = "cancel" /\ t.call \in C
  BY DEF EffectOf
<1>6. \A c \in C : \E t \in T : t.kind = "cancel" /\ t.call = c
  <2> SUFFICES ASSUME NEW c \in C PROVE \E t \in T : t.kind = "cancel" /\ t.call = c
    OBVIOUS
  <2>1. EffectOf("cancel", c) \in T
    OBVIOUS
  <2> QED
    BY <2>1 DEF EffectOf
<1>7. Lists(SetToSeq(T), T)
  BY <1>2, StopFacts
<1> HIDE DEF T
<1>8. \A s : s = <<>> => IsSequence(s) /\ DOMAIN s = {}
  <2> SUFFICES ASSUME NEW s, s = <<>> PROVE IsSequence(s) /\ DOMAIN s = {}
    OBVIOUS
  <2>1. s \in Seq({}) /\ DOMAIN s = {}
    OBVIOUS
  <2> QED
    BY <2>1, OwnElements
<1>9. /\ IsSequence(Stops)
      /\ \A i \in DOMAIN Stops : Stops[i] \in T
      /\ hit => Lists(Stops, T)
  <2>1. CASE hit
    BY <1>7, <2>1 DEF Lists
  <2>2. CASE ~hit
    BY <1>8, <2>2
  <2> QED
    BY <2>1, <2>2
<1> HIDE DEF Stops, hit
<1>10. /\ IsSequence(own)
       /\ \A i \in DOMAIN own : i = 1 /\ own[i] \in E
       /\ \A e \in E : \E i \in DOMAIN own : own[i] = e
  <2>1. CASE own = <<>> /\ E = {}
    BY <1>8, <2>1
  <2>2. ASSUME NEW e, own = <<e>>, E = {e} PROVE <1>10!1 /\ <1>10!2 /\ <1>10!3
    <3>1. own \in Seq({e}) /\ DOMAIN own = {1} /\ own[1] = e
      BY <2>2
    <3>2. IsSequence(own)
      BY <3>1, OwnElements
    <3> QED
      BY <2>2, <3>1, <3>2
  <2> QED
    BY <2>1, <2>2
<1>11. Follows(effects, own, Mid)
  BY <1>10, ConcatFacts
<1> HIDE DEF Mid
<1>12. IsSequence(Mid)
  BY <1>11 DEF Follows
<1>13. Follows(Mid, Stops, effects')
  BY <1>1, <1>9, <1>12, ConcatFacts
<1>14. Len(effects) \in Nat
  BY OwnElements DEF IsSequence
<1>15. \A i \in DOMAIN Mid \ DOMAIN effects :
         i = 1 + Len(effects) /\ Mid[i] \in E /\ \A j \in DOMAIN effects : j < i
  BY <1>10, <1>11, <1>14 DEF Follows
<1>16. \A i \in DOMAIN effects : i \in DOMAIN effects' /\ effects'[i] = effects[i]
  BY <1>11, <1>13 DEF Follows
<1>17. \A i \in DOMAIN effects' \ DOMAIN Mid : effects'[i] \in T /\ \A j \in DOMAIN Mid : j < i
  BY <1>9, <1>13 DEF Follows
<1>18. \A i \in DOMAIN effects' \ DOMAIN effects :
         /\ \A j \in DOMAIN effects : j < i
         /\ \/ i = 1 + Len(effects) /\ effects'[i] \in E
            \/ effects'[i].kind = "cancel" /\ effects'[i].call \in C
  <2> SUFFICES ASSUME NEW i \in DOMAIN effects' \ DOMAIN effects
               PROVE  /\ \A j \in DOMAIN effects : j < i
                      /\ \/ i = 1 + Len(effects) /\ effects'[i] \in E
                         \/ effects'[i].kind = "cancel" /\ effects'[i].call \in C
    OBVIOUS
  <2>1. CASE i \in DOMAIN Mid
    <3>1. effects'[i] = Mid[i]
      BY <1>13, <2>1 DEF Follows
    <3> QED
      BY <1>15, <2>1, <3>1
  <2>2. CASE i \notin DOMAIN Mid
    <3>1. \A j \in DOMAIN effects : j \in DOMAIN Mid
      BY <1>11 DEF Follows
    <3> QED
      BY <1>5, <1>17, <2>2, <3>1
  <2> QED
    BY <2>1, <2>2
<1>19. \A e \in E : \E i \in DOMAIN effects' : effects'[i] = e
  <2> SUFFICES ASSUME NEW e \in E PROVE \E i \in DOMAIN effects' : effects'[i] = e
    OBVIOUS
  <2>1. PICK j \in DOMAIN own : own[j] = e
    BY <1>10
  <2>2. PICK i \in DOMAIN Mid : Mid[i] = e
    BY <1>11, <2>1 DEF Follows
  <2> QED
    BY <1>13, <2>2 DEF Follows
<1>20. hit => \A c \in C : \E i \in DOMAIN effects' : effects'[i].kind = "cancel" /\ effects'[i].call = c
  <2> SUFFICES ASSUME hit, NEW c \in C
               PROVE  \E i \in DOMAIN effects' : effects'[i].kind = "cancel" /\ effects'[i].call = c
    OBVIOUS
  <2>1. PICK t \in T : t.kind = "cancel" /\ t.call = c
    BY <1>6
  <2>2. PICK j \in DOMAIN Stops : Stops[j] = t
    BY <1>9 DEF Lists
  <2> QED
    BY <1>13, <2>1, <2>2 DEF Follows
<1>21. IsSequence(effects')
  BY <1>13 DEF Follows
<1>22. \A i, j \in DOMAIN effects' \ DOMAIN effects :
         effects'[i].kind # "cancel" /\ effects'[j].kind # "cancel" => i = j
  BY <1>18
<1>23. hit <=> status = "running" /\ status' = "stopping"
  BY DEF hit
<1> QED
  BY <1>3, <1>4, <1>16, <1>18, <1>19, <1>20, <1>21, <1>22, <1>23 DEF Grows

-----------------------------------------------------------------------------
(* What an operation leaves as it was *)

\* At most one event is taken, an end with its goroutine.
Takes ==
  \/ events' = events /\ runtimes' = runtimes
  \/ /\ events # <<>>
     /\ events' = Tail(events)
     /\ \/ Head(events).kind \in Finals /\ runtimes' = runtimes \ {Head(events).call}
        \/ Head(events).kind \notin Finals /\ runtimes' = runtimes

\* The channel stays in order while events are taken.
LEMMA TakenReports ==
  ASSUME Reports, Takes, code' = code, \A c \in runtimes' : NotOver(c)'
  PROVE  Reports'
<1>1. CASE events' = events /\ runtimes' = runtimes
  BY <1>1 DEF Reports, Ending
<1>2. CASE /\ events # <<>> /\ events' = Tail(events)
           /\ \/ Head(events).kind \in Finals /\ runtimes' = runtimes \ {Head(events).call}
              \/ Head(events).kind \notin Finals /\ runtimes' = runtimes
  <2>1. /\ IsSequence(events')
        /\ 1 \in DOMAIN events /\ Head(events) = events[1]
        /\ \A i \in DOMAIN events' : i \in Nat /\ i + 1 \in DOMAIN events /\ i + 1 # 1 /\ events'[i] = events[i + 1]
        /\ \A i \in DOMAIN events : i \in Nat /\ (i = 1 \/ (i - 1 \in DOMAIN events' /\ events'[i - 1] = events[i]))
    BY <1>2, TailFacts DEF Reports
  <2>2. ASSUME NEW i \in DOMAIN events'
        PROVE  /\ events'[i].kind \in {"call", "element", "yielded"} \cup Finals
               /\ events'[i].call \in DOMAIN code
               /\ events'[i].kind \in Finals => events'[i].call \in runtimes' /\ code[events'[i].call].at = "over"
    BY <1>2, <2>1, <2>2 DEF Reports
  <2>3. ASSUME NEW i \in DOMAIN events', NEW j \in DOMAIN events',
               events'[i].kind \in Finals, events'[j].kind \in Finals, events'[i].call = events'[j].call
        PROVE  i = j
    <3>1. i + 1 = j + 1
      BY <2>1, <2>3 DEF Reports
    <3> QED
      BY <2>1, <3>1
  <2>4. ASSUME NEW c \in DOMAIN code, c \notin runtimes' PROVE code[c].at = "over"
    BY <1>2, <2>1, <2>4 DEF Reports
  <2>5. ASSUME NEW c \in runtimes' PROVE c \in DOMAIN code /\ (code[c].at = "over" => Ending(c)')
    <3>1. c \in runtimes
      BY <1>2, <2>5
    <3>2. ASSUME code[c].at = "over" PROVE Ending(c)'
      <4>1. PICK i \in DOMAIN events : events[i].kind \in Finals /\ events[i].call = c
        BY <3>1, <3>2 DEF Reports, Ending
      <4>2. i # 1
        BY <1>2, <2>1, <2>5, <4>1
      <4> QED
        BY <2>1, <4>1, <4>2 DEF Ending
    <3> QED
      BY <3>1, <3>2 DEF Reports
  <2> QED
    BY <2>1, <2>2, <2>3, <2>4, <2>5 DEF Reports
<1> QED
  BY <1>1, <1>2 DEF Takes

\* What handling it leaves alone.
Frame ==
  /\ Takes
  /\ UNCHANGED <<code, fired, clock, durable, error>>
  /\ timers' \subseteq timers
  /\ Driving /\ phase' \in {"pass", "drain"}
  /\ quota' \in BOOLEAN /\ (quota => quota') /\ (quota' => cancelled')
  /\ phase' = "drain" => \A i \in DOMAIN effects : effects[i].kind = "cancel"

\* An operation on the calls C that asks for the effects E.
Operates(C, E) == Rest(C) /\ Grows(E) /\ Frame

\* What it takes and leaves of the others.
Spares(C) ==
  /\ events' # events /\ Head(events).kind \in {"yielded"} \cup Finals => Head(events).call \in C
  /\ \A t \in timers' : t.call \in runtimes => t.call \in runtimes'
  /\ \/ local' = local
     \/ local # <<>> /\ local' = Tail(local) /\ Head(local) \in C
  /\ \A c \in ending : c \in ending' \/ c \in C
  /\ \A c \in ending' : c \in DOMAIN code /\ c \notin runtimes' /\ calls'[c].status = "cancelling"
  /\ \A c, d \in ending' : c = d

\* What it asks for.
Wants(C, E) ==
  \A e \in E :
    /\ e.call \in C
    /\ e.kind \in {"start", "fetch", "cancel"}
    /\ e.kind = "start" => e.call \notin DOMAIN calls /\ NotOver(e.call)'
    /\ e.kind = "fetch" => calls'[e.call].stream /\ calls'[e.call].status # "running" /\ ~Asks("fetch", e.call)
    /\ e.kind = "cancel" => calls'[e.call].status \notin Live
    /\ phase' = "drain" => e.kind = "cancel"

\* What becomes of its own calls.
Own(k) ==
  /\ calls'[k].stream <=> "stream" \in Kind[k]
  /\ k \in runtimes' => NotOver(k)'
  /\ Asks("start", k) => NotOver(k)'
  /\ Asks("fetch", k) => calls'[k].status # "running"
  /\ Asks("cancel", k) \/ (k \in DOMAIN code /\ code[k].cancelled) => calls'[k].status \notin Live
  /\ Owes(k)' => calls'[k].status = "cancelling"
  /\ (clock = "early" \/ ~quota') /\ NotOver(k)' =>
       k \in runtimes' \/ Asks("start", k)' \/ Owes(k)' \/ k \in ending'
  /\ k \in runtimes' /\ calls'[k].status = "cancelling" => code[k].cancelled \/ Asks("cancel", k)'
  /\ calls'[k].status \in Live /\ calls'[k].stream => Stands(k)'
  /\ k \in DOMAIN code =>
       /\ code[k].fetch \/ code[k].at \in {"check", "next"} =>
            calls'[k].status # "running" /\ calls'[k].yields = calls[k].yields
       /\ calls[k].yields <= calls'[k].yields
       /\ calls'[k].status = "running" \/ Asks("fetch", k)' =>
            calls[k].status = "running" \/ Asks("fetch", k) \/ calls[k].yields < calls'[k].yields
  /\ \A t \in timers' : t.call = k =>
       /\ calls'[k].status \in Live \/ Asks("cancel", k)'
       /\ t.kind = "element" /\ calls'[k].status \in Live =>
            calls'[k].status = "fetching" /\ calls'[k].yields = t.index

\* The effects that are waiting, before and after.
LEMMA GrownAsks ==
  ASSUME NEW C, NEW E, Grows(E), Wants(C, E)
  PROVE  /\ \A kind, k : Asks(kind, k) => Asks(kind, k)'
         /\ \A k : k \notin C /\ Asks("fetch", k)' => Asks("fetch", k)
         /\ \A e \in E : Asks(e.kind, e.call)'
         /\ status = "running" /\ status' = "stopping" =>
              \A k \in DOMAIN calls' : calls'[k].status = "cancelling" => Asks("cancel", k)'
<1>1. ASSUME NEW kind, NEW k, Asks(kind, k) PROVE Asks(kind, k)'
  BY <1>1 DEF Asks, Grows
<1>2. ASSUME NEW k, k \notin C, Asks("fetch", k)' PROVE Asks("fetch", k)
  <2>1. PICK i \in DOMAIN effects' : effects'[i].kind = "fetch" /\ effects'[i].call = k
    BY <1>2 DEF Asks
  <2>2. i \in DOMAIN effects
    BY <1>2, <2>1 DEF Grows, Wants
  <2>3. effects'[i] = effects[i]
    BY <2>2 DEF Grows
  <2> QED
    BY <2>1, <2>2, <2>3 DEF Asks
<1>3. ASSUME NEW e \in E PROVE Asks(e.kind, e.call)'
  BY DEF Asks, Grows
<1>4. status = "running" /\ status' = "stopping" =>
        \A k \in DOMAIN calls' : calls'[k].status = "cancelling" => Asks("cancel", k)'
  BY DEF Asks, Grows
<1> QED
  BY <1>1, <1>2, <1>3, <1>4

\* The calls of others, before and after.
LEMMA RestFacts ==
  ASSUME IInv, NEW C, NEW E, Operates(C, E), Wants(C, E), NEW k \in DOMAIN calls, k \notin C
  PROVE  /\ k \in DOMAIN calls'
         /\ (calls'[k].stream <=> calls[k].stream)
         /\ calls'[k].yields = calls[k].yields
         /\ calls'[k].status \in Live => calls'[k] = calls[k]
         /\ NotOver(k)' <=> NotOver(k)
         /\ calls[k].status = "cancelling" => calls'[k].status = "cancelling"
         /\ calls'[k].status = "cancelling" => calls[k].status = "cancelling" \/ Asks("cancel", k)'
         /\ calls[k].status \in Live => calls'[k].status \in Live \/ Asks("cancel", k)'
         /\ calls'[k].status = "running" => calls[k].status = "running"
<1>1. CASE calls'[k] = calls[k]
  BY <1>1 DEF Operates, Frame, Rest, NotOver
<1>2. CASE /\ calls[k].status \in Live
           /\ calls'[k].status = "cancelling"
           /\ calls'[k].yields = calls[k].yields
           /\ status' = "stopping"
  <2>1. status = "running" /\ k \in DOMAIN calls'
    BY <1>2 DEF IInv, Lives, Operates, Frame, Rest
  <2>2. Asks("cancel", k)'
    BY <1>2, <2>1, GrownAsks DEF Operates, Frame
  <2> QED
    BY <1>2, <2>1, <2>2 DEF Operates, Frame, Rest, NotOver, Live, Unended
<1> QED
  BY <1>1, <1>2 DEF Operates, Frame, Rest

\* The effects stay in order.
LEMMA AskingKeeps ==
  ASSUME IInv, NEW C, NEW E, Operates(C, E), Spares(C), Wants(C, E), \A k \in C : Own(k)
  PROVE  Asking'
<1>1. /\ IsSequence(effects')
      /\ \A i \in DOMAIN effects : i \in DOMAIN effects' /\ effects'[i] = effects[i]
      /\ \A i \in DOMAIN effects' \ DOMAIN effects :
           /\ \A j \in DOMAIN effects : j < i
           /\ effects'[i] \in E \/ (effects'[i].kind = "cancel" /\ effects'[i].call \in DOMAIN calls'
                                      /\ calls'[effects'[i].call].status = "cancelling")
      /\ \A i, j \in DOMAIN effects' \ DOMAIN effects :
           effects'[i].kind # "cancel" /\ effects'[j].kind # "cancel" => i = j
  BY DEF Operates, Frame, Grows
<1>2. DOMAIN calls' = DOMAIN calls \cup C /\ DOMAIN code' = DOMAIN code /\ \A k : Owes(k)' => Owes(k)
  <2>1. CASE local' = local
    BY <2>1 DEF Operates, Frame, Rest, Owes
  <2>2. CASE local # <<>> /\ local' = Tail(local)
    <3>1. \A i \in DOMAIN local' : i + 1 \in DOMAIN local /\ local'[i] = local[i + 1]
      BY <2>2, TailFacts DEF IInv, Owing
    <3> QED
      BY <3>1 DEF Operates, Frame, Rest, Owes
  <2> QED
    BY <2>1, <2>2 DEF Spares
<1>3. ASSUME NEW i \in DOMAIN effects
      PROVE  /\ effects[i].kind \in {"start", "fetch", "cancel"}
             /\ effects[i].call \in DOMAIN calls'
             /\ effects[i].kind = "start" =>
                  /\ effects[i].call \notin DOMAIN code /\ calls'[effects[i].call].status \in Unended
                  /\ \A j \in DOMAIN local' : local'[j] # effects[i].call
             /\ effects[i].kind = "fetch" => calls'[effects[i].call].stream /\ calls'[effects[i].call].status # "running"
             /\ effects[i].kind = "cancel" => calls'[effects[i].call].status \notin Live
             /\ phase' = "drain" => effects[i].kind = "cancel"
  <2>0. PICK k : k = effects[i].call
    OBVIOUS
  <2>1. /\ effects[i].kind \in {"start", "fetch", "cancel"} /\ k \in DOMAIN calls
        /\ effects[i].kind = "start" => k \notin DOMAIN code /\ NotOver(k) /\ ~Owes(k)
        /\ effects[i].kind = "fetch" => calls'[k].stream /\ calls[k].status # "running"
        /\ effects[i].kind = "cancel" => calls[k].status \notin Live
        /\ Asks(effects[i].kind, k)
    BY <2>0 DEF IInv, Asking, Asks, Operates, Rest
  <2>2. phase' = "drain" => effects[i].kind = "cancel"
    BY DEF Operates, Frame
  <2>5. (\A j \in DOMAIN local' : local'[j] # k) <=> ~Owes(k)'
    BY DEF Owes
  <2>3. CASE k \in C
    <3>1. Own(k)
      BY <2>3
    <3> QED
      BY <1>2, <2>0, <2>1, <2>2, <2>5, <3>1 DEF Own, NotOver
  <2>4. CASE k \notin C
    <3>1. /\ NotOver(k)' <=> NotOver(k)
          /\ calls'[k].status \in Live => calls'[k] = calls[k]
          /\ calls'[k].status = "running" => calls[k].status = "running"
      BY <2>1, <2>4, RestFacts
    <3> QED
      BY <1>2, <2>0, <2>1, <2>2, <2>5, <3>1 DEF NotOver
  <2> QED
    BY <2>3, <2>4
<1>4. ASSUME NEW i \in DOMAIN effects', i \notin DOMAIN effects
      PROVE  /\ effects'[i].kind \in {"start", "fetch", "cancel"}
             /\ effects'[i].call \in DOMAIN calls'
             /\ effects'[i].kind = "start" =>
                  /\ effects'[i].call \notin DOMAIN code /\ calls'[effects'[i].call].status \in Unended
                  /\ \A j \in DOMAIN local' : local'[j] # effects'[i].call
                  /\ \A j \in DOMAIN effects : effects[j].call # effects'[i].call
             /\ effects'[i].kind = "fetch" =>
                  /\ calls'[effects'[i].call].stream /\ calls'[effects'[i].call].status # "running"
                  /\ \A j \in DOMAIN effects : effects[j].kind = "fetch" => effects[j].call # effects'[i].call
             /\ effects'[i].kind = "cancel" => calls'[effects'[i].call].status \notin Live
             /\ phase' = "drain" => effects'[i].kind = "cancel"
  <2>1. CASE effects'[i] \in E
    <3>0. PICK e \in E : e = effects'[i]
      BY <2>1
    <3>6. PICK c : c = e.call
      OBVIOUS
    <3>1. /\ c \in DOMAIN calls'
          /\ e.kind \in {"start", "fetch", "cancel"}
          /\ e.kind = "start" => c \notin DOMAIN calls /\ calls'[c].status \in Unended
          /\ e.kind = "fetch" => calls'[c].stream /\ calls'[c].status # "running" /\ ~Asks("fetch", c)
          /\ e.kind = "cancel" => calls'[c].status \notin Live
          /\ phase' = "drain" => e.kind = "cancel"
      BY <1>2, <3>6 DEF Wants, NotOver
    <3>2. \A k : Owes(k) => k \in DOMAIN calls
      BY DEF IInv, Owing, Owes
    <3>3. c \notin DOMAIN calls =>
            c \notin DOMAIN code /\ ~Owes(c)' /\ \A j \in DOMAIN effects : effects[j].call # c
      BY <1>2, <3>2 DEF IInv, Typed, Asking
    <3>4. e.kind = "fetch" => \A j \in DOMAIN effects : effects[j].kind = "fetch" => effects[j].call # c
      BY <3>1 DEF Asks
    <3>5. (\A j \in DOMAIN local' : local'[j] # c) <=> ~Owes(c)'
      BY DEF Owes
    <3> QED
      BY <3>0, <3>6, <3>1, <3>3, <3>4, <3>5
  <2>2. CASE /\ effects'[i].kind = "cancel" /\ effects'[i].call \in DOMAIN calls'
             /\ calls'[effects'[i].call].status = "cancelling"
    BY <2>2 DEF Live
  <2> QED
    BY <1>1, <1>4, <2>1, <2>2
<1>5. ASSUME NEW i \in DOMAIN effects', NEW j \in DOMAIN effects', effects'[i].call = effects'[j].call
      PROVE  /\ effects'[i].kind = "start" /\ effects'[j].kind = "start" => i = j
             /\ effects'[i].kind = "fetch" /\ effects'[j].kind = "fetch" => i = j
             /\ effects'[i].kind = "start" /\ effects'[j].kind = "fetch" => i < j
  <2>1. CASE i \in DOMAIN effects /\ j \in DOMAIN effects
    <3>1. effects'[i] = effects[i] /\ effects'[j] = effects[j]
      BY <1>1, <2>1
    <3> QED
      BY <1>5, <2>1, <3>1 DEF IInv, Asking
  <2>2. CASE i \in DOMAIN effects /\ j \notin DOMAIN effects
    <3>1. effects'[i] = effects[i] /\ i < j
      BY <1>1, <2>2
    <3> QED
      BY <1>4, <1>5, <2>2, <3>1
  <2>3. CASE i \notin DOMAIN effects /\ j \in DOMAIN effects
    <3>1. effects'[j] = effects[j]
      BY <1>1, <2>3
    <3> QED
      BY <1>4, <1>5, <2>3, <3>1
  <2>4. CASE i \notin DOMAIN effects /\ j \notin DOMAIN effects
    <3>1. effects'[i].kind # "cancel" /\ effects'[j].kind # "cancel" => i = j
      BY <1>1, <2>4
    <3> QED
      BY <3>1
  <2> QED
    BY <2>1, <2>2, <2>3, <2>4
<1>6. ASSUME NEW i \in DOMAIN effects'
      PROVE  /\ effects'[i].kind \in {"start", "fetch", "cancel"}
             /\ effects'[i].call \in DOMAIN calls'
             /\ effects'[i].kind = "start" =>
                  /\ effects'[i].call \notin DOMAIN code /\ calls'[effects'[i].call].status \in Unended
                  /\ \A j \in DOMAIN local' : local'[j] # effects'[i].call
             /\ effects'[i].kind = "fetch" => calls'[effects'[i].call].stream /\ calls'[effects'[i].call].status # "running"
             /\ effects'[i].kind = "cancel" => calls'[effects'[i].call].status \notin Live
             /\ phase' = "drain" => effects'[i].kind = "cancel"
  <2>1. CASE i \in DOMAIN effects
    <3>1. effects'[i] = effects[i]
      BY <1>1, <2>1
    <3> QED
      BY <1>3, <2>1, <3>1
  <2>2. CASE i \notin DOMAIN effects
    BY <1>4, <2>2
  <2> QED
    BY <2>1, <2>2
<1> QED
  BY <1>1, <1>2, <1>5, <1>6 DEF Asking, NotOver, Owes

\* What the driver owes itself stays owed.
LEMMA OwingKeeps ==
  ASSUME IInv, NEW C, NEW E, Operates(C, E), Spares(C), Wants(C, E), \A k \in C : Own(k)
  PROVE  /\ Owing'
         /\ \A k : Owes(k) => Owes(k)' \/ k \in C
<1>1. /\ IsSequence(local')
      /\ \A i \in DOMAIN local' : \E j \in DOMAIN local : local'[i] = local[j]
      /\ \A i, j \in DOMAIN local' : local'[i] = local'[j] => i = j
      /\ \A k : Owes(k) => Owes(k)' \/ k \in C
  <2>1. CASE local' = local
    BY <2>1 DEF IInv, Owing, Owes
  <2>2. CASE local # <<>> /\ local' = Tail(local) /\ Head(local) \in C
    <3>1. /\ IsSequence(local')
          /\ Head(local) = local[1]
          /\ \A i \in DOMAIN local' : i \in Nat /\ i + 1 \in DOMAIN local /\ local'[i] = local[i + 1]
          /\ \A i \in DOMAIN local : i = 1 \/ (i - 1 \in DOMAIN local' /\ local'[i - 1] = local[i])
      BY <2>2, TailFacts DEF IInv, Owing
    <3>2. ASSUME NEW i \in DOMAIN local', NEW j \in DOMAIN local', local'[i] = local'[j] PROVE i = j
      <4>1. i + 1 = j + 1
        BY <3>1, <3>2 DEF IInv, Owing
      <4> QED
        BY <3>1, <4>1
    <3>3. ASSUME NEW k, Owes(k) PROVE Owes(k)' \/ k \in C
      BY <2>2, <3>1, <3>3 DEF Owes
    <3> QED
      BY <3>1, <3>2, <3>3
  <2> QED
    BY <2>1, <2>2 DEF Spares
<1>2. ASSUME NEW i \in DOMAIN local'
      PROVE local'[i] \in DOMAIN calls' /\ local'[i] \notin DOMAIN code' /\ calls'[local'[i]].status = "cancelling"
  <2>1. PICK k : k = local'[i]
    OBVIOUS
  <2>2. k \in DOMAIN calls /\ k \notin DOMAIN code /\ calls[k].status = "cancelling"
    BY <1>1, <2>1 DEF IInv, Owing
  <2>3. calls'[k].status = "cancelling"
    <3>1. CASE k \in C
      <4>1. Own(k) /\ Owes(k)'
        BY <2>1, <3>1 DEF Owes
      <4> QED
        BY <4>1 DEF Own
    <3>2. CASE k \notin C
      BY <2>2, <3>2, RestFacts
    <3> QED
      BY <3>1, <3>2
  <2> QED
    BY <2>1, <2>2, <2>3 DEF Operates, Frame, Rest
<1>3. /\ \A c \in ending' : c \in DOMAIN code' /\ c \notin runtimes' /\ calls'[c].status = "cancelling"
      /\ \A c, d \in ending' : c = d
      /\ phase' \in {"pass", "drain"}
  BY DEF Spares, Operates, Frame
<1> QED
  BY <1>1, <1>2, <1>3 DEF Owing

\* Who is in the driver's map after a step that takes events for C only.
LEMMA RuntimesKept ==
  ASSUME Reports, Takes, NEW C, Spares(C)
  PROVE  runtimes' \subseteq runtimes /\ \A k \in runtimes : k \in runtimes' \/ k \in C
<1>1. CASE events' = events /\ runtimes' = runtimes
  BY <1>1
<1>2. CASE events # <<>> /\ events' = Tail(events) /\ Head(events).kind \in Finals
           /\ runtimes' = runtimes \ {Head(events).call}
  <2>1. CASE events' = events
    <3>1. FALSE
      BY <1>2, <2>1, EmptyTail DEF Reports
    <3> QED
      BY <3>1
  <2>2. CASE events' # events
    BY <1>2, <2>2 DEF Spares
  <2> QED
    BY <2>1, <2>2
<1> QED
  BY <1>1, <1>2 DEF Takes

\* Every call that has not ended is still attended.
LEMMA AttendedKeeps ==
  ASSUME IInv, NEW C, NEW E, Operates(C, E), Spares(C), Wants(C, E), \A k \in C : Own(k)
  PROVE  Attended'
<1> SUFFICES ASSUME Driving', (clock = "early" \/ ~quota)', NEW k \in DOMAIN calls', NotOver(k)'
             PROVE  k \in runtimes' \/ Asks("start", k)' \/ Owes(k)' \/ k \in ending'
  BY DEF Attended
<1>1. clock = "early" \/ ~quota'
  BY DEF Operates, Frame
<1>2. CASE k \in C
  <2>1. Own(k)
    BY <1>2
  <2> QED
    BY <1>1, <2>1 DEF Own
<1>3. CASE k \notin C
  <2>1. k \in DOMAIN calls
    BY <1>3 DEF Operates, Frame, Rest
  <2>2. NotOver(k)
    BY <1>3, <2>1, RestFacts
  <2>3. k \in runtimes \/ Asks("start", k) \/ Owes(k) \/ k \in ending
    BY <1>1, <2>1, <2>2 DEF IInv, Attended, Operates, Frame
  <2>4. k \in runtimes => k \in runtimes'
    BY <1>3, RuntimesKept DEF IInv, Operates, Frame
  <2>5. Asks("start", k) => Asks("start", k)'
    BY GrownAsks DEF Operates, Frame
  <2>6. Owes(k) => Owes(k)'
    BY <1>3, OwingKeeps
  <2>7. k \in ending => k \in ending'
    BY <1>3 DEF Spares
  <2> QED
    BY <2>3, <2>4, <2>5, <2>6, <2>7
<1> QED
  BY <1>2, <1>3

\* Whom the driver has told to stop is still being cancelled.
LEMMA ObeyedKeeps ==
  ASSUME IInv, NEW C, NEW E, Operates(C, E), Spares(C), Wants(C, E), \A k \in C : Own(k)
  PROVE  Obeyed'
<1>1. ASSUME NEW k \in runtimes', calls'[k].status = "cancelling" PROVE code[k].cancelled \/ Asks("cancel", k)'
  <2>1. CASE k \in C
    <3>1. Own(k)
      BY <2>1
    <3> QED
      BY <1>1, <3>1 DEF Own
  <2>2. CASE k \notin C
    <3>1. k \in runtimes
      BY RuntimesKept DEF IInv, Operates, Frame
    <3>2. k \in DOMAIN calls
      BY <3>1 DEF IInv, Reports, Typed
    <3>3. calls[k].status = "cancelling" \/ Asks("cancel", k)'
      BY <1>1, <2>2, <3>2, RestFacts
    <3>4. calls[k].status = "cancelling" => code[k].cancelled \/ Asks("cancel", k)
      BY <3>1 DEF IInv, Obeyed, Operates, Frame
    <3>5. Asks("cancel", k) => Asks("cancel", k)'
      BY GrownAsks DEF Operates, Frame
    <3> QED
      BY <3>3, <3>4, <3>5
  <2> QED
    BY <2>1, <2>2
<1>2. ASSUME NEW k \in DOMAIN code, code[k].cancelled PROVE calls'[k].status \notin Live
  <2>1. CASE k \in C
    <3>1. Own(k)
      BY <2>1
    <3> QED
      BY <1>2, <3>1 DEF Own
  <2>2. CASE k \notin C
    <3>1. k \in DOMAIN calls
      BY DEF IInv, Typed
    <3>2. calls'[k].status \in Live => calls'[k] = calls[k]
      BY <2>2, <3>1, RestFacts
    <3> QED
      BY <1>2, <3>2 DEF IInv, Obeyed, Operates, Frame
  <2> QED
    BY <2>1, <2>2
<1> QED
  BY <1>1, <1>2 DEF Obeyed, Operates, Frame

\* What a generator was asked for stays as it was asked.
LEMMA FrozenKeeps ==
  ASSUME IInv, NEW C, NEW E, Operates(C, E), Spares(C), Wants(C, E), \A k \in C : Own(k)
  PROVE  Frozen'
<1> SUFFICES ASSUME NEW k \in DOMAIN code, code[k].fetch \/ code[k].at \in {"check", "next"}
             PROVE  calls'[k].status # "running" /\ calls'[k].yields = code[k].index
  BY DEF Frozen, Operates, Frame
<1>1. calls[k].status # "running" /\ calls[k].yields = code[k].index /\ k \in DOMAIN calls
  BY DEF IInv, Frozen, Typed
<1>2. CASE k \in C
  <2>1. Own(k)
    BY <1>2
  <2> QED
    BY <1>1, <2>1 DEF Own
<1>3. CASE k \notin C
  BY <1>1, <1>3, RestFacts
<1> QED
  BY <1>2, <1>3

\* What is on its way from others.
LEMMA ComingKept ==
  ASSUME IInv, NEW C, NEW E, Operates(C, E), Spares(C), NEW k, k \notin C
  PROVE  /\ Coming(k)' <=> Coming(k)
         /\ Ahead(k) => \A i, j \in DOMAIN events' :
              events'[i].kind = "yielded" /\ events'[i].call = k /\ events'[j].kind = "yielded" /\ events'[j].call = k
                => i = j /\ events'[i].index = calls[k].yields
<1>1. CASE events' = events
  BY <1>1 DEF Coming, Ahead
<1>2. CASE events # <<>> /\ events' = Tail(events)
  <2>1. /\ 1 \in DOMAIN events /\ Head(events) = events[1]
        /\ \A i \in DOMAIN events' : i \in Nat /\ i + 1 \in DOMAIN events /\ events'[i] = events[i + 1]
        /\ \A i \in DOMAIN events : i = 1 \/ (i - 1 \in DOMAIN events' /\ events'[i - 1] = events[i])
    BY <1>2, TailFacts DEF IInv, Reports
  <2>2. ~(events[1].kind = "yielded" /\ events[1].call = k)
    BY <1>2, <2>1, EmptyTail DEF Spares, IInv, Reports
  <2>3. Coming(k) => Coming(k)'
    BY <2>1, <2>2 DEF Coming
  <2>4. Coming(k)' => Coming(k)
    BY <2>1 DEF Coming
  <2>5. ASSUME Ahead(k), NEW i \in DOMAIN events', NEW j \in DOMAIN events',
               events'[i].kind = "yielded", events'[i].call = k, events'[j].kind = "yielded", events'[j].call = k
        PROVE  i = j /\ events'[i].index = calls[k].yields
    <3>1. i + 1 = j + 1 /\ events[i + 1].index = calls[k].yields
      BY <2>1, <2>5 DEF Ahead
    <3> QED
      BY <2>1, <3>1
  <2> QED
    BY <2>3, <2>4, <2>5
<1> QED
  BY <1>1, <1>2 DEF Operates, Frame, Takes

\* A fetch stays where it is.
LEMMA FetchedKeeps ==
  ASSUME IInv, NEW C, NEW E, Operates(C, E), Spares(C), Wants(C, E), \A k \in C : Own(k)
  PROVE  Fetched'
<1> SUFFICES ASSUME NEW k \in DOMAIN calls', calls'[k].status \in Live, calls'[k].stream
             PROVE  Stands(k)'
  BY DEF Fetched, LiveCalls
<1>1. CASE k \in C
  <2>1. Own(k)
    BY <1>1
  <2> QED
    BY <2>1 DEF Own
<1>2. CASE k \notin C
  <2>1. k \in DOMAIN calls
    BY <1>2 DEF Operates, Frame, Rest
  <2>2. calls'[k] = calls[k]
    BY <1>2, <2>1, RestFacts
  <2>3. Stands(k)
    BY <2>1, <2>2 DEF IInv, Fetched, LiveCalls, Operates, Frame
  <2>4. Asks("fetch", k)' <=> Asks("fetch", k)
    BY <1>2, GrownAsks DEF Operates, Frame
  <2>5. /\ Coming(k)' <=> Coming(k)
        /\ Ahead(k) => \A i, j \in DOMAIN events' :
             events'[i].kind = "yielded" /\ events'[i].call = k /\ events'[j].kind = "yielded" /\ events'[j].call = k
               => i = j /\ events'[i].index = calls'[k].yields
    BY <1>2, <2>2, ComingKept
  <2>6. code' = code
    BY DEF Operates, Frame
  <2>7. Ahead(k) => Ahead(k)'
    BY <2>2, <2>4, <2>5, <2>6 DEF Ahead
  <2>8. /\ Unasked(k) => Unasked(k)'
        /\ ToAsk(k) => ToAsk(k)'
        /\ Told(k) => Told(k)'
        /\ Moving(k) => Moving(k)'
    BY <2>2, <2>4, <2>5, <2>6 DEF Unasked, ToAsk, Told, Moving, Ready
  <2> QED
    BY <2>2, <2>3, <2>4, <2>6, <2>7, <2>8 DEF Stands
<1> QED
  BY <1>1, <1>2

\* The timers stay those of the elements that are waited for.
LEMMA ClocksKeeps ==
  ASSUME IInv, NEW C, NEW E, Operates(C, E), Spares(C), Wants(C, E), \A k \in C : Own(k)
  PROVE  Clocks'
<1>1. ASSUME NEW t, Timed(t) PROVE Timed(t)'
  <2>1. PICK k : k = t.call
    OBVIOUS
  <2>2. k \in DOMAIN code /\ k \in DOMAIN calls /\ calls[k].yields \in Nat
    BY <1>1, <2>1 DEF Timed, IInv, Typed, Lives, CallRecord
  <2>3. k \in DOMAIN calls' /\ calls'[k].yields \in Nat
    BY <2>2 DEF Operates, Frame, Rest, Lives, CallRecord
  <2>4. /\ calls[k].yields <= calls'[k].yields
        /\ calls'[k].status = "running" \/ Asks("fetch", k)' =>
             calls[k].status = "running" \/ Asks("fetch", k) \/ calls[k].yields < calls'[k].yields
    <3>1. CASE k \in C
      <4>1. Own(k)
        BY <3>1
      <4> QED
        BY <2>2, <4>1 DEF Own
    <3>2. CASE k \notin C
      <4>1. calls'[k].yields = calls[k].yields /\ (calls'[k].status = "running" => calls[k].status = "running")
        BY <2>2, <3>2, RestFacts
      <4>2. Asks("fetch", k)' => Asks("fetch", k)
        BY <3>2, GrownAsks DEF Operates, Frame
      <4> QED
        BY <2>2, <4>1, <4>2
    <3> QED
      BY <3>1, <3>2
  <2>5. /\ t = EventOf(t.kind, t.call, t.index)
        /\ t.kind \in {"call", "element"} /\ k \in DOMAIN code /\ t.kind \in Timeouts[k]
        /\ t.kind = "element" =>
             /\ t.index \in Nat /\ t.index <= calls[k].yields
             /\ calls[k].status = "running" \/ Asks("fetch", k) => t.index < calls[k].yields
    BY <1>1, <2>1 DEF Timed
  <2>6. t.kind = "element" =>
          /\ t.index \in Nat /\ t.index <= calls'[k].yields
          /\ calls'[k].status = "running" \/ Asks("fetch", k)' => t.index < calls'[k].yields
    BY <2>2, <2>3, <2>4, <2>5
  <2>7. code' = code
    BY DEF Operates, Frame
  <2> QED
    BY <2>1, <2>5, <2>6, <2>7 DEF Timed
<1>2. /\ \A i \in DOMAIN events' : \E j \in DOMAIN events : events'[i] = events[j]
      /\ timers' \subseteq timers /\ fired' = fired
  <2>1. CASE events' = events
    BY <2>1 DEF Operates, Frame
  <2>2. CASE events # <<>> /\ events' = Tail(events)
    BY <2>2, TailFacts DEF IInv, Reports, Operates, Frame
  <2> QED
    BY <2>1, <2>2 DEF Operates, Frame, Takes
<1>3. ASSUME NEW t \in timers' PROVE Timed(t)' /\ t \notin fired' /\ \A i \in DOMAIN events' : events'[i] # t
  BY <1>1, <1>2, <1>3 DEF IInv, Clocks
<1>4. ASSUME NEW t \in fired' PROVE Timed(t)'
  BY <1>1, <1>2, <1>4 DEF IInv, Clocks
<1>5. ASSUME NEW i \in DOMAIN events', events'[i].kind \in {"call", "element"} PROVE Timed(events[i])'
  <2>1. PICK t : t = events'[i]
    OBVIOUS
  <2>2. Timed(t)
    BY <1>2, <1>5, <2>1 DEF IInv, Clocks
  <2>3. Timed(t)'
    BY <1>1, <2>2
  <2> QED
    BY <2>1, <2>3 DEF Timed
<1>6. ASSUME NEW t \in timers'
      PROVE  /\ t.call \in runtimes'
             /\ calls'[t.call].status \in Live \/ Asks("cancel", t.call)'
             /\ t.kind = "element" /\ calls'[t.call].status \in Live =>
                  calls'[t.call].status = "fetching" /\ calls'[t.call].yields = t.index
  <2>1. PICK k : k = t.call
    OBVIOUS
  <2>2. /\ k \in runtimes
        /\ calls[k].status \in Live \/ Asks("cancel", k)
        /\ t.kind = "element" /\ calls[k].status \in Live => calls[k].status = "fetching" /\ calls[k].yields = t.index
    BY <1>2, <2>1 DEF IInv, Clocks, Operates, Frame
  <2>3. k \in DOMAIN calls
    BY <2>2 DEF IInv, Reports, Typed
  <2>4. k \in runtimes'
    BY <2>1, <2>2 DEF Spares
  <2>5. /\ calls'[k].status \in Live \/ Asks("cancel", k)'
        /\ t.kind = "element" /\ calls'[k].status \in Live =>
             calls'[k].status = "fetching" /\ calls'[k].yields = t.index
    <3>1. CASE k \in C
      <4>1. Own(k)
        BY <3>1
      <4> QED
        BY <2>1, <4>1 DEF Own
    <3>2. CASE k \notin C
      <4>1. /\ calls[k].status \in Live => calls'[k].status \in Live \/ Asks("cancel", k)'
            /\ calls'[k].status \in Live => calls'[k] = calls[k]
        BY <2>3, <3>2, RestFacts
      <4>2. Asks("cancel", k) => Asks("cancel", k)'
        BY GrownAsks DEF Operates, Frame
      <4> QED
        BY <2>2, <4>1, <4>2
    <3> QED
      BY <3>1, <3>2
  <2> QED
    BY <2>1, <2>4, <2>5
<1> QED
  BY <1>3, <1>4, <1>5, <1>6 DEF Clocks

\* An operation keeps the invariant.
LEMMA OperationKeeps ==
  ASSUME IInv, NEW C, NEW E, Operates(C, E), Spares(C), Wants(C, E), \A k \in C : Own(k)
  PROVE  IInv'
<1>1. Lives'
  BY DEF Operates, Frame, Rest
<1>2. Typed'
  <2>1. ASSUME NEW k \in DOMAIN calls' PROVE calls'[k].stream <=> "stream" \in Kind[k]
    <3>1. CASE k \in C
      <4>1. Own(k)
        BY <3>1
      <4> QED
        BY <4>1 DEF Own
    <3>2. CASE k \notin C
      BY <2>1, <3>2 DEF Operates, Frame, Rest, IInv, Typed
    <3> QED
      BY <3>1, <3>2
  <2> QED
    BY <2>1 DEF IInv, Typed, Operates, Frame, Rest
<1>3. Reports'
  <2>1. ASSUME NEW k \in runtimes' PROVE NotOver(k)'
    <3>1. CASE k \in C
      <4>1. Own(k)
        BY <3>1
      <4> QED
        BY <2>1, <4>1 DEF Own
    <3>2. CASE k \notin C
      <4>1. k \in runtimes
        BY <2>1, RuntimesKept DEF IInv, Operates, Frame
      <4>2. NotOver(k) /\ k \in DOMAIN calls
        BY <4>1 DEF IInv, Reports, Typed
      <4> QED
        BY <3>2, <4>2, RestFacts
    <3> QED
      BY <3>1, <3>2
  <2> QED
    BY <2>1, TakenReports DEF IInv, Operates, Frame
<1>4. Flushed' /\ DurableFirst'
  BY DEF IInv, Flushed, DurableFirst, Operates, Frame, Driving
<1>5. Given'
  BY DEF IInv, Given, Operates, Frame, Driving, Rest
<1> QED
  BY <1>1, <1>2, <1>3, <1>4, <1>5, AskingKeeps, OwingKeeps, AttendedKeeps, ObeyedKeeps, FetchedKeeps, FrozenKeeps,
     ClocksKeeps DEF IInv

-----------------------------------------------------------------------------
(* Operations *)

\* The calls that are live have a goroutine, or will have one.
LEMMA LiveAttended ==
  ASSUME IInv, Driving, NEW c \in LiveCalls
  PROVE  /\ c \in DOMAIN code <=> c \in runtimes
         /\ c \notin runtimes => Asks("start", c)
         /\ status = "running" /\ ~quota /\ ~Owes(c) /\ c \notin ending
         /\ c \in DOMAIN code => ~code[c].cancelled
         /\ ~Asks("cancel", c)
<1>1. c \in DOMAIN calls /\ calls[c].status \in Live /\ NotOver(c)
  BY DEF LiveCalls, NotOver, Unended
<1>2. status = "running" /\ ~quota
  BY <1>1 DEF IInv, Lives, Given, Live
<1>3. ~Owes(c) /\ c \notin ending
  BY <1>1 DEF IInv, Owing, Owes, Live
<1>4. c \in runtimes \/ Asks("start", c)
  BY <1>1, <1>2, <1>3 DEF IInv, Attended
<1>5. Asks("start", c) => c \notin DOMAIN code
  BY DEF IInv, Asking, Asks
<1>6. c \in runtimes => c \in DOMAIN code
  BY DEF IInv, Reports
<1>7. ~Asks("cancel", c)
  BY <1>1 DEF IInv, Asking, Asks
<1>8. c \in DOMAIN code => ~code[c].cancelled
  BY <1>1 DEF IInv, Obeyed
<1> QED
  BY <1>2, <1>3, <1>4, <1>5, <1>6, <1>7, <1>8

\* What an operation has to see to for a call of its own that is not live
\* after it.
LEMMA DownOwn ==
  ASSUME IInv, NEW C, NEW E, Operates(C, E), Spares(C), Wants(C, E), NEW c \in C, c \in DOMAIN calls,
         \A e \in E : e.kind = "cancel",
         calls'[c].status \notin Live, calls'[c].yields = calls[c].yields,
         c \in runtimes' => calls'[c].status = "cancelling" /\ (code[c].cancelled \/ Asks("cancel", c)'),
         Asks("start", c) => calls'[c].status = "cancelling",
         Owes(c)' => calls'[c].status = "cancelling",
         (clock = "early" \/ ~quota') /\ NotOver(c)' =>
           c \in runtimes' \/ Asks("start", c)' \/ Owes(c)' \/ c \in ending',
         \A t \in timers' : t.call = c => Asks("cancel", c)'
  PROVE  Own(c)
<1>1. (calls'[c].stream <=> calls[c].stream) /\ calls[c].yields \in Nat
  BY DEF Operates, Rest, IInv, Lives, CallRecord
<1>2. calls'[c].stream <=> "stream" \in Kind[c]
  BY <1>1 DEF IInv, Typed
<1>3. Asks("fetch", c)' => Asks("fetch", c)
  <2>1. ASSUME Asks("fetch", c)' PROVE Asks("fetch", c)
    <3>1. PICK i \in DOMAIN effects' : effects'[i].kind = "fetch" /\ effects'[i].call = c
      BY <2>1 DEF Asks
    <3>2. i \in DOMAIN effects /\ effects'[i] = effects[i]
      BY <3>1 DEF Operates, Grows
    <3> QED
      BY <3>1, <3>2 DEF Asks
  <2> QED
    BY <2>1
<1>4. calls'[c].status # "running"
  BY DEF Live
<1>5. calls'[c].status = "cancelling" => NotOver(c)'
  BY DEF NotOver, Unended
<1>6. calls[c].yields <= calls'[c].yields
  BY <1>1
<1> QED
  BY <1>2, <1>3, <1>4, <1>5, <1>6 DEF Own

\* A stop by quota or on request, in whatever is being handled for the calls C.
LEMMA CancelKeeps ==
  ASSUME IInv, Cancel, Observe(<<>>), Frame, NEW C, C \subseteq DOMAIN calls, Spares(C),
         \A c \in C : \A i \in DOMAIN local' : local'[i] = c => Owes(c),
         \A c \in C : (clock = "early" \/ ~quota') /\ NotOver(c) =>
           c \in runtimes' \/ Asks("start", c) \/ Owes(c)' \/ c \in ending'
  PROVE  IInv'
<1>1. /\ Rest({})
      /\ \A k \in DOMAIN calls :
           /\ calls'[k].status \notin Live
           /\ calls[k].status \in Unended => calls'[k].status = "cancelling"
  BY CancelStep DEF IInv
<1>2. Rest(C)
  BY <1>1 DEF Rest
<1>3. Grows({})
  BY <1>1, ObserveGrows DEF Rest, Lives, IInv, Asking
<1>4. Operates(C, {}) /\ Operates({}, {})
  BY <1>1, <1>2, <1>3 DEF Operates
<1>5. Wants(C, {}) /\ Wants({}, {})
  BY DEF Wants
<1>6. ASSUME NEW c \in C PROVE Own(c)
  <2>1. c \in DOMAIN calls /\ calls'[c].status \notin Live
    BY <1>1
  <2>2. /\ calls'[c].yields = calls[c].yields
        /\ calls'[c].status = "cancelling" => calls[c].status = "cancelling" \/ Asks("cancel", c)'
        /\ calls[c].status \in Live => Asks("cancel", c)'
        /\ NotOver(c)' <=> NotOver(c)
    BY <1>4, <1>5, <2>1, RestFacts
  <2>3. (\A kind, k : Asks(kind, k) => Asks(kind, k)')
    BY <1>3, <1>5, GrownAsks
  <2>4. c \in runtimes' => calls'[c].status = "cancelling" /\ (code[c].cancelled \/ Asks("cancel", c)')
    <3>1. ASSUME c \in runtimes' PROVE calls'[c].status = "cancelling" /\ (code[c].cancelled \/ Asks("cancel", c)')
      <4>1. c \in runtimes
        BY <3>1, RuntimesKept DEF IInv, Frame
      <4>2. NotOver(c) /\ (calls[c].status = "cancelling" => code[c].cancelled \/ Asks("cancel", c))
        BY <4>1 DEF IInv, Reports, Obeyed, Frame
      <4> QED
        BY <1>1, <2>1, <2>2, <2>3, <4>2 DEF NotOver
    <3> QED
      BY <3>1
  <2>5. Asks("start", c) => calls'[c].status = "cancelling"
    <3>1. Asks("start", c) => NotOver(c)
      BY DEF IInv, Asking, Asks
    <3> QED
      BY <1>1, <2>1, <3>1 DEF NotOver
  <2>6. Owes(c)' => calls'[c].status = "cancelling"
    <3>1. Owes(c)' => Owes(c)
      BY DEF Owes
    <3>2. Owes(c) => NotOver(c)
      BY DEF IInv, Owing, Owes, NotOver, Unended
    <3> QED
      BY <1>1, <2>1, <3>1, <3>2 DEF NotOver
  <2>7. (clock = "early" \/ ~quota') /\ NotOver(c)' =>
           c \in runtimes' \/ Asks("start", c)' \/ Owes(c)' \/ c \in ending'
    BY <2>2, <2>3
  <2>8. \A t \in timers' : t.call = c => Asks("cancel", c)'
    <3>1. ASSUME NEW t \in timers', t.call = c PROVE Asks("cancel", c)'
      <4>1. calls[c].status \in Live \/ Asks("cancel", c)
        BY <3>1 DEF IInv, Clocks, Frame
      <4> QED
        BY <2>2, <2>3, <4>1
    <3> QED
      BY <3>1
  <2> QED
    BY <1>4, <1>5, <2>1, <2>2, <2>4, <2>5, <2>6, <2>7, <2>8, DownOwn
<1> QED
  BY <1>4, <1>5, <1>6, OperationKeeps

\* Nothing is applied, and nothing goes but an event about the calls C, none
\* of which is a generator that is live.
LEMMA UnappliedKeeps ==
  ASSUME IInv, Unapplied, Frame, UNCHANGED <<runtimes, local, ending>>,
         NEW C, C \subseteq DOMAIN calls, \A c \in C \cap LiveCalls : ~calls[c].stream, Spares(C)
  PROVE  IInv'
<1>1. Rest(C)
  BY DEF Rest, Unapplied, machineVars, IInv, Lives
<1>2. Grows({})
  BY DEF Grows, Unapplied, machineVars, IInv, Asking
<1>3. Operates(C, {}) /\ Wants(C, {})
  BY <1>1, <1>2 DEF Operates, Wants
<1>4. ASSUME NEW c \in C, c \notin LiveCalls PROVE Own(c)
  <2>1. calls' = calls /\ effects' = effects /\ quota' = quota /\ clock' = clock
    BY DEF Unapplied, machineVars, Frame
  <2>2. c \in DOMAIN calls /\ calls[c].status \notin Live
    BY <1>4 DEF LiveCalls
  <2>3. NotOver(c) => calls[c].status = "cancelling"
    BY <2>2 DEF NotOver, Unended
  <2>4. \A kind : Asks(kind, c)' <=> Asks(kind, c)
    BY <2>1 DEF Asks
  <2>5. Owes(c)' <=> Owes(c)
    BY DEF Owes
  <2>6. c \in runtimes => NotOver(c) /\ (calls[c].status = "cancelling" => code[c].cancelled \/ Asks("cancel", c))
    BY DEF IInv, Reports, Obeyed, Frame
  <2>7. Asks("start", c) => NotOver(c)
    BY DEF IInv, Asking, Asks
  <2>8. Owes(c) => calls[c].status = "cancelling"
    BY DEF IInv, Owing, Owes
  <2>9. (clock = "early" \/ ~quota) /\ NotOver(c) => c \in runtimes \/ Asks("start", c) \/ Owes(c) \/ c \in ending
    BY <2>2 DEF IInv, Attended, Frame
  <2>10. NotOver(c)' <=> NotOver(c)
    BY <2>1 DEF NotOver
  <2>11. \A t \in timers' : t.call = c => Asks("cancel", c)'
    BY <2>2, <2>4 DEF IInv, Clocks, Frame
  <2> QED
    BY <1>3, <2>1, <2>2, <2>3, <2>4, <2>5, <2>6, <2>7, <2>8, <2>9, <2>10, <2>11, DownOwn
<1>5. ASSUME NEW c \in C, c \in LiveCalls PROVE Own(c)
  <2>1. calls' = calls /\ effects' = effects /\ quota' = quota /\ clock' = clock /\ Driving /\ Driving'
    BY DEF Unapplied, machineVars, Frame, Driving
  <2>2. c \in DOMAIN calls /\ calls[c].status \in Live /\ ~calls[c].stream /\ calls[c].yields \in Nat /\ NotOver(c)
    BY <1>5 DEF LiveCalls, IInv, Lives, CallRecord, NotOver, Unended
  <2>3. \A kind : Asks(kind, c)' <=> Asks(kind, c)
    BY <2>1 DEF Asks
  <2>4. /\ c \notin runtimes => Asks("start", c)
        /\ ~Owes(c)
        /\ c \in DOMAIN code => ~code[c].cancelled
        /\ ~Asks("cancel", c)
    BY <1>5, <2>1, LiveAttended
  <2>5. ~Owes(c)' /\ NotOver(c)'
    BY <2>1, <2>2, <2>4 DEF Owes, NotOver
  <2>6. calls[c].status # "cancelling"
    BY <2>2 DEF Live
  <2>7. Asks("fetch", c) => calls[c].status # "running"
    BY DEF IInv, Asking, Asks
  <2>8. c \in DOMAIN code /\ (code[c].fetch \/ code[c].at \in {"check", "next"}) => calls[c].status # "running"
    BY DEF IInv, Frozen
  <2>9. \A t \in timers' : t.call = c /\ t.kind = "element" => calls[c].status = "fetching" /\ calls[c].yields = t.index
    BY <2>1, <2>2 DEF IInv, Clocks, Frame
  <2>10. ~("stream" \in Kind[c])
    BY <2>2 DEF IInv, Typed
  <2> QED
    BY <2>1, <2>2, <2>3, <2>4, <2>5, <2>6, <2>7, <2>8, <2>9, <2>10 DEF Own
<1> QED
  BY <1>3, <1>4, <1>5, OperationKeeps

\* A pass fetches an element.
LEMMA FetchKeeps ==
  ASSUME IInv, phase = "pass", ending = {}, NEW c \in Fetchable, Fetch(c), Observe(<<EffectOf("fetch", c)>>),
         UNCHANGED <<phase, error, ending, runtimes, local, quota, durable, hostVars>>
  PROVE  IInv'
<1> DEFINE E == {EffectOf("fetch", c)}
<1>1. c \in DOMAIN calls /\ calls[c].status = "running" /\ calls[c].stream /\ c \in LiveCalls /\ calls[c].yields \in Nat
  BY DEF Fetchable, LiveCalls, Live, IInv, Lives, CallRecord
<1>2. Rest({c}) /\ calls'[c].status = "fetching" /\ calls'[c].yields = calls[c].yields /\ (calls'[c].stream <=> calls[c].stream)
  BY <1>1, CallSteps DEF IInv, Rest
<1>3. Grows(E)
  BY <1>2, ObserveGrows DEF Rest, Lives, IInv, Asking
<1>4. ~Asks("fetch", c)
  BY <1>1 DEF IInv, Asking, Asks
<1>5. Wants({c}, E)
  BY <1>1, <1>2, <1>4 DEF Wants, EffectOf
<1>6. Frame
  BY <1>2 DEF Frame, Takes, hostVars, Driving, Rest, IInv, Given, Typed
<1>7. Spares({c})
  BY DEF Spares, hostVars
<1>8. Operates({c}, E)
  BY <1>2, <1>3, <1>6 DEF Operates
<1>9. (\A kind, k : Asks(kind, k) => Asks(kind, k)') /\ Asks("fetch", c)'
  <2>1. EffectOf("fetch", c) \in E /\ EffectOf("fetch", c).kind = "fetch" /\ EffectOf("fetch", c).call = c
    BY DEF EffectOf
  <2> HIDE DEF E
  <2>2. PICK e \in E : e.kind = "fetch" /\ e.call = c
    BY <2>1
  <2> QED
    BY <1>3, <1>5, <2>2, GrownAsks
<1> HIDE DEF E
<1>10. Own(c)
  <2>1. /\ c \in DOMAIN code <=> c \in runtimes
        /\ c \notin runtimes => Asks("start", c)
        /\ ~Owes(c)
        /\ c \in DOMAIN code => ~code[c].cancelled
        /\ ~Asks("cancel", c)
    BY <1>1, <1>6, LiveAttended DEF Frame
  <2>2. ~Owes(c)' /\ NotOver(c)' /\ (Coming(c)' <=> Coming(c))
    BY <1>2, <2>1 DEF Owes, NotOver, Unended, Live, Coming, hostVars
  <2>3. Stands(c)'
    <3>1. Stands(c)
      BY <1>1, <1>6 DEF IInv, Fetched, LiveCalls, Frame
    <3>2. CASE c \in DOMAIN code
      <4>1. Unasked(c) /\ code[c].index = calls[c].yields
        BY <1>1, <3>1, <3>2 DEF Stands, Ahead, ToAsk, Told, Moving
      <4>2. ToAsk(c)'
        BY <1>2, <1>9, <2>2, <4>1 DEF Unasked, ToAsk, Ready, hostVars
      <4> QED
        BY <1>2, <3>2, <4>1, <4>2 DEF Stands, hostVars
    <3>3. CASE c \notin DOMAIN code
      BY <1>1, <1>2, <1>9, <3>1, <3>3 DEF Stands, hostVars
    <3> QED
      BY <3>2, <3>3
  <2>4. \A t \in timers' : t.call = c => t.kind # "element"
    BY <1>1, <1>6 DEF IInv, Clocks, hostVars, Live, Frame
  <2>5. calls'[c].stream <=> "stream" \in Kind[c]
    BY <1>1, <1>2 DEF IInv, Typed
  <2>6. calls'[c].status \in Live /\ calls'[c].status # "running" /\ calls'[c].status # "cancelling"
    BY <1>2 DEF Live
  <2>7. runtimes' = runtimes
    OBVIOUS
  <2>8. calls[c].yields <= calls'[c].yields
    BY <1>1, <1>2
  <2> QED
    BY <1>1, <1>2, <1>9, <2>1, <2>2, <2>3, <2>4, <2>5, <2>6, <2>7, <2>8 DEF Own
<1> QED
  BY <1>5, <1>7, <1>8, <1>10, OperationKeeps

\* A pass creates a call.
LEMMA CreateKeeps ==
  ASSUME IInv, phase = "pass", ending = {}, NEW c, Create(c, "stream" \in Kind[c]), Observe(<<EffectOf("start", c)>>),
         UNCHANGED <<phase, error, ending, runtimes, local, quota, durable, hostVars>>
  PROVE  IInv'
<1> DEFINE E == {EffectOf("start", c)}
<1>1. PICK stream \in BOOLEAN : (stream <=> "stream" \in Kind[c]) /\ Create(c, stream)
  <2>1. ("stream" \in Kind[c]) \in BOOLEAN
    BY SMT
  <2> WITNESS ("stream" \in Kind[c]) \in BOOLEAN
  <2> QED
    BY Zenon
<1>2. Rest({c}) /\ c \notin DOMAIN calls /\ calls'[c] = [stream |-> stream, status |-> "running", yields |-> 0]
  BY <1>1, CreateStep DEF IInv
<1>3. calls'[c].status = "running" /\ calls'[c].yields = 0 /\ (calls'[c].stream <=> "stream" \in Kind[c]) /\ NotOver(c)'
  BY <1>1, <1>2 DEF NotOver, Unended, Live
<1>4. Grows(E)
  BY <1>2, ObserveGrows DEF Rest, Lives, IInv, Asking
<1>5. Wants({c}, E)
  BY <1>2, <1>3 DEF Wants, EffectOf
<1>6. Frame
  BY <1>2 DEF Frame, Takes, hostVars, Driving, Rest, IInv, Given, Typed
<1>7. Spares({c})
  BY DEF Spares, hostVars
<1>8. Operates({c}, E)
  BY <1>2, <1>4, <1>6 DEF Operates
<1>9. Asks("start", c)'
  <2>1. EffectOf("start", c) \in E /\ EffectOf("start", c).kind = "start" /\ EffectOf("start", c).call = c
    BY DEF EffectOf
  <2> HIDE DEF E
  <2>2. PICK e \in E : e.kind = "start" /\ e.call = c
    BY <2>1
  <2> QED
    BY <1>4, <1>5, <2>2, GrownAsks
<1>10. c \notin DOMAIN code /\ c \notin runtimes /\ ~Owes(c) /\ \A kind : ~Asks(kind, c)
  BY <1>2 DEF IInv, Typed, Reports, Owing, Owes, Asking, Asks
<1>11. /\ c \notin runtimes' /\ ~Owes(c)' /\ c \notin DOMAIN code'
       /\ \A t \in timers' : t.call # c
  BY <1>6, <1>10 DEF Owes, hostVars, IInv, Clocks, Frame
<1>12. Stands(c)'
  BY <1>3, <1>11 DEF Stands
<1>13. Own(c)
  BY <1>3, <1>9, <1>10, <1>11, <1>12 DEF Own
<1> QED
  BY <1>5, <1>7, <1>8, <1>13, OperationKeeps

\* An operation on no call.
LEMMA OthersKeep ==
  ASSUME IInv, Frame, Spares({}), Rest({}), Observe(<<>>)
  PROVE  IInv'
<1>1. Grows({})
  BY ObserveGrows DEF Rest, Lives, IInv, Asking
<1>2. Operates({}, {}) /\ Wants({}, {})
  BY <1>1 DEF Operates, Wants
<1> QED
  BY <1>2, OperationKeeps

\* A pass of the engine's own operations.
LEMMA PassKeeps ==
  ASSUME IInv, Pass
  PROVE  IInv'
<1>1. /\ phase = "pass" /\ ending = {}
      /\ UNCHANGED <<phase, error, ending, runtimes, local, drained, heard, durable, hostVars>>
  BY DEF Pass
<1>2. Spares({})
  BY <1>1 DEF Spares, hostVars
<1>3. ASSUME quota' \in BOOLEAN, quota => quota', quota' => cancelled' PROVE Frame
  BY <1>1, <1>3 DEF Frame, Takes, hostVars, Driving
<1>4. (quota => cancelled) /\ quota \in BOOLEAN
  BY DEF IInv, Given, Typed
<1>5. ASSUME NEW c \in Fetchable, Accept(Fetch(c), <<EffectOf("fetch", c)>>) PROVE IInv'
  BY <1>1, <1>5, FetchKeeps DEF Accept
<1>6. ASSUME NEW c \in DOMAIN Kind, Accept(Create(c, "stream" \in Kind[c]), <<EffectOf("start", c)>>) PROVE IInv'
  BY <1>1, <1>6, CreateKeeps DEF Accept
<1>7. CASE Accept(FailTransform, <<>>)
  <2>1. Rest({}) /\ Observe(<<>>) /\ quota' = quota
    BY <1>7, OtherSteps DEF Accept, IInv
  <2>2. Frame
    BY <1>3, <1>4, <2>1 DEF Rest
  <2> QED
    BY <1>2, <2>1, <2>2, OthersKeep
<1>8. CASE Refuse(TRUE)
  <2>1. quota' = TRUE /\ Cancel /\ Observe(<<>>)
    BY <1>8 DEF Refuse, StopQuota
  <2>2. Frame
    BY <1>3, <2>1, CancelStep DEF IInv
  <2> QED
    BY <1>2, <2>1, <2>2, CancelKeeps
<1>9. CASE Conclude /\ Observe(<<>>) /\ UNCHANGED quota
  <2>1. Rest({})
    BY <1>9, OtherSteps DEF IInv
  <2>2. Frame
    BY <1>3, <1>4, <1>9, <2>1 DEF Rest
  <2> QED
    BY <1>2, <1>9, <2>1, <2>2, OthersKeep
<1> QED
  BY <1>5, <1>6, <1>7, <1>8, <1>9 DEF Pass

-----------------------------------------------------------------------------
(* Handling an event *)

\* An event is taken from the channel.
Hears(e) ==
  /\ Driving /\ ending = {} /\ phase' \in {"pass", "drain"}
  /\ phase' = "drain" => \A i \in DOMAIN effects : effects[i].kind = "cancel"
  /\ events # <<>> /\ e = Head(events) /\ Received
  /\ UNCHANGED <<local, durable, fired, clock>>

\* What is heard comes from a goroutine of a call.
LEMMA HeardFacts ==
  ASSUME IInv, NEW e, Hears(e)
  PROVE  /\ e = events[1] /\ 1 \in DOMAIN events
         /\ e.call \in DOMAIN code /\ e.call \in DOMAIN calls
         /\ e.kind \in Finals => e.call \in runtimes
<1>1. e = events[1] /\ 1 \in DOMAIN events
  BY TailFacts DEF IInv, Reports, Hears
<1> QED
  BY <1>1 DEF IInv, Reports, Typed

\* The quota that an operation may raise.
LEMMA FrameHeard ==
  ASSUME IInv, NEW e, Hears(e), UNCHANGED <<code, error>>, timers' \subseteq timers,
         \/ e.kind \in Finals /\ runtimes' = runtimes \ {e.call}
         \/ e.kind \notin Finals /\ runtimes' = runtimes
  PROVE  /\ UNCHANGED quota /\ (cancelled => cancelled') => Frame
         /\ quota' = TRUE /\ cancelled' => Frame
<1>1. Takes
  BY DEF Takes, Hears, Received
<1>2. (quota => cancelled) /\ quota \in BOOLEAN
  BY DEF IInv, Given, Typed
<1>3. ASSUME quota' \in BOOLEAN, quota => quota', quota' => cancelled' PROVE Frame
  BY <1>1, <1>3 DEF Hears, Frame
<1>4. ASSUME UNCHANGED quota, cancelled => cancelled' PROVE Frame
  <2>1. quota' \in BOOLEAN
    BY <1>2, <1>4
  <2>2. (quota => quota') /\ (quota' => cancelled')
    BY <1>2, <1>4, Zenon
  <2> QED
    BY <1>3, <2>1, <2>2
<1>5. ASSUME quota' = TRUE, cancelled' PROVE Frame
  BY <1>3, <1>5
<1> QED
  BY <1>4, <1>5

\* The event of a timer, whether it is still due or not.
LEMMA HandleTimerKeeps ==
  ASSUME IInv, NEW e, Hears(e), HandleTimer(e)
  PROVE  IInv'
<1>1. /\ e.kind \in {"call", "element"} /\ e.kind \notin Finals /\ e.kind # "yielded"
      /\ UNCHANGED <<error, ending, runtimes, timers, code>>
  BY DEF HandleTimer, Finals
<1>2. PICK c : c = e.call
  OBVIOUS
<1>3. c \in DOMAIN code /\ c \in DOMAIN calls
  BY <1>2, HeardFacts
<1>4. ASSUME NEW C PROVE Spares(C)
  BY <1>1 DEF Spares, Hears
<1>5. /\ UNCHANGED quota /\ (cancelled => cancelled') => Frame
      /\ quota' = TRUE /\ cancelled' => Frame
  BY <1>1, FrameHeard
<1>6. CASE Unapplied
  <2>1. Frame
    BY <1>5, <1>6 DEF Unapplied, machineVars
  <2> QED
    BY <1>1, <1>4, <1>6, <2>1, UnappliedKeeps DEF Hears
<1>7. CASE Refuse(TRUE)
  <2>1. quota' = TRUE /\ Cancel /\ Observe(<<>>)
    BY <1>7 DEF Refuse, StopQuota
  <2>2. Frame
    BY <1>5, <2>1, CancelStep DEF IInv
  <2> QED
    BY <1>4, <2>1, <2>2, CancelKeeps
<1>8. CASE ~TimeOutStale(e) /\ Accept(TimeOut(e.call, e.kind = "element"), <<EffectOf("cancel", e.call)>>)
  <2>1. /\ TimeOut(c, FALSE)
        /\ Observe(<<EffectOf("cancel", c)>>) /\ quota' = quota
        /\ c \in runtimes
    BY <1>2, <1>8 DEF Accept, TimeOut, Live, TimeOutStale
  <2>2. Rest({c}) /\ calls'[c].status = "cancelling" /\ calls'[c].yields = calls[c].yields /\ calls'[c].status \notin Live
    BY <1>3, <2>1, CallSteps DEF IInv, Live
  <2> DEFINE E == {EffectOf("cancel", c)}
  <2>3. Grows(E)
    BY <2>1, <2>2, ObserveGrows DEF Rest, Lives, IInv, Asking
  <2>4. Wants({c}, E)
    BY <2>2 DEF Wants, EffectOf
  <2>5. Operates({c}, E)
    BY <1>5, <2>1, <2>2, <2>3 DEF Operates, Rest
  <2>6. \A x \in E : x.kind = "cancel"
    BY DEF EffectOf
  <2>7. Asks("cancel", c)'
    <3>1. EffectOf("cancel", c) \in E /\ EffectOf("cancel", c).kind = "cancel" /\ EffectOf("cancel", c).call = c
      BY DEF EffectOf
    <3> HIDE DEF E
    <3>2. PICK x \in E : x.kind = "cancel" /\ x.call = c
      BY <3>1
    <3> QED
      BY <2>3, <2>4, <3>2, GrownAsks
  <2> HIDE DEF E
  <2>8. Own(c)
    BY <1>1, <1>3, <1>4, <2>1, <2>2, <2>4, <2>5, <2>6, <2>7, DownOwn
  <2> QED
    BY <1>4, <2>4, <2>5, <2>8, OperationKeeps
<1> QED
  BY <1>6, <1>7, <1>8 DEF HandleTimer

\* A generator that is ahead is ahead by the element that is heard.
LEMMA AheadHeard ==
  ASSUME IInv, NEW e, Hears(e), e.kind = "yielded", e.call \in LiveCalls, calls[e.call].stream
  PROVE  /\ Expected(e)
         /\ Ahead(e.call) /\ code[e.call].index = calls[e.call].yields + 1
         /\ ~Coming(e.call)'
<1>1. PICK c : c = e.call
  OBVIOUS
<1>2. e = events[1] /\ 1 \in DOMAIN events /\ c \in DOMAIN code
  BY <1>1, HeardFacts
<1>3. Coming(c)
  BY <1>1, <1>2 DEF Coming
<1>4. Ahead(c) /\ code[c].index = calls[c].yields + 1
  BY <1>1, <1>2, <1>3 DEF IInv, Hears, Fetched, Stands, Unasked, ToAsk, Told, Moving
<1>5. Expected(e)
  BY <1>1, <1>2, <1>4 DEF Ahead, Expected
<1>6. ~Coming(c)'
  <2>1. ASSUME NEW i \in DOMAIN events', events'[i].kind = "yielded", events'[i].call = c PROVE FALSE
    <3>1. i + 1 \in DOMAIN events /\ i + 1 # 1 /\ events'[i] = events[i + 1]
      BY TailFacts DEF Hears, Received, IInv, Reports
    <3>2. i + 1 = 1
      BY <1>1, <1>2, <1>4, <2>1, <3>1 DEF Ahead
    <3> QED
      BY <3>1, <3>2
  <2> QED
    BY <2>1 DEF Coming
<1> QED
  BY <1>1, <1>4, <1>5, <1>6

\* An element.
LEMMA HandleElementKeeps ==
  ASSUME IInv, NEW e, Hears(e), HandleElement(e)
  PROVE  IInv'
<1>1. /\ e.kind = "yielded" /\ e.kind \notin Finals
      /\ UNCHANGED <<error, ending, runtimes, code>>
  BY DEF HandleElement, Finals
<1>2. PICK c : c = e.call
  OBVIOUS
<1>3. c \in DOMAIN code /\ c \in DOMAIN calls /\ calls[c].yields \in Nat
  BY <1>2, HeardFacts DEF IInv, Lives, CallRecord
<1>4. timers' \subseteq timers
  BY DEF HandleElement
<1>5. Spares({c})
  BY <1>1, <1>2, <1>4 DEF Spares, Hears
<1>6. /\ UNCHANGED quota /\ (cancelled => cancelled') => Frame
      /\ quota' = TRUE /\ cancelled' => Frame
  BY <1>1, <1>4, FrameHeard
<1>7. CASE ~Expected(e) /\ Unapplied
  <2>1. Frame
    BY <1>6, <1>7 DEF Unapplied, machineVars
  <2>2. c \in LiveCalls => ~calls[c].stream
    BY <1>1, <1>2, <1>7, AheadHeard
  <2> QED
    BY <1>1, <1>3, <1>5, <1>7, <2>1, <2>2, UnappliedKeeps DEF Hears
<1>8. CASE Expected(e) /\ Refuse(TRUE)
  <2>1. quota' = TRUE /\ Cancel /\ Observe(<<>>)
    BY <1>8 DEF Refuse, StopQuota
  <2>2. Frame
    BY <1>6, <2>1, CancelStep DEF IInv
  <2>3. c \in LiveCalls
    BY <1>2, <1>3, <1>8 DEF Expected, LiveCalls, Live
  <2>4. c \in runtimes'
    BY <1>1, <1>3, <2>3, LiveAttended DEF Hears
  <2>5. \A i \in DOMAIN local' : local'[i] = c => Owes(c)
    BY DEF Hears, Owes
  <2> QED
    BY <1>3, <1>5, <2>1, <2>2, <2>4, <2>5, CancelKeeps
<1>9. CASE /\ Expected(e) /\ Accept(Yield(e.call), <<>>)
           /\ timers' = {t \in timers : t.call # e.call \/ t.kind # "element"}
  <2>1. Yield(c) /\ Observe(<<>>) /\ quota' = quota /\ calls[c].stream /\ calls[c].status = "fetching"
    BY <1>2, <1>9 DEF Accept, Yield
  <2>2. Rest({c}) /\ calls'[c].status = "running" /\ calls'[c].yields = calls[c].yields + 1
    BY <1>3, <2>1, CallSteps DEF IInv
  <2>3. Grows({})
    BY <2>1, <2>2, ObserveGrows DEF Rest, Lives, IInv, Asking
  <2>4. Operates({c}, {}) /\ Wants({c}, {})
    BY <1>6, <2>1, <2>2, <2>3 DEF Operates, Rest, Wants
  <2>5. c \in LiveCalls
    BY <1>3, <2>1 DEF LiveCalls, Live
  <2>6. Ahead(c) /\ code[c].index = calls[c].yields + 1 /\ ~Coming(c)'
    BY <1>1, <1>2, <2>1, <2>5, AheadHeard
  <2>7. c \in runtimes /\ ~Owes(c) /\ ~code[c].cancelled /\ ~Asks("cancel", c)
    BY <1>3, <2>5, LiveAttended DEF Hears
  <2>8. ~Asks("fetch", c)'
    <3>1. Asks("fetch", c)' => Asks("fetch", c)
      <4>1. ASSUME NEW i \in DOMAIN effects', effects'[i].kind = "fetch", effects'[i].call = c PROVE Asks("fetch", c)
        <5>1. i \in DOMAIN effects /\ effects'[i] = effects[i]
          BY <2>3, <4>1 DEF Grows
        <5> QED
          BY <4>1, <5>1 DEF Asks
      <4> QED
        BY <4>1 DEF Asks
    <3> QED
      BY <2>6, <3>1 DEF Ahead
  <2>9. /\ code[c].at = "select" /\ ~code[c].fetch /\ ~Asks("fetch", c)
        /\ code' = code /\ runtimes' = runtimes
    BY <1>1, <2>6 DEF Ahead
  <2>10. calls'[c].status \in Live /\ NotOver(c)' /\ ~Owes(c)'
    BY <2>2, <2>7 DEF Live, NotOver, Unended, Owes, Hears
  <2>11. Stands(c)'
    BY <1>3, <2>2, <2>6, <2>8, <2>9 DEF Stands, Unasked
  <2>12. \A t \in timers' : t.call = c => t.kind # "element"
    BY <1>2, <1>9
  <2>13. calls'[c].stream <=> "stream" \in Kind[c]
    BY <1>3, <2>2 DEF Rest, Lives, CallRecord, Yield, IInv, Typed, Expected
  <2>14. Own(c)
    BY <1>3, <2>2, <2>7, <2>8, <2>9, <2>10, <2>11, <2>12, <2>13 DEF Own
  <2> QED
    BY <1>5, <2>4, <2>14, OperationKeeps
<1> QED
  BY <1>7, <1>8, <1>9 DEF HandleElement

-----------------------------------------------------------------------------
(* The end of a call *)

\* A call that has ended, of which nothing is left to do.
LEMMA GoneOwn ==
  ASSUME IInv, NEW c \in DOMAIN calls, Operates({c}, {}), Spares({c}),
         c \notin runtimes', ~Asks("start", c), ~Owes(c)', \A t \in timers' : t.call # c,
         calls'[c].status \notin Unended, calls'[c].yields = calls[c].yields
  PROVE  IInv'
<1>1. Wants({c}, {})
  BY DEF Wants
<1>2. calls'[c].status \notin Live /\ ~NotOver(c)'
  BY DEF NotOver, Unended
<1>3. Own(c)
  BY <1>1, <1>2, DownOwn
<1> QED
  BY <1>1, <1>3, OperationKeeps

\* The end that a goroutine reports.
LEMMA HandleFinalKeeps ==
  ASSUME IInv, NEW e, Hears(e), HandleFinal(e)
  PROVE  IInv'
<1>1. PICK c : c = e.call
  OBVIOUS
<1>2. /\ e.kind \in Finals /\ c \in DOMAIN code /\ c \in DOMAIN calls /\ c \in runtimes
      /\ calls[c].status \in Unended
  BY <1>1, HeardFacts DEF HandleFinal
<1>3. runtimes' = runtimes \ {c} /\ timers' = timers \ TimersOf({c}) /\ UNCHANGED <<error, code>>
  <2>1. {c} \cap runtimes = {c}
    BY <1>2
  <2>2. Over(c)
    BY <1>1 DEF HandleFinal
  <2>3. UNCHANGED <<error, code>>
    BY DEF HandleFinal, EndCancelled, EndByQuota, EndReported
  <2> QED
    BY <2>1, <2>2, <2>3 DEF Over
<1>4. /\ timers' \subseteq timers
      /\ \A t \in timers' : t.call # c
      /\ \A t \in timers' : t.call \in runtimes => t.call \in runtimes'
  BY <1>3 DEF TimersOf
<1>5. /\ UNCHANGED quota /\ (cancelled => cancelled') => Frame
      /\ quota' = TRUE /\ cancelled' => Frame
  BY <1>1, <1>2, <1>3, <1>4, FrameHeard
<1>6. ~Asks("start", c) /\ ~Owes(c) /\ ~Owes(c)'
  <2>1. ~Asks("start", c)
    BY <1>2 DEF IInv, Asking, Asks
  <2>2. ~Owes(c)
    BY <1>2 DEF IInv, Owing, Owes
  <2> QED
    BY <2>1, <2>2 DEF Owes, Hears
<1>7. ASSUME ending' = {} \/ (ending' = {c} /\ calls'[c].status = "cancelling") PROVE Spares({c})
  BY <1>1, <1>2, <1>3, <1>4, <1>7 DEF Spares, Hears
<1>8. ASSUME StopQuota, ending' = {c} \/ (ending' = {} /\ clock = "late") PROVE IInv'
  <2>1. quota' = TRUE /\ Cancel /\ Observe(<<>>)
    BY <1>8 DEF StopQuota
  <2>2. cancelled' /\ calls'[c].status = "cancelling"
    BY <1>2, <2>1, CancelStep DEF IInv
  <2>3. Frame
    BY <1>5, <2>1, <2>2
  <2>4. Spares({c})
    BY <1>7, <1>8, <2>2
  <2>5. \A i \in DOMAIN local' : local'[i] = c => Owes(c)
    BY DEF Hears, Owes
  <2> QED
    BY <1>2, <1>8, <2>1, <2>3, <2>4, <2>5, CancelKeeps
<1>9. ASSUME Return(c) \/ FailCall(c) \/ Terminate(c), Observe(<<>>), quota' = quota, ending' = ending PROVE IInv'
  <2>1. Rest({c}) /\ calls'[c].status \notin Unended /\ calls'[c].yields = calls[c].yields
    BY <1>2, <1>9, CallSteps DEF IInv
  <2>2. Grows({})
    BY <1>9, <2>1, ObserveGrows DEF Rest, Lives, IInv, Asking
  <2>3. Operates({c}, {})
    BY <1>5, <1>9, <2>1, <2>2 DEF Operates, Rest
  <2>4. Spares({c})
    BY <1>7, <1>9 DEF Hears
  <2>5. c \notin runtimes'
    BY <1>3
  <2> QED
    BY <1>2, <1>4, <1>6, <2>1, <2>3, <2>4, <2>5, GoneOwn
<1>10. CASE EndCancelled(e.call)
  <2>1. CASE Accept(Terminate(c), <<>>)
    BY <1>1, <1>9, <1>10, <2>1 DEF Accept, EndCancelled
  <2>2. CASE Refuse(FALSE)
    BY <1>1, <1>8, <1>10, <2>2 DEF Refuse, Overdue, EndCancelled, Hears
  <2> QED
    BY <1>1, <1>10, <2>1, <2>2 DEF EndCancelled
<1>11. CASE EndByQuota(e.call)
  BY <1>1, <1>8, <1>11 DEF EndByQuota
<1>12. CASE EndReported(e.call, e.kind)
  <2>1. CASE Refuse(e.kind \in {"returned", "judged"}) /\ ending' = {e.call}
    BY <1>1, <1>8, <2>1 DEF Refuse
  <2>2. CASE /\ Accept(IF e.kind \in {"returned", "judged", "ended"} THEN Return(e.call) ELSE FailCall(e.call), <<>>)
             /\ UNCHANGED ending
    BY <1>1, <1>9, <2>2 DEF Accept
  <2> QED
    BY <1>12, <2>1, <2>2 DEF EndReported
<1> QED
  BY <1>10, <1>11, <1>12 DEF HandleFinal

\* Any event.
LEMMA HandleKeeps ==
  ASSUME IInv, NEW e, NEW next, Hears(e), Handle(e, next)
  PROVE  IInv'
BY HandleTimerKeeps, HandleElementKeeps, HandleFinalKeeps DEF Handle

\* The second half of a stop.
LEMMA EndStoppedKeeps ==
  ASSUME IInv, EndStopped
  PROVE  IInv'
<1>1. PICK c \in ending : Terminate(c)
  BY DEF EndStopped
<1>2. /\ c \in DOMAIN calls /\ c \in DOMAIN code /\ c \notin runtimes /\ phase \in {"pass", "drain"}
      /\ \A d \in ending : d = c
  BY <1>1 DEF IInv, Owing, Typed
<1>3. /\ ending' = {} /\ Observe(<<>>)
      /\ UNCHANGED <<phase, error, runtimes, local, quota, durable, events, timers, fired, code, asked, clock>>
  BY DEF EndStopped, hostVars
<1>4. Rest({c}) /\ calls'[c].status \notin Unended /\ calls'[c].yields = calls[c].yields
  BY <1>1, <1>2, CallSteps DEF IInv
<1>5. Grows({})
  BY <1>3, <1>4, ObserveGrows DEF Rest, Lives, IInv, Asking
<1>6. Frame
  <2>1. (quota => cancelled) /\ quota \in BOOLEAN
    BY DEF IInv, Given, Typed
  <2>2. quota' \in BOOLEAN
    BY <1>3, <2>1
  <2>3. (quota => quota') /\ (quota' => cancelled')
    BY <1>3, <1>4, <2>1, Zenon DEF Rest
  <2>4. phase' = "drain" => \A i \in DOMAIN effects : effects[i].kind = "cancel"
    BY <1>3 DEF IInv, Asking
  <2> QED
    BY <1>2, <1>3, <2>2, <2>3, <2>4 DEF Frame, Takes, Driving
<1>7. Spares({c})
  BY <1>2, <1>3 DEF Spares
<1>8. Operates({c}, {})
  BY <1>4, <1>5, <1>6 DEF Operates
<1>9. \A t \in timers' : t.call # c
  BY <1>2, <1>3, <1>6 DEF IInv, Clocks, Frame
<1>10. ~Asks("start", c) /\ ~Owes(c)'
  <2>1. ~Asks("start", c)
    BY <1>2 DEF IInv, Asking, Asks
  <2>2. ~Owes(c)
    BY <1>2 DEF IInv, Owing, Owes
  <2> QED
    BY <1>3, <2>1, <2>2 DEF Owes
<1> QED
  BY <1>2, <1>3, <1>4, <1>7, <1>8, <1>9, <1>10, GoneOwn

-----------------------------------------------------------------------------
(* What the loop selects *)

\* The end of a call that had no goroutine.
LEMMA HandleLocalKeeps ==
  ASSUME IInv, HandleLocal
  PROVE  IInv'
<1>1. PICK c : c = Head(local)
  OBVIOUS
<1>2. /\ phase = "publish" /\ effects = <<>> /\ local # <<>> /\ local' = Tail(local) /\ phase' = "pass"
      /\ UNCHANGED <<durable, events, fired, clock>>
      /\ HandleFinal(EventOf("exited", c, 0))
  <2>1. Handle(EventOf("exited", c, 0), "pass")
    BY <1>1 DEF HandleLocal
  <2>2. EventOf("exited", c, 0).kind = "exited"
    BY DEF EventOf
  <2>3. HandleFinal(EventOf("exited", c, 0)) /\ phase' = "pass"
    BY <2>1, <2>2 DEF Handle, HandleTimer, HandleElement
  <2> QED
    BY <2>3 DEF HandleLocal, Turn
<1>3. /\ 1 \in DOMAIN local /\ c = local[1]
      /\ \A i \in DOMAIN local' : i + 1 \in DOMAIN local /\ i + 1 # 1 /\ local'[i] = local[i + 1]
  BY <1>1, <1>2, TailFacts DEF IInv, Owing
<1>4. c \in DOMAIN calls /\ c \notin DOMAIN code /\ c \notin runtimes /\ calls[c].status = "cancelling" /\ ending = {}
  BY <1>2, <1>3 DEF IInv, Owing, Reports
<1>5. /\ runtimes' = runtimes /\ timers' = timers /\ UNCHANGED <<error, ending, code>>
      /\ Accept(Terminate(c), <<>>) \/ Refuse(FALSE)
  <2>1. EventOf("exited", c, 0).kind = "exited" /\ EventOf("exited", c, 0).call = c
    BY DEF EventOf
  <2>2. EndCancelled(c) /\ Over(c)
    BY <1>2, <1>4, <2>1 DEF HandleFinal, Live
  <2>3. {c} \cap runtimes = {} /\ runtimes \ {c} = runtimes
    BY <1>4
  <2> QED
    BY <2>2, <2>3 DEF Over, EndCancelled, TimersOf
<1>6. (\A t \in timers' : t.call # c) /\ ~Asks("start", c) /\ ~Owes(c)'
  <2>1. Driving
    BY <1>2 DEF Driving
  <2>2. \A t \in timers' : t.call # c
    BY <1>4, <1>5, <2>1 DEF IInv, Clocks
  <2>3. ~Asks("start", c)
    BY <1>2 DEF Asks
  <2>4. ~Owes(c)'
    <3>1. ASSUME NEW i \in DOMAIN local', local'[i] = c PROVE FALSE
      <4>1. i + 1 = 1
        BY <1>3, <3>1 DEF IInv, Owing
      <4> QED
        BY <1>3, <4>1
    <3> QED
      BY <3>1 DEF Owes
  <2> QED
    BY <2>2, <2>3, <2>4
<1>7. Spares({c})
  BY <1>1, <1>2, <1>4, <1>5 DEF Spares
<1>8. ASSUME quota' \in BOOLEAN, quota => quota', quota' => cancelled' PROVE Frame
  BY <1>2, <1>5, <1>8 DEF Frame, Takes, Driving
<1>9. (quota => cancelled) /\ quota \in BOOLEAN
  BY DEF IInv, Given, Typed
<1>10. CASE Accept(Terminate(c), <<>>)
  <2>1. Terminate(c) /\ Observe(<<>>) /\ quota' = quota
    BY <1>10 DEF Accept
  <2>2. Rest({c}) /\ calls'[c].status \notin Unended /\ calls'[c].yields = calls[c].yields
    BY <1>4, <2>1, CallSteps DEF IInv
  <2>3. Grows({})
    BY <2>1, <2>2, ObserveGrows DEF Rest, Lives, IInv, Asking
  <2>4. quota' \in BOOLEAN
    BY <1>9, <2>1
  <2>5. (quota => quota') /\ (quota' => cancelled')
    BY <1>9, <2>1, <2>2, Zenon DEF Rest
  <2>6. Operates({c}, {})
    BY <1>8, <2>2, <2>3, <2>4, <2>5 DEF Operates
  <2> QED
    BY <1>4, <1>5, <1>6, <1>7, <2>2, <2>6, GoneOwn
<1>11. CASE Refuse(FALSE)
  <2>1. quota' = TRUE /\ Cancel /\ Observe(<<>>) /\ clock = "late"
    BY <1>11 DEF Refuse, StopQuota, Overdue
  <2>2. Frame
    BY <1>8, <2>1, CancelStep DEF IInv
  <2>3. \A i \in DOMAIN local' : local'[i] = c => Owes(c)
    BY <1>3 DEF Owes
  <2> QED
    BY <1>4, <1>7, <2>1, <2>2, <2>3, CancelKeeps
<1> QED
  BY <1>5, <1>10, <1>11

\* An event ends the wait.
LEMMA ReceiveKeeps ==
  ASSUME IInv, Receive
  PROVE  IInv'
<1>1. PICK e : e = Head(events)
  OBVIOUS
<1>2. /\ phase = "publish" /\ effects = <<>> /\ events # <<>> /\ Received /\ Handle(e, "drain")
      /\ UNCHANGED <<local, durable, fired, clock>>
  BY <1>1 DEF Receive, Select, Turn
<1>3. phase' = "drain"
  BY <1>2 DEF Handle
<1>4. ending = {}
  BY <1>2 DEF IInv, Owing
<1>5. Hears(e)
  BY <1>1, <1>2, <1>3, <1>4 DEF Hears, Driving
<1> QED
  BY <1>2, <1>5, HandleKeeps

\* Nothing happens but that the loop goes on, or a stop.
LEMMA PauseKeeps ==
  ASSUME IInv, Driving, phase' \in {"pass", "drain"}, phase' = "drain" => phase = "drain", phase = "publish" \/ ending = {},
         UNCHANGED <<error, ending, runtimes, local, durable, timers, code, events, fired, clock>>,
         Unapplied \/ (Cancel /\ Observe(<<>>) /\ (UNCHANGED quota \/ quota' = TRUE))
  PROVE  IInv'
<1>1. Spares({})
  BY DEF Spares, IInv, Owing
<1>2. ASSUME quota' \in BOOLEAN, quota => quota', quota' => cancelled' PROVE Frame
  BY <1>2 DEF Frame, Takes, IInv, Asking
<1>3. (quota => cancelled) /\ quota \in BOOLEAN
  BY DEF IInv, Given, Typed
<1>4. CASE Unapplied
  <2>1. quota' = quota /\ cancelled' = cancelled
    BY <1>4 DEF Unapplied, machineVars
  <2>2. Frame
    BY <1>2, <1>3, <2>1
  <2> QED
    BY <1>1, <1>4, <2>2, UnappliedKeeps
<1>5. CASE Cancel /\ Observe(<<>>) /\ (UNCHANGED quota \/ quota' = TRUE)
  <2>1. cancelled'
    BY <1>5, CancelStep DEF IInv
  <2>2. quota' \in BOOLEAN
    BY <1>3, <1>5
  <2>3. quota => quota'
    BY <1>5, Zenon
  <2>4. Frame
    BY <1>2, <2>1, <2>2, <2>3
  <2> QED
    BY <1>1, <1>5, <2>4, CancelKeeps
<1> QED
  BY <1>4, <1>5

\* What waits in the channel, and the end of it.
LEMMA DrainKeeps ==
  ASSUME IInv, Drain
  PROVE  IInv'
<1>1. phase = "drain" /\ ending = {} /\ UNCHANGED <<local, durable, fired, clock>>
  BY DEF Drain
<1>2. CASE events # <<>> /\ drained < Capacity /\ Received /\ Handle(Head(events), "drain")
  <2>1. PICK e : e = Head(events)
    OBVIOUS
  <2>2. Handle(e, "drain")
    BY <1>2, <2>1
  <2>3. Hears(e)
    BY <1>1, <1>2, <2>1, <2>2 DEF Hears, Driving, Handle, IInv, Asking
  <2> QED
    BY <2>2, <2>3, HandleKeeps
<1>3. CASE phase' = "pass" /\ Unapplied /\ UNCHANGED <<error, ending, runtimes, timers, code, events, drained>>
  BY <1>1, <1>3, PauseKeeps DEF Driving
<1> QED
  BY <1>2, <1>3 DEF Drain

\* The deadline or the caller.
LEMMA HearKeeps ==
  ASSUME IInv, HearDeadline \/ HearCancel
  PROVE  IInv'
<1>1. /\ phase = "publish" /\ phase' = "pass" /\ Driving
      /\ UNCHANGED <<error, ending, runtimes, local, durable, timers, code, events, fired, clock>>
  BY DEF HearDeadline, HearCancel, Select, Turn, hostVars, Driving
<1>2. Unapplied \/ (Cancel /\ Observe(<<>>) /\ (UNCHANGED quota \/ quota' = TRUE))
  BY DEF HearDeadline, HearCancel, StopQuota
<1> QED
  BY <1>1, <1>2, PauseKeeps

-----------------------------------------------------------------------------
(* Publishing an effect *)

\* The first effect is taken.
Publishes(e) ==
  /\ phase = "publish" /\ effects # <<>> /\ e = Head(effects) /\ effects' = Tail(effects)
  /\ UNCHANGED <<machineVars, phase, error, ending, quota, durable, events, fired, clock>>

\* The effects that are left.
LEMMA PublishedAsks ==
  ASSUME IInv, NEW e, Publishes(e)
  PROVE  /\ \A kind, k : Asks(kind, k)' => Asks(kind, k)
         /\ \A kind, k : Asks(kind, k) => Asks(kind, k)' \/ (e.kind = kind /\ e.call = k)
         /\ Asks(e.kind, e.call) /\ e.call \in DOMAIN calls
         /\ e.kind \in {"start", "fetch"} => ~Asks(e.kind, e.call)'
         /\ e.kind = "fetch" => ~Asks("start", e.call)
<1>1. /\ IsSequence(effects') /\ 1 \in DOMAIN effects /\ e = effects[1]
      /\ \A i \in DOMAIN effects' : i \in Nat /\ i + 1 \in DOMAIN effects /\ i + 1 # 1 /\ effects'[i] = effects[i + 1]
      /\ \A i \in DOMAIN effects : i \in Nat /\ (i = 1 \/ (i - 1 \in DOMAIN effects' /\ effects'[i - 1] = effects[i]))
  BY TailFacts DEF Publishes, IInv, Asking
<1>2. ASSUME NEW kind, NEW k, Asks(kind, k)' PROVE Asks(kind, k)
  BY <1>1, <1>2 DEF Asks
<1>3. ASSUME NEW kind, NEW k, Asks(kind, k) PROVE Asks(kind, k)' \/ (e.kind = kind /\ e.call = k)
  BY <1>1, <1>3 DEF Asks
<1>4. Asks(e.kind, e.call) /\ e.call \in DOMAIN calls
  BY <1>1 DEF Asks, IInv, Asking
<1>5. ASSUME e.kind \in {"start", "fetch"}, NEW i \in DOMAIN effects', effects'[i].kind = e.kind, effects'[i].call = e.call
      PROVE  FALSE
  <2>1. i + 1 \in DOMAIN effects /\ i + 1 # 1 /\ effects[i + 1].kind = e.kind /\ effects[i + 1].call = e.call
    BY <1>1, <1>5
  <2>2. \A j \in DOMAIN effects : effects[j].kind = e.kind /\ effects[j].call = e.call => j = 1
    BY <1>1, <1>5 DEF IInv, Asking
  <2> QED
    BY <2>1, <2>2
<1>6. ASSUME e.kind = "fetch", NEW i \in DOMAIN effects, effects[i].kind = "start", effects[i].call = e.call PROVE FALSE
  <2>1. i < 1
    BY <1>1, <1>6 DEF IInv, Asking
  <2>2. i \in 1..Len(effects)
    BY <1>1 DEF IInv, Asking, IsSequence
  <2> QED
    BY <2>1, <2>2
<1> QED
  BY <1>2, <1>3, <1>4, <1>5, <1>6 DEF Asks

\* They stay in order.
LEMMA PublishedAsking ==
  ASSUME IInv, NEW e, Publishes(e),
         \A k : Asks("start", k)' => k \notin DOMAIN code' /\ ~Owes(k)'
  PROVE  Asking'
<1>1. /\ IsSequence(effects')
      /\ \A i \in DOMAIN effects' : i \in Nat /\ i + 1 \in DOMAIN effects /\ effects'[i] = effects[i + 1]
  BY TailFacts DEF Publishes, IInv, Asking
<1>2. calls' = calls /\ phase' # "drain"
  BY DEF Publishes, machineVars
<1>3. ASSUME NEW i \in DOMAIN effects'
      PROVE  /\ effects'[i].kind \in {"start", "fetch", "cancel"}
             /\ effects'[i].call \in DOMAIN calls
             /\ effects'[i].kind = "start" => calls[effects'[i].call].status \in Unended
             /\ effects'[i].kind = "fetch" => calls[effects'[i].call].stream /\ calls[effects'[i].call].status # "running"
             /\ effects'[i].kind = "cancel" => calls[effects'[i].call].status \notin Live
  BY <1>1 DEF IInv, Asking, NotOver
<1>4. ASSUME NEW i \in DOMAIN effects', effects'[i].kind = "start"
      PROVE  effects'[i].call \notin DOMAIN code' /\ \A j \in DOMAIN local' : local'[j] # effects'[i].call
  <2>1. PICK k : k = effects'[i].call
    OBVIOUS
  <2>2. Asks("start", k)'
    BY <1>4, <2>1 DEF Asks
  <2> QED
    BY <2>1, <2>2 DEF Owes
<1>5. ASSUME NEW i \in DOMAIN effects', NEW j \in DOMAIN effects', effects'[i].call = effects'[j].call
      PROVE  /\ effects'[i].kind = "start" /\ effects'[j].kind = "start" => i = j
             /\ effects'[i].kind = "fetch" /\ effects'[j].kind = "fetch" => i = j
             /\ effects'[i].kind = "start" /\ effects'[j].kind = "fetch" => i < j
  <2>1. /\ effects'[i].kind = "start" /\ effects'[j].kind = "start" => i + 1 = j + 1
        /\ effects'[i].kind = "fetch" /\ effects'[j].kind = "fetch" => i + 1 = j + 1
        /\ effects'[i].kind = "start" /\ effects'[j].kind = "fetch" => i + 1 < j + 1
    BY <1>1, <1>5 DEF IInv, Asking
  <2>2. i \in Nat /\ j \in Nat
    BY <1>1
  <2> QED
    BY <2>1, <2>2
<1> QED
  BY <1>1, <1>2, <1>3, <1>4, <1>5 DEF Asking, NotOver, Owes

\* What the goroutines of other calls see of it: nothing.
LEMMA StandsStill ==
  ASSUME IInv, NEW k, k \in DOMAIN code' <=> k \in DOMAIN code, k \in DOMAIN code => code'[k] = code[k],
         calls' = calls, events' = events, Asks("fetch", k)' <=> Asks("fetch", k), Stands(k)
  PROVE  Stands(k)'
BY DEF Stands, Ahead, Unasked, ToAsk, Told, Moving, Ready, Coming

\* An effect is published for the call c.
LEMMA PublishKeeps ==
  ASSUME IInv, NEW e, Publishes(e), NEW c, c = e.call,
         DOMAIN code' \subseteq DOMAIN code \cup {c}, DOMAIN code \subseteq DOMAIN code',
         \A k \in DOMAIN code : k # c => code'[k] = code[k],
         c \in DOMAIN code => code'[c].at = code[c].at /\ code'[c].kind = code[c].kind,
         c \in DOMAIN code' => /\ code'[c] \in Routine
                               /\ c \notin DOMAIN code => c \in runtimes' /\ code'[c].at # "over"
                               /\ code'[c].at \in {"check", "next"} \/ (code'[c].at = "send" /\ code'[c].kind = "yielded")
                                    => ~code'[c].fetch
                               /\ code'[c].cancelled => calls[c].status \notin Live
                               /\ code'[c].fetch \/ code'[c].at \in {"check", "next"} =>
                                    calls[c].status # "running" /\ calls[c].yields = code'[c].index,
         runtimes' = runtimes \/ (runtimes' = runtimes \cup {c} /\ c \in DOMAIN code' /\ c \notin DOMAIN code /\ NotOver(c)),
         Owing',
         \A k : Asks("start", k)' => k \notin DOMAIN code' /\ ~Owes(k)',
         NotOver(c) /\ (clock = "early" \/ ~quota) => c \in runtimes' \/ Asks("start", c)' \/ Owes(c)' \/ c \in ending',
         \A k : Owes(k) => Owes(k)',
         c \in runtimes' /\ calls[c].status = "cancelling" => code'[c].cancelled \/ Asks("cancel", c)',
         c \in LiveCalls /\ calls[c].stream => Stands(c)',
         \A t \in timers' \ timers :
           /\ t = EventOf(t.kind, t.call, t.index)
           /\ t.call = c /\ c \in runtimes' /\ t.kind \in {"call", "element"} /\ t.kind \in Timeouts[c]
           /\ calls[c].status \in Live
           /\ t.kind = "element" => /\ t.index = calls[c].yields /\ calls[c].status = "fetching" /\ ~Asks("fetch", c)'
           /\ t \notin fired /\ \A i \in DOMAIN events : events[i] # t,
         \A t \in timers' : t.call = c => calls[c].status \in Live \/ Asks("cancel", c)'
  PROVE  IInv'
<1>1. /\ calls' = calls /\ status' = status /\ started' = started /\ cancelled' = cancelled /\ quota' = quota
      /\ clock' = clock /\ phase = "publish" /\ phase' = "publish" /\ Driving /\ Driving' /\ ending' = ending
      /\ events' = events /\ fired' = fired /\ durable' = durable /\ error' = error
  BY DEF Publishes, machineVars, Driving
<1>2. /\ \A kind, k : Asks(kind, k)' => Asks(kind, k)
      /\ \A kind, k : k # c => (Asks(kind, k) <=> Asks(kind, k)')
      /\ c \in DOMAIN calls
  BY PublishedAsks
<1>3. Lives'
  BY <1>1 DEF IInv, Lives
<1>4. Typed'
  <2>1. DOMAIN code' \subseteq DOMAIN calls
    BY <1>2 DEF IInv, Typed
  <2>2. \A k \in DOMAIN code' :
          /\ code'[k] \in Routine
          /\ code'[k].at \in {"check", "next"} \/ (code'[k].at = "send" /\ code'[k].kind = "yielded") => ~code'[k].fetch
    BY DEF IInv, Typed
  <2> QED
    BY <1>1, <2>1, <2>2 DEF IInv, Typed
<1>5. Reports'
  <2>1. \A i \in DOMAIN events : events[i].kind \in Finals => events[i].call \in runtimes' /\ code'[events[i].call].at = "over"
    BY DEF IInv, Reports
  <2>2. \A k \in DOMAIN code' : k \notin runtimes' => code'[k].at = "over"
    BY DEF IInv, Reports
  <2>3. \A k \in runtimes' : k \in DOMAIN code' /\ NotOver(k)' /\ (code'[k].at = "over" => Ending(k)')
    BY <1>1 DEF IInv, Reports, Ending, NotOver
  <2>4. \A i \in DOMAIN events : events[i].call \in DOMAIN code'
    BY DEF IInv, Reports
  <2> QED
    BY <1>1, <2>1, <2>2, <2>3, <2>4 DEF IInv, Reports
<1>6. Asking'
  BY PublishedAsking
<1>7. Attended'
  <2>1. ASSUME NEW k \in DOMAIN calls, NotOver(k), clock = "early" \/ ~quota
        PROVE  k \in runtimes' \/ Asks("start", k)' \/ Owes(k)' \/ k \in ending'
    BY <1>1, <1>2, <2>1 DEF IInv, Attended
  <2> QED
    BY <1>1, <2>1 DEF Attended, NotOver
<1>8. Obeyed'
  <2>1. ASSUME NEW k \in runtimes', calls[k].status = "cancelling" PROVE code'[k].cancelled \/ Asks("cancel", k)'
    <3>1. CASE k = c
      BY <2>1, <3>1
    <3>2. CASE k # c
      <4>1. k \in runtimes /\ k \in DOMAIN code /\ code'[k] = code[k]
        BY <3>2 DEF IInv, Reports
      <4> QED
        BY <1>1, <1>2, <2>1, <3>2, <4>1 DEF IInv, Obeyed
    <3> QED
      BY <3>1, <3>2
  <2>2. ASSUME NEW k \in DOMAIN code', code'[k].cancelled PROVE calls[k].status \notin Live
    BY <1>1, <2>2 DEF IInv, Obeyed
  <2> QED
    BY <1>1, <2>1, <2>2 DEF Obeyed
<1>9. Fetched'
  <2>1. ASSUME NEW k \in LiveCalls, calls[k].stream PROVE Stands(k)'
    <3>1. CASE k # c
      BY <1>1, <1>2, <2>1, <3>1, StandsStill DEF IInv, Fetched
    <3> QED
      BY <2>1, <3>1
  <2> QED
    BY <1>1, <2>1 DEF Fetched, LiveCalls
<1>10. Frozen'
  BY <1>1 DEF IInv, Frozen
<1>11. Clocks'
  <2>1. ASSUME NEW t, Timed(t) PROVE Timed(t)'
    BY <1>1, <1>2, <2>1 DEF Timed
  <2>2. ASSUME NEW t \in timers', t \notin timers PROVE Timed(t)'
    <3>1. calls[c].yields \in Nat /\ c \in DOMAIN code'
      BY <1>2, <2>2 DEF IInv, Lives, CallRecord, Reports
    <3> QED
      BY <1>1, <2>2, <3>1 DEF Timed
  <2>3. ASSUME NEW t \in timers' PROVE Timed(t)' /\ t \notin fired' /\ \A i \in DOMAIN events' : events'[i] # t
    BY <1>1, <2>1, <2>2 DEF IInv, Clocks
  <2>4. ASSUME NEW t \in fired' PROVE Timed(t)'
    BY <1>1, <2>1 DEF IInv, Clocks
  <2>5. ASSUME NEW i \in DOMAIN events', events'[i].kind \in {"call", "element"} PROVE Timed(events[i])'
    <3>1. PICK t : t = events[i]
      OBVIOUS
    <3>2. Timed(t)'
      BY <1>1, <2>1, <2>5, <3>1 DEF IInv, Clocks
    <3> QED
      BY <1>1, <3>1, <3>2 DEF Timed
  <2>6. ASSUME NEW t \in timers'
        PROVE  /\ t.call \in runtimes'
               /\ calls[t.call].status \in Live \/ Asks("cancel", t.call)'
               /\ t.kind = "element" /\ calls[t.call].status \in Live =>
                    calls[t.call].status = "fetching" /\ calls[t.call].yields = t.index
    <3>0. PICK k : k = t.call
      OBVIOUS
    <3>1. CASE t \notin timers
      BY <3>1
    <3>2. CASE t \in timers /\ k = c
      BY <1>1, <3>0, <3>2 DEF IInv, Clocks
    <3>3. CASE t \in timers /\ k # c
      BY <1>1, <1>2, <3>0, <3>3 DEF IInv, Clocks
    <3> QED
      BY <3>0, <3>1, <3>2, <3>3
  <2> QED
    BY <1>1, <2>3, <2>4, <2>5, <2>6 DEF Clocks
<1>12. Flushed' /\ Given'
  BY <1>1 DEF IInv, Flushed, Given, Fetchable, Going, Quiet
<1>13. DurableFirst'
  <2>1. durable = calls
    BY <1>1 DEF IInv, Flushed
  <2>2. DOMAIN code' \subseteq DOMAIN calls
    BY <1>2 DEF IInv, Typed
  <2>3. Frozen' /\ Obeyed'
    BY <1>8, <1>10
  <2> QED
    BY <1>1, <2>1, <2>2, <2>3 DEF DurableFirst, Frozen, Obeyed
<1> QED
  BY <1>3, <1>4, <1>5, <1>6, <1>7, <1>8, <1>9, <1>10, <1>11, <1>12, <1>13 DEF IInv

\* A call whose goroutine is started.
LEMMA StartKeeps ==
  ASSUME IInv, NEW e, Publishes(e), e.kind = "start", NEW c, c = e.call,
         calls[c].status \in Live,
         code' = [k \in DOMAIN code \cup {c} |-> IF k = c THEN NewCode ELSE code[k]],
         runtimes' = runtimes \cup {c},
         timers' = timers \cup Armed("call", c, 0),
         UNCHANGED local
  PROVE  IInv'
<1>1. /\ calls' = calls /\ phase = "publish" /\ phase' = "publish" /\ Driving /\ ending' = ending /\ ending = {}
      /\ events' = events
  BY DEF Publishes, machineVars, Driving, IInv, Owing
<1>2. /\ Asks("start", c) /\ c \in DOMAIN calls /\ ~Asks("start", c)'
      /\ \A kind, k : Asks(kind, k)' => Asks(kind, k)
      /\ Asks("fetch", c)' <=> Asks("fetch", c)
  BY PublishedAsks
<1>3. c \notin DOMAIN code /\ NotOver(c) /\ ~Owes(c)
  BY <1>2 DEF IInv, Asking, Asks
<1>4. /\ DOMAIN code' = DOMAIN code \cup {c}
      /\ \A k \in DOMAIN code : code'[k] = code[k]
      /\ code'[c] = NewCode
  BY <1>3
<1>5. /\ NewCode \in Routine /\ NewCode.at = "user" /\ NewCode.fetch = FALSE /\ NewCode.cancelled = FALSE
      /\ NewCode.index = 0
  BY DEF NewCode, Routine, Finals
<1>6. ~Coming(c)'
  BY <1>1, <1>3 DEF Coming, IInv, Reports
<1>7. Owing'
  <2>1. \A i \in DOMAIN local : local[i] # c
    BY <1>3 DEF Owes
  <2> QED
    BY <1>1, <1>4, <2>1 DEF IInv, Owing
<1>8. ASSUME NEW k, Asks("start", k)' PROVE k \notin DOMAIN code' /\ ~Owes(k)'
  BY <1>2, <1>4, <1>8 DEF IInv, Asking, Asks, Owes
<1>9. c \in LiveCalls /\ calls[c].stream => Stands(c)'
  <2>1. ASSUME c \in LiveCalls, calls[c].stream PROVE Stands(c)'
    <3>1. calls[c].yields = 0 /\ (calls[c].status = "fetching" => Asks("fetch", c))
      BY <1>1, <1>3, <2>1 DEF IInv, Fetched, Stands
    <3>2. calls[c].status = "fetching"
      BY <1>1, <1>2, <2>1 DEF IInv, Flushed, Fetchable, Live
    <3> QED
      BY <1>1, <1>2, <1>4, <1>5, <1>6, <3>1, <3>2 DEF Stands, ToAsk, Ready
  <2> QED
    BY <2>1
<1>10. ASSUME NEW t \in timers' \ timers
       PROVE  /\ t = EventOf(t.kind, t.call, t.index)
              /\ t.call = c /\ t.kind = "call" /\ t.kind \in Timeouts[c] /\ t \notin fired
              /\ \A i \in DOMAIN events : events[i] # t
  <2>1. t = EventOf(t.kind, t.call, t.index) /\ t.call = c /\ t.kind = "call" /\ t.kind \in Timeouts[c]
    BY <1>10 DEF Armed, EventOf
  <2>2. \A x \in fired : x.call \in DOMAIN code
    BY DEF IInv, Clocks, Timed
  <2>3. \A i \in DOMAIN events : events[i].call \in DOMAIN code
    BY DEF IInv, Reports
  <2> QED
    BY <1>3, <2>1, <2>2, <2>3
<1>11. \A k : Owes(k) => Owes(k)'
  BY DEF Owes
<1>12. calls[c].status # "cancelling" /\ c \in runtimes' /\ c \in DOMAIN code'
  BY <1>4 DEF Live
<1> QED
  BY <1>1, <1>2, <1>3, <1>4, <1>5, <1>7, <1>8, <1>9, <1>10, <1>11, <1>12, PublishKeeps

\* A call that was cancelled before its goroutine was started.
LEMMA StartLateKeeps ==
  ASSUME IInv, NEW e, Publishes(e), e.kind = "start", NEW c, c = e.call,
         calls[c].status = "cancelling", local' = Append(local, c), UNCHANGED <<code, runtimes, timers>>
  PROVE  IInv'
<1>1. /\ calls' = calls /\ phase = "publish" /\ phase' = "publish" /\ Driving /\ ending' = ending /\ ending = {}
      /\ events' = events
  BY DEF Publishes, machineVars, Driving, IInv, Owing
<1>2. /\ Asks("start", c) /\ c \in DOMAIN calls /\ ~Asks("start", c)'
      /\ \A kind, k : Asks(kind, k)' => Asks(kind, k)
  BY PublishedAsks
<1>3. c \notin DOMAIN code /\ ~Owes(c) /\ calls[c].status \notin Live
  BY <1>2 DEF IInv, Asking, Asks, Live
<1>4. /\ IsSequence(local')
      /\ \A i \in DOMAIN local' : (i \in DOMAIN local /\ local'[i] = local[i]) \/ (i = Len(local) + 1 /\ local'[i] = c)
      /\ \A i \in DOMAIN local : i \in DOMAIN local' /\ local'[i] = local[i]
      /\ \E i \in DOMAIN local' : local'[i] = c
  BY AppendFacts DEF IInv, Owing
<1>5. \A k : (Owes(k)' <=> Owes(k) \/ k = c)
  BY <1>4 DEF Owes
<1>6. Owing'
  <2>1. \A i \in DOMAIN local' : local'[i] \in DOMAIN calls /\ local'[i] \notin DOMAIN code /\ calls[local'[i]].status = "cancelling"
    BY <1>2, <1>3, <1>4 DEF IInv, Owing
  <2>2. \A i, j \in DOMAIN local' : local'[i] = local'[j] => i = j
    BY <1>3, <1>4 DEF IInv, Owing, Owes
  <2> QED
    BY <1>1, <1>4, <2>1, <2>2 DEF Owing
<1>7. ASSUME NEW k, Asks("start", k)' PROVE k \notin DOMAIN code' /\ ~Owes(k)'
  BY <1>2, <1>5, <1>7 DEF IInv, Asking, Asks
<1>8. \A t \in timers' : t.call # c
  BY <1>3 DEF IInv, Clocks, Timed
<1>9. c \notin LiveCalls /\ c \notin runtimes'
  BY <1>3 DEF LiveCalls, IInv, Reports
<1> QED
  BY <1>2, <1>3, <1>5, <1>6, <1>7, <1>8, <1>9, PublishKeeps

\* Effects that leave the queues of the driver as they were.
LEMMA QuietFacts ==
  ASSUME IInv, NEW e, Publishes(e), e.kind # "start", UNCHANGED <<runtimes, local>>, DOMAIN code' = DOMAIN code
  PROVE  /\ Owing'
         /\ \A k : Asks("start", k)' => k \notin DOMAIN code' /\ ~Owes(k)'
         /\ \A k : Owes(k) => Owes(k)'
         /\ NotOver(e.call) /\ (clock = "early" \/ ~quota) =>
              e.call \in runtimes' \/ Asks("start", e.call)' \/ Owes(e.call)' \/ e.call \in ending'
<1>1. calls' = calls /\ phase = "publish" /\ phase' = "publish" /\ Driving /\ ending' = ending
  BY DEF Publishes, machineVars, Driving
<1>2. /\ \A k : Asks("start", k) <=> Asks("start", k)'
      /\ e.call \in DOMAIN calls
  BY PublishedAsks
<1>3. Owing'
  BY <1>1 DEF IInv, Owing
<1>4. \A k : Owes(k) <=> Owes(k)'
  BY DEF Owes
<1>5. ASSUME NEW k, Asks("start", k)' PROVE k \notin DOMAIN code' /\ ~Owes(k)'
  BY <1>2, <1>4, <1>5 DEF IInv, Asking, Asks
<1>6. NotOver(e.call) /\ (clock = "early" \/ ~quota) =>
        e.call \in runtimes \/ Asks("start", e.call) \/ Owes(e.call) \/ e.call \in ending
  BY <1>1, <1>2 DEF IInv, Attended
<1> QED
  BY <1>1, <1>2, <1>3, <1>4, <1>5, <1>6

\* A fetch, told to a generator or to nobody any more.
LEMMA FetchPublished ==
  ASSUME IInv, NEW e, Publishes(e), e.kind = "fetch", PublishFetch(e.call)
  PROVE  IInv'
<1>1. PICK c : c = e.call
  OBVIOUS
<1>2. /\ calls' = calls /\ phase = "publish" /\ phase' = "publish" /\ Driving /\ ending' = ending
      /\ events' = events /\ UNCHANGED <<runtimes, local>>
  BY DEF Publishes, machineVars, Driving, PublishFetch
<1>3. /\ Asks("fetch", c) /\ c \in DOMAIN calls /\ ~Asks("fetch", c)' /\ ~Asks("start", c)
      /\ \A kind, k : Asks(kind, k)' => Asks(kind, k)
      /\ Asks("cancel", c)' <=> Asks("cancel", c)
  BY <1>1, PublishedAsks
<1>4. calls[c].stream /\ calls[c].status # "running"
  BY <1>3 DEF IInv, Asking, Asks
<1>5. c \in DOMAIN code =>
        /\ code[c] \in Routine
        /\ code[c].cancelled => calls[c].status \notin Live
        /\ code[c].at \in {"check", "next"} \/ (code[c].at = "send" /\ code[c].kind = "yielded") => ~code[c].fetch
        /\ code[c].fetch \/ code[c].at \in {"check", "next"} => calls[c].yields = code[c].index
  BY <1>2 DEF IInv, Typed, Obeyed, Frozen
<1>6. c \in runtimes => c \in DOMAIN code /\ (calls[c].status = "cancelling" => code[c].cancelled \/ Asks("cancel", c))
  BY <1>2 DEF IInv, Reports, Obeyed
<1>7. \A t \in timers : t.call = c => calls[c].status \in Live \/ Asks("cancel", c)
  BY <1>2 DEF IInv, Clocks
<1>8. CASE c \in runtimes /\ calls[c].status = "fetching"
  <2>1. /\ code' = [code EXCEPT ![c].fetch = TRUE] /\ timers' = timers \cup Armed("element", c, calls[c].yields)
    BY <1>1, <1>8 DEF PublishFetch
  <2>2. c \in DOMAIN code /\ c \in LiveCalls
    BY <1>3, <1>6, <1>8 DEF LiveCalls, Live
  <2>3. /\ DOMAIN code' = DOMAIN code
        /\ \A k \in DOMAIN code : k # c => code'[k] = code[k]
        /\ code'[c] \in Routine
        /\ code'[c].at = code[c].at /\ code'[c].kind = code[c].kind /\ code'[c].index = code[c].index
        /\ (code'[c].cancelled <=> code[c].cancelled) /\ code'[c].fetch = TRUE
    BY <1>5, <2>1, <2>2 DEF Routine
  <2>4. ToAsk(c) /\ code[c].index = calls[c].yields
    <3>1. Stands(c)
      BY <1>2, <1>4, <2>2 DEF IInv, Fetched
    <3> QED
      BY <1>3, <2>2, <3>1 DEF Stands, Ahead, Unasked, Told, Moving
  <2>5. Ready(c) => ~(code[c].at \in {"check", "next"} \/ (code[c].at = "send" /\ code[c].kind = "yielded"))
    BY DEF Ready, Finals
  <2>6. Stands(c)'
    <3>1. ~Coming(c)'
      BY <1>2, <2>4 DEF ToAsk, Coming
    <3>2. Ready(c)'
      BY <2>3, <2>4 DEF ToAsk, Ready
    <3>3. Told(c)'
      BY <1>2, <1>3, <1>8, <2>3, <3>1, <3>2 DEF Told
    <3> QED
      BY <1>2, <2>2, <2>3, <2>4, <3>3 DEF Stands
  <2>7. ASSUME NEW t \in timers' \ timers
        PROVE  /\ t = EventOf(t.kind, t.call, t.index)
               /\ t.call = c /\ t.kind = "element" /\ t.kind \in Timeouts[c] /\ t.index = calls[c].yields
               /\ t \notin fired /\ \A i \in DOMAIN events : events[i] # t
    <3>1. t = EventOf(t.kind, t.call, t.index) /\ t.call = c /\ t.kind = "element" /\ t.kind \in Timeouts[c] /\ t.index = calls[c].yields
      BY <2>1, <2>7 DEF Armed, EventOf
    <3>2. ~Timed(t)
      <4>1. calls[c].yields \in Nat
        BY <1>3 DEF IInv, Lives, CallRecord
      <4> QED
        BY <1>3, <3>1, <4>1 DEF Timed
    <3> QED
      BY <3>1, <3>2 DEF IInv, Clocks
  <2>8. calls[c].status \in Live /\ calls[c].status # "cancelling"
    BY <1>8 DEF Live
  <2>9. /\ Owing'
        /\ \A k : Asks("start", k)' => k \notin DOMAIN code' /\ ~Owes(k)'
        /\ \A k : Owes(k) => Owes(k)'
    BY <2>3, <1>2, QuietFacts
  <2>10. ~(code'[c].at \in {"check", "next"} \/ (code'[c].at = "send" /\ code'[c].kind = "yielded"))
    BY <2>3, <2>4, <2>5 DEF ToAsk
  <2> QED
    BY <1>1, <1>2, <1>3, <1>4, <1>5, <1>8, <2>2, <2>3, <2>4, <2>6, <2>7, <2>8, <2>9, <2>10, PublishKeeps
<1>9. CASE ~(c \in runtimes /\ calls[c].status = "fetching")
  <2>1. UNCHANGED <<code, timers>>
    BY <1>1, <1>9 DEF PublishFetch
  <2>2. c \notin LiveCalls
    <3>1. ASSUME c \in LiveCalls PROVE FALSE
      <4>1. c \in runtimes
        BY <1>2, <1>3, <3>1, LiveAttended
      <4>2. calls[c].status = "fetching"
        BY <1>4, <3>1 DEF LiveCalls, Live
      <4> QED
        BY <1>9, <4>1, <4>2
    <3> QED
      BY <3>1
  <2>3. /\ Owing'
        /\ \A k : Asks("start", k)' => k \notin DOMAIN code' /\ ~Owes(k)'
        /\ \A k : Owes(k) => Owes(k)'
        /\ NotOver(c) /\ (clock = "early" \/ ~quota) => c \in runtimes' \/ Asks("start", c)' \/ Owes(c)' \/ c \in ending'
    BY <1>1, <1>2, <2>1, QuietFacts
  <2> QED
    BY <1>1, <1>2, <1>3, <1>4, <1>5, <1>6, <1>7, <2>1, <2>2, <2>3, PublishKeeps
<1> QED
  BY <1>8, <1>9

\* A goroutine that is told to stop.
LEMMA CancelPublished ==
  ASSUME IInv, NEW e, Publishes(e), e.kind = "cancel", PublishCancel(e.call)
  PROVE  IInv'
<1>1. PICK c : c = e.call
  OBVIOUS
<1>2. /\ calls' = calls /\ phase = "publish" /\ Driving
      /\ UNCHANGED <<runtimes, local>>
      /\ code' = Cancelled({c} \cap runtimes) /\ timers' = timers \ TimersOf({c} \cap runtimes)
  BY <1>1 DEF Publishes, machineVars, Driving, PublishCancel
<1>3. Asks("cancel", c) /\ c \in DOMAIN calls
  BY <1>1, PublishedAsks
<1>4. calls[c].status \notin Live /\ c \notin LiveCalls
  BY <1>3 DEF IInv, Asking, Asks, LiveCalls
<1>5. /\ DOMAIN code' = DOMAIN code
      /\ \A k \in DOMAIN code : k # c => code'[k] = code[k]
      /\ c \in DOMAIN code =>
           /\ code'[c] \in Routine
           /\ code'[c].at = code[c].at /\ code'[c].kind = code[c].kind /\ code'[c].index = code[c].index
           /\ (code'[c].fetch <=> code[c].fetch)
           /\ c \in runtimes => code'[c].cancelled
  BY <1>2 DEF Cancelled, IInv, Typed, Routine
<1>6. timers' \subseteq timers /\ \A t \in timers' : t.call # c
  BY <1>2 DEF TimersOf, IInv, Clocks
<1>7. c \in DOMAIN code =>
        /\ code[c].at \in {"check", "next"} \/ (code[c].at = "send" /\ code[c].kind = "yielded") => ~code[c].fetch
        /\ code[c].fetch \/ code[c].at \in {"check", "next"} => calls[c].status # "running" /\ calls[c].yields = code[c].index
  BY DEF IInv, Typed, Frozen
<1>8. c \in runtimes => c \in DOMAIN code
  BY DEF IInv, Reports
<1>9. /\ Owing'
      /\ \A k : Asks("start", k)' => k \notin DOMAIN code' /\ ~Owes(k)'
      /\ \A k : Owes(k) => Owes(k)'
      /\ NotOver(c) /\ (clock = "early" \/ ~quota) => c \in runtimes' \/ Asks("start", c)' \/ Owes(c)' \/ c \in ending'
  BY <1>1, <1>2, <1>5, QuietFacts
<1>10. c \in DOMAIN code' =>
         /\ code'[c] \in Routine
         /\ c \notin DOMAIN code => c \in runtimes' /\ code'[c].at # "over"
         /\ code'[c].at \in {"check", "next"} \/ (code'[c].at = "send" /\ code'[c].kind = "yielded") => ~code'[c].fetch
         /\ code'[c].cancelled => calls[c].status \notin Live
         /\ code'[c].fetch \/ code'[c].at \in {"check", "next"} =>
              calls[c].status # "running" /\ calls[c].yields = code'[c].index
  BY <1>4, <1>5, <1>7
<1>11. c \in DOMAIN code => code'[c].at = code[c].at /\ code'[c].kind = code[c].kind
  BY <1>5
<1>12. /\ c \in runtimes' /\ calls[c].status = "cancelling" => code'[c].cancelled \/ Asks("cancel", c)'
       /\ c \in LiveCalls /\ calls[c].stream => Stands(c)'
       /\ \A t \in timers' : t.call = c => calls[c].status \in Live \/ Asks("cancel", c)'
       /\ \A t \in timers' \ timers : FALSE
  BY <1>2, <1>4, <1>5, <1>6, <1>8
<1>13. /\ DOMAIN code' \subseteq DOMAIN code \cup {c} /\ DOMAIN code \subseteq DOMAIN code'
       /\ runtimes' = runtimes
       /\ \A k \in DOMAIN code : k # c => code'[k] = code[k]
  BY <1>2, <1>5
<1> QED
  BY <1>1, <1>9, <1>10, <1>11, <1>12, <1>13, PublishKeeps

\* Any effect.
LEMMA PublishesKeep ==
  ASSUME IInv, Publish
  PROVE  IInv'
<1>1. PICK e : e = Head(effects)
  OBVIOUS
<1>2. Publishes(e)
  BY <1>1 DEF Publish, Publishes
<1>3. \/ e.kind = "start" /\ PublishStart(e.call)
      \/ e.kind = "fetch" /\ PublishFetch(e.call)
      \/ e.kind = "cancel" /\ PublishCancel(e.call)
  BY <1>1 DEF Publish
<1>4. ASSUME e.kind = "start", PublishStart(e.call) PROVE IInv'
  BY <1>2, <1>4, StartKeeps, StartLateKeeps DEF PublishStart
<1> QED
  BY <1>2, <1>3, <1>4, FetchPublished, CancelPublished

-----------------------------------------------------------------------------
(* From phase to phase *)

\* The goroutines, the timers and the queues stay as they are.
LEMMA PhaseKeeps ==
  ASSUME IInv,
         UNCHANGED <<status, cancelled, calls, ending, effects, runtimes, local, quota, events, timers, fired, code>>,
         phase' \in {"pass", "publish", "abandon", "done"}, phase' # "pass" => ending = {}, Driving' => Driving,
         started' \in BOOLEAN, clock' \in {"early", "late"}, clock = "late" => clock' = "late",
         Flushed', DurableFirst', Given'
  PROVE  IInv'
<1>1. Lives'
  BY DEF IInv, Lives
<1>2. Typed' /\ Frozen'
  BY DEF IInv, Typed, Frozen
<1>3. Reports'
  BY DEF IInv, Reports, NotOver, Ending
<1>4. Asking'
  BY DEF IInv, Asking, NotOver, Owes
<1>5. Owing'
  BY DEF IInv, Owing
<1>6. Attended'
  <2>1. Driving' /\ (clock' = "early" \/ ~quota) => Driving /\ (clock = "early" \/ ~quota)
    BY DEF IInv, Typed
  <2> QED
    BY <2>1 DEF IInv, Attended, NotOver, Asks, Owes
<1>7. Obeyed'
  BY DEF IInv, Obeyed, Asks
<1>8. Fetched'
  BY DEF IInv, Fetched, LiveCalls, Stands, Ahead, Unasked, ToAsk, Told, Moving, Ready, Coming, Asks
<1>9. Clocks'
  BY DEF IInv, Clocks, Timed, Asks
<1> QED
  BY <1>1, <1>2, <1>3, <1>4, <1>5, <1>6, <1>7, <1>8, <1>9 DEF IInv

\* The execution starts.
LEMMA BootKeeps ==
  ASSUME IInv, Boot
  PROVE  IInv'
<1>1. /\ phase = "boot" /\ phase' = "pass" /\ started' = TRUE
      /\ UNCHANGED <<status, cancelled, calls, error, ending, effects, runtimes, local, quota, durable, hostVars>>
  BY DEF Boot, Start
<1>2. UNCHANGED <<events, timers, fired, code, clock>>
  BY <1>1 DEF hostVars
<1>3. DOMAIN calls = {} /\ DOMAIN code = {} /\ runtimes = {} /\ timers = {} /\ clock = "early"
  BY <1>1 DEF IInv, Given, Typed, Reports, Clocks, Timed
<1>4. Driving'
  BY <1>1 DEF Driving
<1>5. Lives'
  BY <1>1 DEF IInv, Lives
<1>6. Typed' /\ Frozen'
  BY <1>1, <1>2, <1>3 DEF IInv, Typed, Frozen
<1>7. Reports'
  BY <1>1, <1>2 DEF IInv, Reports, NotOver, Ending
<1>8. Asking'
  BY <1>1, <1>2 DEF IInv, Asking, NotOver, Owes
<1>9. Owing'
  BY <1>1, <1>2 DEF IInv, Owing
<1>10. Attended' /\ Obeyed' /\ Fetched'
  BY <1>1, <1>2, <1>3 DEF Attended, Obeyed, Fetched, LiveCalls
<1>11. Clocks'
  BY <1>1, <1>2, <1>3 DEF IInv, Clocks, Timed, Asks
<1>12. Flushed' /\ DurableFirst' /\ Given'
  BY <1>1, <1>2, <1>3 DEF IInv, Flushed, DurableFirst, Given
<1> QED
  BY <1>5, <1>6, <1>7, <1>8, <1>9, <1>10, <1>11, <1>12 DEF IInv

\* The loop returns without a report.
LEMMA GiveUpKeeps ==
  ASSUME IInv, NEW what, NEW waited, GiveUp(what, waited), Driving, ending = {},
         what = "stuck" => quota /\ clock = "late",
         UNCHANGED <<machineVars, ending, effects, runtimes, local, quota, durable, events, fired, clock>>
  PROVE  IInv'
<1>1. phase' = "abandon" /\ ~Driving' /\ error' = what /\ timers' \subseteq timers
  BY DEF GiveUp, Driving
<1>2. UNCHANGED <<status, started, cancelled, calls>>
  BY DEF machineVars
<1>3. /\ DOMAIN code' = DOMAIN code
      /\ \A c \in DOMAIN code :
           /\ code'[c] \in Routine
           /\ code'[c].at = code[c].at /\ code'[c].kind = code[c].kind /\ code'[c].index = code[c].index
           /\ (code'[c].fetch <=> code[c].fetch)
  BY DEF GiveUp, Cancelled, IInv, Typed, Routine
<1>4. Lives'
  BY <1>2 DEF IInv, Lives
<1>5. Typed'
  BY <1>1, <1>2, <1>3 DEF IInv, Typed
<1>6. Frozen'
  BY <1>2, <1>3 DEF IInv, Frozen
<1>7. Reports'
  BY <1>2, <1>3 DEF IInv, Reports, NotOver, Ending
<1>8. Asking'
  BY <1>1, <1>2, <1>3 DEF IInv, Asking, NotOver, Owes
<1>9. Owing'
  BY <1>2, <1>3 DEF IInv, Owing
<1>10. Attended' /\ Obeyed' /\ Fetched'
  BY <1>1 DEF Attended, Obeyed, Fetched
<1>11. Clocks'
  <2>1. ASSUME NEW t, Timed(t) PROVE Timed(t)'
    BY <1>2, <1>3, <2>1 DEF Timed, Asks
  <2>2. ASSUME NEW i \in DOMAIN events', events'[i].kind \in {"call", "element"} PROVE Timed(events[i])'
    <3>1. PICK t : t = events[i]
      OBVIOUS
    <3>2. Timed(t)'
      BY <2>1, <2>2, <3>1 DEF IInv, Clocks
    <3> QED
      BY <3>1, <3>2 DEF Timed
  <2>3. \A t \in timers' : Timed(t)' /\ t \notin fired' /\ \A i \in DOMAIN events' : events'[i] # t
    BY <1>1, <2>1 DEF IInv, Clocks
  <2>4. \A t \in fired' : Timed(t)'
    BY <2>1 DEF IInv, Clocks
  <2> QED
    BY <1>1, <2>2, <2>3, <2>4 DEF Clocks
<1>12. Flushed' /\ Given'
  BY <1>1, <1>2 DEF IInv, Flushed, Given
<1>13. DurableFirst'
  BY <1>1, <1>3 DEF IInv, DurableFirst
<1> QED
  BY <1>4, <1>5, <1>6, <1>7, <1>8, <1>9, <1>10, <1>11, <1>12, <1>13 DEF IInv

\* The journal takes what has been recorded, or fails.
LEMMA FlushKeeps ==
  ASSUME IInv, Flush
  PROVE  IInv'
<1>1. /\ phase = "pass" /\ ending = {} /\ Driving
      /\ Running => Fetchable = {}
      /\ Going => ~Quiet
      /\ UNCHANGED <<machineVars, ending, effects, runtimes, local, quota, events, fired, clock>>
  BY DEF Flush, PassEnded, Driving
<1>2. UNCHANGED <<status, started, cancelled, calls>>
  BY <1>1 DEF machineVars
<1>3. CASE phase' = "publish" /\ buffered' = FALSE /\ durable' = calls /\ UNCHANGED <<error, timers, code>>
  <2>1. Flushed'
    <3>1. Fetchable = {}
      <4>1. ASSUME NEW c \in Fetchable PROVE FALSE
        <5>1. c \in DOMAIN calls /\ calls[c].status \in Live
          BY DEF Fetchable, Live
        <5>2. Running
          BY <1>1, <5>1 DEF IInv, Lives, Given, Running
        <5> QED
          BY <1>1, <5>2
      <4> QED
        BY <4>1
    <3> QED
      BY <1>1, <1>2, <1>3, <3>1 DEF Flushed, Fetchable, Going, Quiet
  <2>2. DurableFirst'
    <3>1. \A c \in DOMAIN code : c \in DOMAIN calls
      BY DEF IInv, Typed
    <3> QED
      BY <1>1, <1>2, <1>3, <3>1 DEF DurableFirst, IInv, Frozen, Obeyed
  <2>3. Given'
    BY <1>1, <1>2, <1>3, Zenon DEF IInv, Given
  <2>4. Driving'
    BY <1>3 DEF Driving
  <2> QED
    BY <1>1, <1>2, <1>3, <2>1, <2>2, <2>3, <2>4, PhaseKeeps DEF IInv, Lives, Typed
<1>4. CASE GiveUp("journal", runtimes) /\ UNCHANGED <<buffered, durable>>
  BY <1>1, <1>4, GiveUpKeeps
<1> QED
  BY <1>3, <1>4 DEF Flush

\* The loop has nobody to wait for: past the deadline, after a stop by quota.
LEMMA StuckKeeps ==
  ASSUME IInv, Stuck
  PROVE  IInv'
<1>1. /\ phase = "publish" /\ effects = <<>> /\ status \notin Terminal /\ local = <<>> /\ runtimes = {} /\ Driving
      /\ GiveUp("stuck", {})
      /\ UNCHANGED <<machineVars, ending, effects, runtimes, local, quota, durable, events, fired, clock>>
  BY DEF Stuck, Turn, Driving
<1>2. ending = {}
  BY <1>1 DEF IInv, Owing
<1>3. Going
  BY <1>1 DEF IInv, Given, Lives, Going, Terminal
<1>4. PICK c \in DOMAIN calls : NotOver(c)
  BY <1>1, <1>3 DEF IInv, Flushed, Quiet, NotOver
<1>5. ~Asks("start", c) /\ ~Owes(c)
  BY <1>1 DEF Asks, Owes
<1>6. quota /\ clock = "late"
  BY <1>1, <1>2, <1>4, <1>5 DEF IInv, Attended, Typed
<1> QED
  BY <1>1, <1>2, <1>6, GiveUpKeeps

\* The execution is over, with every call.
LEMMA FinishKeeps ==
  ASSUME IInv, Finish
  PROVE  IInv'
<1>1. /\ phase = "publish" /\ status \in Terminal /\ phase' = "done"
      /\ UNCHANGED <<machineVars, error, ending, effects, runtimes, local, quota, durable, events, timers, fired, code, clock>>
  BY DEF Finish, hostVars
<1>2. UNCHANGED <<status, started, cancelled, calls>> /\ ~Driving'
  BY <1>1 DEF machineVars, Driving
<1>3. runtimes = {} /\ ending = {}
  BY <1>1 DEF IInv, Lives, Reports, NotOver, Typed, Owing
<1>4. Flushed' /\ Given'
  BY <1>1, <1>2, <1>3 DEF IInv, Flushed, Given
<1>5. DurableFirst'
  BY <1>1, <1>2 DEF IInv, DurableFirst
<1> QED
  BY <1>1, <1>2, <1>3, <1>4, <1>5, PhaseKeeps DEF IInv, Lives, Typed

\* A loop that has given up hears the ends of its goroutines.
LEMMA AbandonKeeps ==
  ASSUME IInv, Abandon
  PROVE  IInv'
<1>1. /\ phase = "abandon" /\ phase' \in {"abandon", "done"}
      /\ UNCHANGED <<machineVars, error, ending, effects, local, quota, durable, timers, fired, code, clock>>
      /\ phase' = "done" => runtimes' = {}
      /\ Takes
  BY DEF Abandon, Takes
<1>2. UNCHANGED <<status, started, cancelled, calls>> /\ ~Driving'
  BY <1>1 DEF machineVars, Driving
<1>3. Lives' /\ Typed' /\ Frozen'
  BY <1>1, <1>2 DEF IInv, Lives, Typed, Frozen
<1>4. Reports'
  BY <1>1, <1>2, TakenReports DEF IInv, Reports, NotOver, Takes
<1>5. Asking'
  BY <1>1, <1>2 DEF IInv, Asking, NotOver, Owes
<1>6. Owing'
  <2>1. runtimes' \subseteq runtimes /\ ending = {}
    BY <1>1 DEF Takes, IInv, Owing
  <2> QED
    BY <1>1, <1>2, <2>1 DEF IInv, Owing
<1>7. Attended' /\ Obeyed' /\ Fetched'
  BY <1>2 DEF Attended, Obeyed, Fetched
<1>8. Clocks'
  <2>1. \A i \in DOMAIN events' : \E j \in DOMAIN events : events'[i] = events[j]
    BY <1>1, TailFacts DEF Takes, IInv, Reports
  <2>2. ASSUME NEW t, Timed(t) PROVE Timed(t)'
    BY <1>1, <1>2, <2>2 DEF Timed, Asks
  <2>3. ASSUME NEW i \in DOMAIN events', events'[i].kind \in {"call", "element"} PROVE Timed(events'[i])
    BY <2>1, <2>3 DEF IInv, Clocks
  <2>4. ASSUME NEW i \in DOMAIN events', events'[i].kind \in {"call", "element"}, NEW t, t = events'[i] PROVE Timed(t)'
    BY <2>2, <2>3, <2>4
  <2>5. \A i \in DOMAIN events' : events'[i].kind \in {"call", "element"} => Timed(events[i])'
    <3>1. ASSUME NEW i \in DOMAIN events', events'[i].kind \in {"call", "element"} PROVE Timed(events[i])'
      <4>1. PICK t : t = events'[i]
        OBVIOUS
      <4>2. Timed(t)'
        BY <2>4, <3>1, <4>1
      <4> QED
        BY <4>1, <4>2 DEF Timed
    <3> QED
      BY <3>1
  <2>6. \A t \in timers' : Timed(t)' /\ t \notin fired' /\ \A i \in DOMAIN events' : events'[i] # t
    BY <1>1, <2>1, <2>2 DEF IInv, Clocks
  <2>7. \A t \in fired' : Timed(t)'
    BY <1>1, <2>2 DEF IInv, Clocks
  <2> QED
    BY <1>2, <2>5, <2>6, <2>7 DEF Clocks
<1>9. Flushed' /\ Given' /\ DurableFirst'
  BY <1>1, <1>2 DEF IInv, Flushed, Given, DurableFirst
<1> QED
  BY <1>3, <1>4, <1>5, <1>6, <1>7, <1>8, <1>9 DEF IInv

-----------------------------------------------------------------------------
(* Goroutines *)

\* The goroutine of c goes on, and nobody hears of it yet.
LEMMA GoroutineKeeps ==
  ASSUME IInv, NEW c \in DOMAIN code, NEW it, Goroutine(c, it), UNCHANGED events,
         code[c].at # "over", it.at # "over", it \in Routine,
         it.cancelled <=> code[c].cancelled, it.index = code[c].index,
         it.at \in {"check", "next"} \/ (it.at = "send" /\ it.kind = "yielded") => ~it.fetch,
         it.fetch \/ it.at \in {"check", "next"} => code[c].fetch \/ code[c].at \in {"check", "next"},
         Driving /\ c \in LiveCalls /\ calls[c].stream => Stands(c)'
  PROVE  IInv'
<1>1. /\ UNCHANGED <<machineVars, driverVars, timers, fired, clock>>
      /\ DOMAIN code' = DOMAIN code /\ code'[c] = it
      /\ \A k \in DOMAIN code : k # c => code'[k] = code[k]
  BY DEF Goroutine
<1>2. UNCHANGED <<status, started, cancelled, calls, phase, error, ending, effects, runtimes, local, quota, durable>>
  BY <1>1 DEF machineVars, driverVars
<1>3. (Driving' <=> Driving) /\ \A kind, k : Asks(kind, k)' <=> Asks(kind, k)
  BY <1>2 DEF Driving, Asks
<1>4. Lives'
  BY <1>2 DEF IInv, Lives
<1>5. Typed'
  BY <1>1, <1>2 DEF IInv, Typed
<1>6. Frozen'
  BY <1>1, <1>2 DEF IInv, Frozen
<1>7. Reports'
  <2>1. \A k \in DOMAIN code : k \notin runtimes => code'[k].at = "over"
    BY <1>1 DEF IInv, Reports
  <2>2. \A k \in runtimes : k \in DOMAIN code /\ NotOver(k) /\ (code'[k].at = "over" => Ending(k))
    BY <1>1 DEF IInv, Reports
  <2>3. \A i \in DOMAIN events : events[i].kind \in Finals => code'[events[i].call].at = "over"
    BY <1>1 DEF IInv, Reports
  <2> QED
    BY <1>1, <1>2, <2>1, <2>2, <2>3 DEF IInv, Reports, NotOver, Ending
<1>8. Asking' /\ Owing'
  BY <1>1, <1>2 DEF IInv, Asking, Owing, NotOver, Owes
<1>9. Attended'
  BY <1>1, <1>2, <1>3 DEF IInv, Attended, NotOver, Owes
<1>10. Obeyed'
  <2>1. \A k \in DOMAIN code : code'[k].cancelled <=> code[k].cancelled
    BY <1>1
  <2>2. runtimes \subseteq DOMAIN code
    BY DEF IInv, Reports
  <2>3. ASSUME Driving, NEW k \in runtimes, calls[k].status = "cancelling" PROVE code'[k].cancelled \/ Asks("cancel", k)'
    BY <1>3, <2>1, <2>2, <2>3 DEF IInv, Obeyed
  <2>4. ASSUME Driving, NEW k \in DOMAIN code, code'[k].cancelled PROVE calls[k].status \notin Live
    BY <2>1, <2>4 DEF IInv, Obeyed
  <2> QED
    BY <1>1, <1>2, <1>3, <2>3, <2>4 DEF Obeyed
<1>11. Fetched'
  <2>1. ASSUME Driving, NEW k \in LiveCalls, calls[k].stream PROVE Stands(k)'
    <3>1. CASE k # c
      BY <1>1, <1>2, <1>3, <2>1, <3>1, StandsStill DEF IInv, Fetched
    <3> QED
      BY <2>1, <3>1
  <2> QED
    BY <1>2, <1>3, <2>1 DEF Fetched, LiveCalls
<1>12. Clocks'
  <2>1. DOMAIN code' = DOMAIN code /\ calls' = calls /\ timers' = timers /\ fired' = fired /\ runtimes' = runtimes
    BY <1>1, <1>2
  <2> QED
    BY <1>3, <2>1 DEF IInv, Clocks, Timed
<1>13. Flushed'
  BY <1>2 DEF IInv, Flushed, Fetchable, Going, Quiet
<1>14. Given'
  BY <1>1, <1>2, <1>3, Zenon DEF IInv, Given
<1>15. DurableFirst'
  <2>1. ASSUME NEW k \in DOMAIN code
        PROVE  /\ k \in DOMAIN durable
               /\ code'[k].fetch \/ code'[k].at \in {"check", "next"} =>
                    durable[k].status # "running" /\ durable[k].yields = code'[k].index
               /\ code'[k].cancelled /\ Driving => durable[k].status \notin Live
    BY <1>1 DEF IInv, DurableFirst
  <2> QED
    BY <1>1, <1>2, <1>3, <2>1 DEF DurableFirst
<1> QED
  BY <1>4, <1>5, <1>6, <1>7, <1>8, <1>9, <1>10, <1>11, <1>12, <1>13, <1>14, <1>15 DEF IInv

\* The ways in which a live generator goes on.
LEMMA MovesOn ==
  ASSUME IInv, NEW c \in DOMAIN code, NEW it, Goroutine(c, it), UNCHANGED events, it.index = code[c].index, it \in Routine,
         \/ /\ code[c].at = "user" /\ (it.fetch <=> code[c].fetch)
            /\ it.at = "select" \/ (it.at = "send" /\ it.kind \in Finals)
         \/ code[c].at = "select" /\ code[c].fetch /\ it.at = "check" /\ ~it.fetch
         \/ code[c].at = "check" /\ it.at = "next" /\ ~it.fetch
         \/ code[c].at = "next" /\ it.at = "send" /\ ~it.fetch
         \/ code[c].cancelled
         \/ code[c].at = "exit"
  PROVE  Driving /\ c \in LiveCalls /\ calls[c].stream => Stands(c)'
<1> SUFFICES ASSUME Driving, c \in LiveCalls, calls[c].stream PROVE Stands(c)'
  OBVIOUS
<1>1. /\ calls' = calls /\ effects' = effects /\ events' = events /\ c \in DOMAIN code' /\ code'[c] = it
  BY DEF Goroutine, machineVars, driverVars
<1>2. (Asks("fetch", c)' <=> Asks("fetch", c)) /\ (Coming(c)' <=> Coming(c))
  BY <1>1 DEF Asks, Coming
<1>3. Stands(c)
  BY DEF IInv, Fetched
<1>4. ~code[c].cancelled
  BY DEF IInv, Obeyed, LiveCalls
<1>5. code[c].at # "exit"
  BY <1>3 DEF Stands, Ahead, Unasked, ToAsk, Told, Moving, Ready
<1>6. CASE /\ code[c].at = "user" /\ (it.fetch <=> code[c].fetch)
           /\ it.at = "select" \/ (it.at = "send" /\ it.kind \in Finals)
  <2>1. (ToAsk(c) \/ Told(c)) /\ code[c].index = calls[c].yields
    BY <1>3, <1>6 DEF Stands, Ahead, Unasked, Moving
  <2>2. Ready(c)'
    BY <1>1, <1>6 DEF Ready
  <2>3. ToAsk(c)' \/ Told(c)'
    BY <1>1, <1>2, <1>6, <2>1, <2>2 DEF ToAsk, Told
  <2> QED
    BY <1>1, <2>1, <2>3 DEF Stands
<1>7. CASE \/ code[c].at = "select" /\ code[c].fetch /\ it.at = "check" /\ ~it.fetch
           \/ code[c].at = "check" /\ it.at = "next" /\ ~it.fetch
           \/ code[c].at = "next" /\ it.at = "send" /\ ~it.fetch
  <2>1. (Told(c) \/ Moving(c)) /\ code[c].index = calls[c].yields
    BY <1>3, <1>7 DEF Stands, Ahead, Unasked, ToAsk, Ready
  <2>2. Moving(c)'
    BY <1>1, <1>2, <1>7, <2>1 DEF Moving, Told
  <2> QED
    BY <1>1, <2>1, <2>2 DEF Stands
<1> QED
  BY <1>4, <1>5, <1>6, <1>7

\* User code, and the generator around it.
LEMMA CodeKeeps ==
  ASSUME IInv, NEW c \in DOMAIN code, Generate(c) \/ UserCode(c)
  PROVE  IInv'
<1>1. code[c] \in Routine /\ code[c].index \in Nat
  BY DEF IInv, Typed, Routine
<1>2. ASSUME NEW it, Goroutine(c, it), UNCHANGED events, it \in Routine,
             it.cancelled <=> code[c].cancelled, it.index = code[c].index,
             \/ code[c].at = "user" /\ it.at = "select" /\ (it.fetch <=> code[c].fetch)
             \/ code[c].at = "user" /\ it.at = "send" /\ it.kind \in Finals /\ (it.fetch <=> code[c].fetch)
             \/ code[c].at = "select" /\ code[c].fetch /\ it.at = "check" /\ ~it.fetch
             \/ code[c].at = "check" /\ it.at = "next" /\ (it.fetch <=> code[c].fetch)
             \/ code[c].at = "next" /\ it.at = "send" /\ (it.fetch <=> code[c].fetch)
             \/ code[c].at \in {"select", "check", "next"} /\ code[c].cancelled /\ it.at = "exit" /\ (it.fetch <=> code[c].fetch)
             \/ code[c].at = "exit" /\ it.at = "send" /\ it.kind \in Finals /\ (it.fetch <=> code[c].fetch)
      PROVE  IInv'
  <2>1. code[c].at \in {"check", "next"} => ~code[c].fetch
    BY DEF IInv, Typed
  <2>2. Driving /\ c \in LiveCalls /\ calls[c].stream => Stands(c)'
    BY <1>2, <2>1, MovesOn
  <2>3. code[c].at # "over" /\ it.at # "over"
    BY <1>2
  <2>4. it.at \in {"check", "next"} \/ (it.at = "send" /\ it.kind = "yielded") => ~it.fetch
    BY <1>2, <2>1 DEF Finals
  <2>5. it.fetch \/ it.at \in {"check", "next"} => code[c].fetch \/ code[c].at \in {"check", "next"}
    BY <1>2
  <2> QED
    BY <1>2, <2>2, <2>3, <2>4, <2>5, GoroutineKeeps
<1>3. ASSUME NEW kind \in {"yielded"} \cup Finals, Reporting(c, kind),
             code[c].at \in {"user", "next", "exit"}, code[c].at # "next" => kind \in Finals
      PROVE  IInv'
  <2> DEFINE it == [code[c] EXCEPT !.at = "send", !.kind = kind]
  <2>1. /\ it \in Routine /\ it.cancelled = code[c].cancelled /\ it.index = code[c].index /\ it.at = "send"
        /\ it.fetch = code[c].fetch /\ it.kind = kind
    BY <1>1 DEF Routine
  <2>2. Goroutine(c, it) /\ UNCHANGED events
    BY <1>3 DEF Reporting
  <2> HIDE DEF it
  <2> QED
    BY <1>2, <1>3, <2>1, <2>2
<1>4. ASSUME NEW at, at \in {"select", "next", "exit"}, Goroutine(c, [code[c] EXCEPT !.at = at]), UNCHANGED events,
             \/ code[c].at = "user" /\ at = "select"
             \/ code[c].at = "check" /\ at = "next"
             \/ code[c].at \in {"select", "check", "next"} /\ code[c].cancelled /\ at = "exit"
      PROVE  IInv'
  <2> DEFINE it == [code[c] EXCEPT !.at = at]
  <2>1. /\ it \in Routine /\ it.cancelled = code[c].cancelled /\ it.index = code[c].index /\ it.at = at
        /\ it.fetch = code[c].fetch
    BY <1>1, <1>4 DEF Routine
  <2>2. Goroutine(c, it)
    BY <1>4
  <2> HIDE DEF it
  <2> QED
    BY <1>2, <1>4, <2>1, <2>2
<1>5. CASE CodeReturns(c)
  <2>1. Thrown \subseteq Finals /\ Refused \subseteq Finals /\ Misjudged \subseteq Finals /\ "returned" \in Finals /\ "judged" \in Finals
    BY DEF Thrown, Refused, Misjudged, Finals
  <2> QED
    BY <1>3, <1>4, <1>5, <2>1 DEF CodeReturns
<1>6. CASE GenerateSelect(c)
  <2>1. CASE code[c].fetch /\ Goroutine(c, [code[c] EXCEPT !.at = "check", !.fetch = FALSE])
    <3> DEFINE it == [code[c] EXCEPT !.at = "check", !.fetch = FALSE]
    <3>1. /\ it \in Routine /\ it.cancelled = code[c].cancelled /\ it.index = code[c].index /\ it.at = "check"
          /\ it.fetch = FALSE
      BY <1>1 DEF Routine
    <3>2. Goroutine(c, it) /\ UNCHANGED events /\ code[c].at = "select"
      BY <1>6, <2>1 DEF GenerateSelect
    <3> HIDE DEF it
    <3> QED
      BY <1>2, <2>1, <3>1, <3>2
  <2> QED
    BY <1>4, <1>6, <2>1 DEF GenerateSelect
<1>7. CASE GenerateCheck(c)
  <2>1. CASE code[c].cancelled
    BY <1>4, <1>7, <2>1 DEF GenerateCheck
  <2>2. CASE ~code[c].cancelled
    BY <1>4, <1>7, <2>2 DEF GenerateCheck
  <2> QED
    BY <2>1, <2>2
<1>8. CASE GenerateNext(c)
  <2>1. Thrown \subseteq Finals /\ Refused \subseteq Finals /\ "ended" \in Finals
    BY DEF Thrown, Refused, Finals
  <2> QED
    BY <1>3, <1>4, <1>8, <2>1 DEF GenerateNext
<1>9. CASE GenerateExit(c)
  <2>1. "exited" \in Finals
    BY DEF Finals
  <2> QED
    BY <1>3, <1>9, <2>1 DEF GenerateExit
<1> QED
  BY <1>5, <1>6, <1>7, <1>8, <1>9 DEF Generate, UserCode

-----------------------------------------------------------------------------
(* Events that are sent *)

\* What a channel holds once an event is sent.
LEMMA SentFacts ==
  ASSUME IInv, NEW e, events' = Append(events, e)
  PROVE  /\ IsSequence(events')
         /\ \A i \in DOMAIN events' : (i \in DOMAIN events /\ events'[i] = events[i]) \/ (i \notin DOMAIN events /\ events'[i] = e)
         /\ \A i \in DOMAIN events : i \in DOMAIN events' /\ events'[i] = events[i]
         /\ \E i \in DOMAIN events' : events'[i] = e
         /\ \A i, j \in DOMAIN events' : i \notin DOMAIN events /\ j \notin DOMAIN events => i = j
BY AppendFacts DEF IInv, Reports

\* The driver, the journal and the machine do not see it yet.
Unheard ==
  /\ UNCHANGED <<status, started, cancelled, calls, phase, error, ending, effects, runtimes, local, quota, durable>>
  /\ clock' \in {"early", "late"} /\ (clock = "late" => clock' = "late") /\ (clock' = "late" => phase # "boot")

\* What only the driver, the journal and the machine know.
LEMMA UnheardKeeps ==
  ASSUME IInv, Unheard
  PROVE  /\ Lives' /\ Attended' /\ Flushed' /\ Given'
         /\ \A kind, k : Asks(kind, k)' <=> Asks(kind, k)
         /\ Driving' <=> Driving
<1>1. (Driving' <=> Driving) /\ \A kind, k : Asks(kind, k)' <=> Asks(kind, k)
  BY DEF Unheard, Driving, Asks
<1>2. Lives'
  BY DEF Unheard, IInv, Lives
<1>3. Attended'
  <2>1. clock' = "early" => clock = "early"
    BY DEF Unheard, IInv, Typed
  <2> QED
    BY <1>1, <2>1 DEF Unheard, IInv, Attended, NotOver, Owes
<1>4. Flushed'
  BY DEF Unheard, IInv, Flushed, Fetchable, Going, Quiet
<1>5. Given'
  <2>1. /\ Driving' => started'
        /\ phase' = "boot" => DOMAIN calls' = {} /\ clock' = "early"
        /\ phase' = "done" => runtimes' = {}
    BY <1>1 DEF Unheard, IInv, Given
  <2>2. quota' => cancelled'
    BY Zenon DEF Unheard, IInv, Given
  <2>3. error' = "stuck" => quota' /\ clock' = "late"
    BY Zenon DEF Unheard, IInv, Given
  <2> QED
    BY <2>1, <2>2, <2>3 DEF Given
<1> QED
  BY <1>1, <1>2, <1>3, <1>4, <1>5

\* A timer fires, its event is sent or given up, the caller cancels or the
\* deadline passes: no goroutine of a call moves.
LEMMA TimerKeeps ==
  ASSUME IInv, Unheard, UNCHANGED code,
         \/ UNCHANGED <<timers, fired, events>>
         \/ \E t \in timers : timers' = timers \ {t} /\ fired' = fired \cup {t} /\ UNCHANGED events
         \/ \E t \in fired : UNCHANGED timers /\ fired' = fired \ {t} /\ (UNCHANGED events \/ events' = Append(events, t))
  PROVE  IInv'
<1>1. /\ Lives' /\ Attended' /\ Flushed' /\ Given'
      /\ \A kind, k : Asks(kind, k)' <=> Asks(kind, k)
      /\ Driving' <=> Driving
  BY UnheardKeeps
<1>2. Typed' /\ Frozen' /\ DurableFirst'
  BY <1>1 DEF Unheard, IInv, Typed, Frozen, DurableFirst
<1>3. Asking' /\ Owing'
  BY DEF Unheard, IInv, Asking, Owing, NotOver, Owes
<1>4. Obeyed'
  BY <1>1 DEF Unheard, IInv, Obeyed
<1>5. /\ \A i \in DOMAIN events : i \in DOMAIN events' /\ events'[i] = events[i]
      /\ IsSequence(events')
      /\ \A i \in DOMAIN events' :
           \/ i \in DOMAIN events /\ events'[i] = events[i]
           \/ events'[i].kind \in {"call", "element"} /\ events'[i] \in fired /\ Timed(events'[i])
  <2>1. CASE UNCHANGED events
    BY <2>1 DEF IInv, Reports
  <2>2. CASE \E t \in fired : events' = Append(events, t)
    <3>1. PICK t \in fired : events' = Append(events, t)
      BY <2>2
    <3>2. t.kind \in {"call", "element"} /\ Timed(t)
      BY DEF IInv, Clocks, Timed
    <3> QED
      BY <3>1, <3>2, SentFacts
  <2> QED
    BY <2>1, <2>2
<1>6. \A i \in DOMAIN events' : events'[i].kind \in {"yielded"} \cup Finals => i \in DOMAIN events /\ events'[i] = events[i]
  BY <1>5 DEF Finals
<1>7. Reports'
  <2>1. \A c : Ending(c)' <=> Ending(c)
    BY <1>5, <1>6 DEF Ending
  <2>2. \A i \in DOMAIN events' :
          /\ events'[i].kind \in {"call", "element", "yielded"} \cup Finals
          /\ events'[i].call \in DOMAIN code
          /\ events'[i].kind \in Finals => events'[i].call \in runtimes /\ code[events'[i].call].at = "over"
    BY <1>5, <1>6 DEF IInv, Reports, Timed
  <2>3. \A i, j \in DOMAIN events' :
          events'[i].kind \in Finals /\ events'[j].kind \in Finals /\ events'[i].call = events'[j].call => i = j
    BY <1>6 DEF IInv, Reports
  <2> QED
    BY <1>5, <2>1, <2>2, <2>3 DEF Unheard, IInv, Reports, NotOver
<1>8. Fetched'
  <2>1. ASSUME NEW c, Stands(c) PROVE Stands(c)'
    <3>1. Coming(c)' <=> Coming(c)
      BY <1>5, <1>6 DEF Coming
    <3>2. Ahead(c) => Ahead(c)'
      BY <1>1, <1>6, <3>1 DEF Unheard, Ahead
    <3>3. /\ Unasked(c) => Unasked(c)'
          /\ ToAsk(c) => ToAsk(c)'
          /\ Told(c) => Told(c)'
          /\ Moving(c) => Moving(c)'
      BY <1>1, <3>1 DEF Unheard, Unasked, ToAsk, Told, Moving, Ready
    <3> QED
      BY <1>1, <2>1, <3>2, <3>3 DEF Unheard, Stands
  <2> QED
    BY <1>1, <2>1 DEF Unheard, IInv, Fetched, LiveCalls
<1>9. Clocks'
  <2>1. ASSUME NEW t, Timed(t) PROVE Timed(t)'
    BY <1>1, <2>1 DEF Unheard, Timed
  <2>2. timers' \subseteq timers /\ fired' \subseteq timers \cup fired /\ timers' \cap fired' = {}
    BY DEF IInv, Clocks
  <2>3. ASSUME NEW i \in DOMAIN events', events'[i].kind \in {"call", "element"} PROVE Timed(events[i])'
    <3>1. PICK t : t = events'[i]
      OBVIOUS
    <3>2. Timed(t)
      BY <1>5, <2>3, <3>1 DEF IInv, Clocks
    <3>3. Timed(t)'
      BY <2>1, <3>2
    <3> QED
      BY <3>1, <3>3 DEF Timed
  <2>4. \A t \in timers' : Timed(t)' /\ t \notin fired' /\ \A i \in DOMAIN events' : events'[i] # t
    BY <1>5, <2>1, <2>2 DEF IInv, Clocks
  <2>5. \A t \in fired' : Timed(t)'
    BY <2>1, <2>2 DEF IInv, Clocks
  <2>6. Driving' => \A t \in timers' :
          /\ t.call \in runtimes'
          /\ calls'[t.call].status \in Live \/ Asks("cancel", t.call)'
          /\ t.kind = "element" /\ calls'[t.call].status \in Live =>
               calls'[t.call].status = "fetching" /\ calls'[t.call].yields = t.index
    BY <1>1, <2>2 DEF Unheard, IInv, Clocks
  <2> QED
    BY <2>3, <2>4, <2>5, <2>6 DEF Clocks
<1> QED
  BY <1>1, <1>2, <1>3, <1>4, <1>7, <1>8, <1>9 DEF IInv

\* A goroutine reports.
LEMMA SendReportKeeps ==
  ASSUME IInv, NEW c \in DOMAIN code, SendReport(c)
  PROVE  IInv'
<1> DEFINE e == EventOf(code[c].kind, c, code[c].index)
           it == IF code[c].kind = "yielded"
                 THEN [code[c] EXCEPT !.at = "select", !.index = @ + 1]
                 ELSE [code[c] EXCEPT !.at = "over"]
<1>1. code[c].at = "send" /\ Goroutine(c, it) /\ code[c] \in Routine /\ c \in DOMAIN calls
  BY DEF SendReport, IInv, Typed
<1>2. /\ Unheard /\ UNCHANGED <<timers, fired, clock>>
      /\ DOMAIN code' = DOMAIN code /\ code'[c] = it
      /\ \A k \in DOMAIN code : k # c => code'[k] = code[k]
  BY <1>1 DEF Goroutine, Unheard, machineVars, driverVars, IInv, Typed, Given
<1>3. c \in runtimes /\ ~Ending(c)
  BY <1>1 DEF IInv, Reports, Ending
<1>4. events' = Append(events, e)
  BY <1>3 DEF SendReport, Send, IInv, Given
<1>5. /\ it \in Routine /\ it.fetch = code[c].fetch /\ it.cancelled = code[c].cancelled
      /\ code[c].kind = "yielded" => it.at = "select" /\ it.index = code[c].index + 1
      /\ code[c].kind # "yielded" => it.at = "over" /\ it.index = code[c].index
      /\ e.kind = code[c].kind /\ e.call = c /\ e.index = code[c].index
      /\ code[c].kind \in {"yielded"} \cup Finals /\ "yielded" \notin Finals
  <2>1. /\ code[c].index \in Nat /\ code[c].kind \in {"yielded"} \cup Finals /\ "yielded" \notin Finals
        /\ e.kind = code[c].kind /\ e.call = c /\ e.index = code[c].index
    BY <1>1 DEF Routine, EventOf, Finals
  <2>2. CASE code[c].kind = "yielded"
    <3>1. it = [code[c] EXCEPT !.at = "select", !.index = @ + 1]
      BY <2>2
    <3> HIDE DEF it
    <3>2. it.at = "select" /\ it.fetch = code[c].fetch /\ it.cancelled = code[c].cancelled /\ it.index = code[c].index + 1
      BY <1>1, <3>1 DEF Routine
    <3>3. it \in Routine
      <4>1. PICK n \in Nat : n = code[c].index + 1
        BY <2>1
      <4>2. it = [code[c] EXCEPT !.at = "select", !.index = n]
        BY <3>1, <4>1
      <4> QED
        BY <1>1, <4>2 DEF Routine
    <3> QED
      BY <2>1, <2>2, <3>2, <3>3
  <2>3. CASE code[c].kind # "yielded"
    <3>1. it = [code[c] EXCEPT !.at = "over"]
      BY <2>3
    <3> HIDE DEF it
    <3>2. it \in Routine /\ it.at = "over" /\ it.fetch = code[c].fetch /\ it.cancelled = code[c].cancelled /\ it.index = code[c].index
      BY <1>1, <3>1 DEF Routine
    <3> QED
      BY <2>1, <2>3, <3>2
  <2> QED
    BY <2>2, <2>3
<1> HIDE DEF e, it
<1>6. /\ Lives' /\ Attended' /\ Flushed' /\ Given'
      /\ \A kind, k : Asks(kind, k)' <=> Asks(kind, k)
      /\ Driving' <=> Driving
  BY <1>2, UnheardKeeps
<1>7. /\ IsSequence(events')
      /\ \A i \in DOMAIN events' : (i \in DOMAIN events /\ events'[i] = events[i]) \/ (i \notin DOMAIN events /\ events'[i] = e)
      /\ \A i \in DOMAIN events : i \in DOMAIN events' /\ events'[i] = events[i]
      /\ \E i \in DOMAIN events' : events'[i] = e
      /\ \A i, j \in DOMAIN events' : i \notin DOMAIN events /\ j \notin DOMAIN events => i = j
  BY <1>4, SentFacts
<1>8. code[c].kind = "yielded" => ~code[c].fetch
  BY <1>1 DEF IInv, Typed
<1>9. Typed'
  <2>1. \A k \in DOMAIN code' :
          /\ k \in DOMAIN calls
          /\ code'[k] \in Routine
          /\ code'[k].at \in {"check", "next"} \/ (code'[k].at = "send" /\ code'[k].kind = "yielded") => ~code'[k].fetch
    BY <1>2, <1>5 DEF IInv, Typed
  <2> QED
    BY <1>2, <2>1 DEF Unheard, IInv, Typed
<1>10. Frozen'
  BY <1>2, <1>5, <1>8 DEF Unheard, IInv, Frozen
<1>11. DurableFirst'
  <2>1. ASSUME NEW k \in DOMAIN code
        PROVE  /\ k \in DOMAIN durable
               /\ code'[k].fetch \/ code'[k].at \in {"check", "next"} =>
                    durable[k].status # "running" /\ durable[k].yields = code'[k].index
               /\ code'[k].cancelled /\ Driving => durable[k].status \notin Live
    BY <1>2, <1>5, <1>8 DEF IInv, DurableFirst
  <2> QED
    BY <1>2, <1>6, <2>1 DEF Unheard, DurableFirst
<1>12. Asking' /\ Owing'
  BY <1>2 DEF Unheard, IInv, Asking, Owing, NotOver, Owes
<1>13. Obeyed'
  <2>1. \A k \in DOMAIN code : code'[k].cancelled <=> code[k].cancelled
    BY <1>2, <1>5
  <2>2. runtimes \subseteq DOMAIN code
    BY DEF IInv, Reports
  <2>3. ASSUME Driving, NEW k \in runtimes, calls[k].status = "cancelling" PROVE code'[k].cancelled \/ Asks("cancel", k)'
    BY <1>6, <2>1, <2>2, <2>3 DEF IInv, Obeyed
  <2>4. ASSUME Driving, NEW k \in DOMAIN code, code'[k].cancelled PROVE calls[k].status \notin Live
    BY <2>1, <2>4 DEF IInv, Obeyed
  <2> QED
    BY <1>2, <1>6, <2>3, <2>4 DEF Unheard, Obeyed
<1>14. Reports'
  <2>1. ASSUME NEW i \in DOMAIN events'
        PROVE  /\ events'[i].kind \in {"call", "element", "yielded"} \cup Finals
               /\ events'[i].call \in DOMAIN code
               /\ events'[i].kind \in Finals => events'[i].call \in runtimes /\ code'[events'[i].call].at = "over"
    <3>1. CASE i \in DOMAIN events /\ events'[i] = events[i]
      BY <1>1, <1>2, <3>1 DEF IInv, Reports
    <3>2. CASE events'[i] = e
      BY <1>2, <1>3, <1>5, <3>2
    <3> QED
      BY <1>7, <3>1, <3>2
  <2>2. ASSUME NEW i \in DOMAIN events', NEW j \in DOMAIN events',
               events'[i].kind \in Finals, events'[j].kind \in Finals, events'[i].call = events'[j].call
        PROVE  i = j
    <3>1. ASSUME NEW n \in DOMAIN events, events[n].kind \in Finals PROVE events[n].call # c
      BY <1>3, <3>1 DEF Ending
    <3> QED
      BY <1>5, <1>7, <2>2, <3>1 DEF IInv, Reports
  <2>3. ASSUME NEW k \in DOMAIN code, k \notin runtimes PROVE code'[k].at = "over"
    BY <1>2, <1>3, <2>3 DEF IInv, Reports
  <2>4. ASSUME NEW k \in runtimes PROVE k \in DOMAIN code /\ NotOver(k) /\ (code'[k].at = "over" => Ending(k)')
    <3>1. CASE k = c
      <4>1. code'[c].at = "over" => e.kind \in Finals /\ e.call = c
        BY <1>2, <1>5
      <4> QED
        BY <1>7, <3>1, <4>1 DEF IInv, Reports, Ending
    <3>2. CASE k # c
      BY <1>2, <1>7, <3>2 DEF IInv, Reports, Ending
    <3> QED
      BY <3>1, <3>2
  <2> QED
    BY <1>2, <1>7, <2>1, <2>2, <2>3, <2>4 DEF Unheard, Reports, NotOver
<1>15. Fetched'
  <2>1. ASSUME NEW k, k # c, Stands(k) PROVE Stands(k)'
    <3>1. /\ Coming(k)' <=> Coming(k)
          /\ \A i \in DOMAIN events' : events'[i].call = k => i \in DOMAIN events /\ events'[i] = events[i]
      BY <1>5, <1>7, <2>1 DEF Coming
    <3>2. (k \in DOMAIN code' <=> k \in DOMAIN code) /\ (k \in DOMAIN code => code'[k] = code[k]) /\ calls' = calls
      BY <1>2, <2>1 DEF Unheard
    <3>3. k \in DOMAIN code =>
            /\ Ahead(k) => Ahead(k)'
            /\ Unasked(k) => Unasked(k)'
            /\ ToAsk(k) => ToAsk(k)'
            /\ Told(k) => Told(k)'
            /\ Moving(k) => Moving(k)'
      BY <1>6, <3>1, <3>2 DEF Ahead, Unasked, ToAsk, Told, Moving, Ready
    <3> QED
      BY <1>6, <2>1, <3>2, <3>3 DEF Stands
  <2>2. ASSUME Driving, c \in LiveCalls, calls[c].stream PROVE Stands(c)'
    <3>1. Stands(c) /\ calls[c].yields \in Nat
      BY <1>1, <2>2 DEF IInv, Fetched, Lives, CallRecord
    <3>2. CASE code[c].kind = "yielded"
      <4>1. Moving(c) /\ code[c].index = calls[c].yields
        BY <1>1, <1>5, <3>1, <3>2 DEF Stands, Ahead, Unasked, ToAsk, Told, Ready
      <4>2. e.kind = "yielded" /\ e.call = c /\ e.index = calls[c].yields /\ code'[c].index = calls[c].yields + 1
        BY <1>2, <1>5, <3>2, <4>1
      <4>3. \A i \in DOMAIN events : ~(events[i].kind = "yielded" /\ events[i].call = c)
        BY <4>1 DEF Moving, Coming
      <4>4. Coming(c)' /\ \A i, j \in DOMAIN events' :
              events'[i].kind = "yielded" /\ events'[i].call = c /\ events'[j].kind = "yielded" /\ events'[j].call = c
                => i = j /\ events'[i].index = calls[c].yields
        BY <1>7, <4>2, <4>3 DEF Coming
      <4>5. Ahead(c)'
        BY <1>2, <1>5, <1>6, <3>2, <4>1, <4>4 DEF Unheard, Ahead, Moving
      <4> QED
        BY <1>2, <4>2, <4>5 DEF Unheard, Stands
    <3>3. CASE code[c].kind # "yielded"
      <4>1. (ToAsk(c) \/ Told(c) \/ Moving(c)) /\ code[c].index = calls[c].yields
        BY <1>1, <3>1 DEF Stands, Ahead, Unasked
      <4>2. Coming(c)' <=> Coming(c)
        BY <1>5, <1>7, <3>3 DEF Coming
      <4>3. code'[c].at = "over" /\ code'[c].index = code[c].index /\ code'[c].fetch = code[c].fetch
        BY <1>2, <1>5, <3>3
      <4>4. ToAsk(c)' \/ Told(c)' \/ Moving(c)'
        BY <1>2, <1>6, <4>1, <4>2, <4>3 DEF Unheard, ToAsk, Told, Moving, Ready
      <4> QED
        BY <1>2, <4>1, <4>3, <4>4 DEF Unheard, Stands
    <3> QED
      BY <3>2, <3>3
  <2> QED
    BY <1>2, <1>6, <2>1, <2>2 DEF Unheard, IInv, Fetched, LiveCalls
<1>16. Clocks'
  <2>1. ASSUME NEW t, Timed(t) PROVE Timed(t)'
    BY <1>2, <1>6, <2>1 DEF Unheard, Timed
  <2>2. \A i \in DOMAIN events' : events'[i].kind \in {"call", "element"} => i \in DOMAIN events /\ events'[i] = events[i]
    BY <1>5, <1>7 DEF Finals
  <2>3. ASSUME NEW i \in DOMAIN events', events'[i].kind \in {"call", "element"} PROVE Timed(events[i])'
    <3>1. PICK t : t = events[i]
      OBVIOUS
    <3>2. Timed(t)
      BY <2>2, <2>3, <3>1 DEF IInv, Clocks
    <3>3. Timed(t)'
      BY <2>1, <3>2
    <3> QED
      BY <2>2, <2>3, <3>1, <3>3 DEF Timed
  <2>4. \A t \in timers' : Timed(t)' /\ t \notin fired' /\ \A i \in DOMAIN events' : events'[i] # t
    BY <1>2, <2>1, <2>2 DEF IInv, Clocks, Timed
  <2>5. \A t \in fired' : Timed(t)'
    BY <1>2, <2>1 DEF IInv, Clocks
  <2> QED
    BY <1>2, <1>6, <2>3, <2>4, <2>5 DEF Unheard, IInv, Clocks
<1> QED
  BY <1>6, <1>9, <1>10, <1>11, <1>12, <1>13, <1>14, <1>15, <1>16 DEF IInv

-----------------------------------------------------------------------------
(* The invariant *)

\* Every step keeps the invariant.
LEMMA StepKeeps ==
  ASSUME IInv, [GoNext]_vars
  PROVE  IInv'
<1>1. ASSUME Loop PROVE IInv'
  BY <1>1, BootKeeps, PassKeeps, EndStoppedKeeps, FlushKeeps, PublishesKeep, HandleLocalKeeps, StuckKeeps, ReceiveKeeps,
     DrainKeeps, HearKeeps, FinishKeeps, AbandonKeeps DEF Loop
<1>2. clock \in {"early", "late"} /\ (clock = "late" => phase # "boot")
  BY DEF IInv, Typed, Given
<1>3. ASSUME NEW c \in DOMAIN code, Generate(c) \/ SendReport(c) \/ UserCode(c) PROVE IInv'
  BY <1>3, CodeKeeps, SendReportKeeps
<1>4. ASSUME NEW t \in timers, Fire(t) PROVE IInv'
  BY <1>2, <1>4, TimerKeeps DEF Fire, Unheard, machineVars, driverVars
<1>5. ASSUME NEW t \in fired, SendTimer(t) PROVE IInv'
  BY <1>2, <1>5, TimerKeeps DEF SendTimer, Send, Unheard, machineVars, driverVars
<1>6. CASE RequestCancel
  BY <1>2, <1>6, TimerKeeps DEF RequestCancel, Unheard, machineVars, driverVars
<1>7. CASE DeadlinePasses
  BY <1>2, <1>7, TimerKeeps DEF DeadlinePasses, Unheard, machineVars, driverVars
<1>8. CASE UNCHANGED vars
  BY <1>2, <1>8, TimerKeeps DEF vars, Unheard, machineVars, driverVars, hostVars
<1> QED
  BY <1>1, <1>3, <1>4, <1>5, <1>6, <1>7, <1>8 DEF GoNext

\* The invariant holds before anything is started.
LEMMA InitIInv == GoInit => IInv
<1> SUFFICES ASSUME GoInit PROVE IInv
  OBVIOUS
<1>1. /\ status = "running" /\ started = FALSE /\ cancelled = FALSE /\ calls = <<>>
      /\ phase = "boot" /\ error = "none" /\ ending = {} /\ effects = <<>> /\ runtimes = {} /\ local = <<>>
      /\ quota = FALSE /\ events = <<>> /\ timers = {} /\ fired = {} /\ code = <<>> /\ clock = "early"
  BY DEF GoInit, Init
<1>2. DOMAIN calls = {} /\ DOMAIN code = {} /\ DOMAIN events = {} /\ DOMAIN effects = {} /\ DOMAIN local = {}
  BY <1>1
<1>3. IsSequence(events) /\ IsSequence(effects) /\ IsSequence(local)
  BY <1>1 DEF IsSequence
<1>4. ~Driving
  BY <1>1 DEF Driving
<1>5. Lives
  BY <1>1, <1>2, FS_EmptySet DEF Lives, Statuses, Terminal
<1>6. Typed /\ Reports /\ Asking /\ Owing
  BY <1>1, <1>2, <1>3 DEF Typed, Reports, Asking, Owing
<1>7. Attended /\ Obeyed /\ Fetched /\ Frozen /\ Clocks /\ Flushed /\ DurableFirst /\ Given
  BY <1>1, <1>2, <1>4 DEF Attended, Obeyed, Fetched, Frozen, Clocks, Flushed, DurableFirst, Given
<1> QED
  BY <1>5, <1>6, <1>7 DEF IInv

\* The invariant always holds.
LEMMA AlwaysIInv == GoSpec => []IInv
<1>1. GoInit => IInv
  BY InitIInv
<1>2. IInv /\ [GoNext]_vars => IInv'
  BY StepKeeps
<1> QED
  BY <1>1, <1>2, PTL DEF GoSpec

-----------------------------------------------------------------------------
(* The theorems *)

\* Of the events about c of some kinds there is none, or exactly one.
LEMMA Counted ==
  ASSUME NEW c, NEW kinds
  PROVE  /\ (\A i \in DOMAIN events : ~(events[i].call = c /\ events[i].kind \in kinds)) => About(c, kinds) = 0
         /\ (\E i \in DOMAIN events :
               /\ events[i].call = c /\ events[i].kind \in kinds
               /\ \A j \in DOMAIN events : events[j].call = c /\ events[j].kind \in kinds => j = i)
            => About(c, kinds) = 1
<1> DEFINE S == {i \in DOMAIN events : events[i].call = c /\ events[i].kind \in kinds}
<1>1. ASSUME \A i \in DOMAIN events : ~(events[i].call = c /\ events[i].kind \in kinds) PROVE About(c, kinds) = 0
  <2>1. S = {}
    BY <1>1
  <2> QED
    BY <2>1, FS_EmptySet DEF About
<1>2. ASSUME NEW i \in DOMAIN events, events[i].call = c, events[i].kind \in kinds,
             \A j \in DOMAIN events : events[j].call = c /\ events[j].kind \in kinds => j = i
      PROVE  About(c, kinds) = 1
  <2>1. S = {i}
    BY <1>2
  <2> QED
    BY <2>1, FS_Singleton DEF About
<1> QED
  BY <1>1, <1>2

\* Whatever the calls, their timeouts and the capacity of the channel, a call
\* that has not ended is heard of, each goroutine in the driver's map reports
\* its end exactly once (driver.go:547 cannot be met), and while the driver
\* waits the goroutines cancelled are those of the calls being cancelled.
THEOREM CallsAreAttended == GoSpec => []EveryCallAttended
<1>1. ASSUME IInv, Driving PROVE CallsAttended
  <2> DEFINE owed == {local[i] : i \in DOMAIN local}
  <2>1. \A c : c \in Asked("start") <=> Asks("start", c)
    BY DEF Asked, Asks
  <2>2. \A c : c \in owed <=> Owes(c)
    BY DEF Owes
  <2>3. runtimes \subseteq UnendedCalls
    BY <1>1 DEF IInv, Reports, Typed, NotOver, UnendedCalls
  <2>4. \A c : Asks("start", c) => c \in UnendedCalls
    BY <1>1 DEF IInv, Asking, Asks, NotOver, UnendedCalls
  <2>5. \A c : Owes(c) => c \in UnendedCalls
    BY <1>1 DEF IInv, Owing, Owes, UnendedCalls, Unended
  <2>6. ending \subseteq UnendedCalls
    BY <1>1 DEF IInv, Owing, Typed, UnendedCalls, Unended
  <2>7. clock = "early" \/ ~quota =>
          \A c \in UnendedCalls : c \in runtimes \/ Asks("start", c) \/ Owes(c) \/ c \in ending
    BY <1>1 DEF IInv, Attended, UnendedCalls, NotOver
  <2> HIDE DEF owed
  <2>8. clock = "early" \/ ~quota => UnendedCalls = runtimes \cup Asked("start") \cup owed \cup ending
    BY <2>1, <2>2, <2>3, <2>4, <2>5, <2>6, <2>7
  <2> QED
    BY <2>3, <2>8 DEF CallsAttended, owed
<1>2. ASSUME IInv PROVE EndsReportedOnce
  <2>1. ASSUME NEW c \in DOMAIN code
        PROVE  About(c, Finals) + (IF code[c].at = "over" THEN 0 ELSE 1) = (IF c \in runtimes THEN 1 ELSE 0)
    <3>1. CASE c \in runtimes /\ code[c].at = "over"
      <4>1. PICK i \in DOMAIN events : events[i].kind \in Finals /\ events[i].call = c
        BY <1>2, <3>1 DEF IInv, Reports, Ending
      <4>2. \A j \in DOMAIN events : events[j].call = c /\ events[j].kind \in Finals => j = i
        BY <1>2, <4>1 DEF IInv, Reports
      <4>3. About(c, Finals) = 1
        BY <4>1, <4>2, Counted
      <4> QED
        BY <3>1, <4>3
    <3>2. CASE c \notin runtimes \/ code[c].at # "over"
      <4>1. \A i \in DOMAIN events : ~(events[i].call = c /\ events[i].kind \in Finals)
        BY <1>2, <3>2 DEF IInv, Reports
      <4>2. About(c, Finals) = 0
        BY <4>1, Counted
      <4>3. c \in runtimes <=> code[c].at # "over"
        BY <1>2, <3>2 DEF IInv, Reports
      <4> QED
        BY <4>2, <4>3
    <3> QED
      BY <3>1, <3>2
  <2> QED
    BY <2>1 DEF EndsReportedOnce
<1>3. ASSUME IInv PROVE CancelsMatch
  <2> SUFFICES ASSUME phase = "publish", effects = <<>>
               PROVE  /\ \A c \in runtimes : code[c].cancelled <=> calls[c].status = "cancelling"
                      /\ \A t \in timers :
                           /\ t.call \in runtimes \cap LiveCalls
                           /\ t.kind = "element" => calls[t.call].status = "fetching" /\ calls[t.call].yields = t.index
    BY DEF CancelsMatch
  <2>1. Driving /\ \A c : ~Asks("cancel", c)
    BY DEF Driving, Asks
  <2>2. ASSUME NEW c \in runtimes PROVE code[c].cancelled <=> calls[c].status = "cancelling"
    <3>1. calls[c].status = "cancelling" => code[c].cancelled
      BY <1>3, <2>1 DEF IInv, Obeyed
    <3>2. c \in DOMAIN code /\ NotOver(c)
      BY <1>3 DEF IInv, Reports
    <3>3. code[c].cancelled => calls[c].status = "cancelling"
      BY <1>3, <2>1, <3>2 DEF IInv, Obeyed, NotOver, Unended
    <3> QED
      BY <3>1, <3>3
  <2>3. ASSUME NEW t \in timers
        PROVE  /\ t.call \in runtimes \cap LiveCalls
               /\ t.kind = "element" => calls[t.call].status = "fetching" /\ calls[t.call].yields = t.index
    BY <1>3, <2>1 DEF IInv, Clocks, Reports, Typed, LiveCalls
  <2> QED
    BY <2>2, <2>3
<1>4. IInv => EveryCallAttended
  BY <1>1, <1>2, <1>3 DEF EveryCallAttended
<1> QED
  BY <1>4, AlwaysIInv, PTL

\* A fetch is neither lost nor doubled between the machine, the effects, the
\* generator and the channel of events, and the driver never waits for room
\* in the channel of a generator's fetches.
THEOREM FetchesAreMatched == GoSpec => []FetchesMatch
<1>1. ASSUME IInv, Driving, NEW c \in LiveCalls \cap runtimes, calls[c].stream
      PROVE  /\ calls[c].status = "fetching" <=>
                  \/ c \in Asked("fetch") \/ code[c].fetch \/ code[c].at \in {"check", "next"}
                  \/ code[c].at = "send" /\ code[c].index = calls[c].yields
                  \/ About(c, Finals \cup {"yielded"}) > 0
                  \/ code[c].at = "exit"
             /\ code[c].index = calls[c].yields + About(c, {"yielded"})
  <2>1. c \in DOMAIN code /\ c \in runtimes /\ Stands(c) /\ calls[c].yields \in Nat
    BY <1>1 DEF IInv, Reports, Fetched, LiveCalls, Lives, CallRecord
  <2>2. c \in Asked("fetch") <=> Asks("fetch", c)
    BY DEF Asked, Asks
  <2>3. Ending(c) <=> code[c].at = "over"
    BY <1>1, <2>1 DEF IInv, Reports, Ending
  <2>4. ~Coming(c) => About(c, {"yielded"}) = 0
    BY Counted DEF Coming
  <2>5. ~Coming(c) /\ ~Ending(c) => About(c, Finals \cup {"yielded"}) = 0
    BY Counted DEF Coming, Ending
  <2>6. ASSUME Ending(c), ~Coming(c) PROVE About(c, Finals \cup {"yielded"}) = 1
    <3>1. PICK i \in DOMAIN events : events[i].kind \in Finals /\ events[i].call = c
      BY <2>6 DEF Ending
    <3>2. \A j \in DOMAIN events : events[j].call = c /\ events[j].kind \in Finals \cup {"yielded"} => j = i
      BY <1>1, <2>6, <3>1 DEF IInv, Reports, Coming
    <3> QED
      BY <3>1, <3>2, Counted
  <2>7. CASE Ahead(c) /\ code[c].index = calls[c].yields + 1
    <3>1. PICK i \in DOMAIN events : events[i].kind = "yielded" /\ events[i].call = c
      BY <2>7 DEF Ahead, Coming
    <3>2. \A j \in DOMAIN events : events[j].call = c /\ events[j].kind = "yielded" => j = i
      BY <2>7, <3>1 DEF Ahead
    <3>3. \A j \in DOMAIN events : events[j].call = c => events[j].kind \notin Finals
      BY <2>3, <2>7 DEF Ahead, Ending
    <3>4. About(c, {"yielded"}) = 1
      BY <3>1, <3>2, Counted
    <3>5. About(c, Finals \cup {"yielded"}) = 1
      <4>1. \A j \in DOMAIN events : events[j].call = c /\ events[j].kind \in Finals \cup {"yielded"} => j = i
        BY <3>2, <3>3
      <4> QED
        BY <3>1, <4>1, Counted
    <3> QED
      BY <2>7, <3>4, <3>5 DEF Ahead
  <2>8. CASE Unasked(c) /\ code[c].index = calls[c].yields
    <3>1. About(c, {"yielded"}) = 0 /\ About(c, Finals \cup {"yielded"}) = 0
      BY <2>3, <2>4, <2>5, <2>8 DEF Unasked
    <3> QED
      BY <2>1, <2>2, <2>8, <3>1 DEF Unasked
  <2>9. CASE (ToAsk(c) \/ Told(c)) /\ code[c].index = calls[c].yields
    BY <2>1, <2>2, <2>4, <2>9 DEF ToAsk, Told
  <2>10. CASE Moving(c) /\ code[c].index = calls[c].yields
    BY <2>1, <2>3, <2>4, <2>6, <2>10 DEF Moving
  <2> QED
    BY <2>1, <2>7, <2>8, <2>9, <2>10 DEF Stands
<1>2. ASSUME IInv PROVE FetchNeverBlocks
  <2> SUFFICES ASSUME phase = "publish", effects # <<>>, NEW c, c = Head(effects).call, Head(effects).kind = "fetch",
                      c \in runtimes, calls[c].status = "fetching"
               PROVE  ~code[c].fetch
    BY DEF FetchNeverBlocks
  <2>1. 1 \in DOMAIN effects /\ Head(effects) = effects[1]
    BY <1>2, TailFacts DEF IInv, Asking
  <2>2. Asks("fetch", c) /\ calls[c].stream
    BY <1>2, <2>1 DEF IInv, Asking, Asks
  <2>3. Driving /\ c \in LiveCalls /\ c \in DOMAIN code
    BY <1>2 DEF Driving, LiveCalls, Live, IInv, Reports, Typed
  <2>4. Stands(c)
    BY <1>2, <2>2, <2>3 DEF IInv, Fetched
  <2> QED
    BY <2>2, <2>3, <2>4 DEF Stands, Ahead, Unasked, ToAsk, Told, Moving
<1>3. IInv => FetchesMatch
  BY <1>1, <1>2 DEF FetchesMatch, FetchesKnown
<1> QED
  BY <1>3, AlwaysIInv, PTL

\* User code is only started, asked for an element or cancelled once what
\* calls for it is in the journal.
THEOREM JournalComesFirst == GoSpec => []DurableFirst
<1>1. IInv => DurableFirst
  BY DEF IInv
<1> QED
  BY <1>1, AlwaysIInv, PTL

\* When Wait returns no goroutine of user code is left, and an execution that
\* a quota stopped is never reported as a success.
THEOREM EndsAreClean == GoSpec => []EndsClean
<1>1. ASSUME IInv, phase = "done" PROVE \A c \in DOMAIN code : code[c].at = "over"
  BY <1>1 DEF IInv, Given, Reports
<1>2. ASSUME IInv, quota, status \in Terminal PROVE cancelled /\ status \in {"cancelled", "failed"}
  BY <1>2 DEF IInv, Given, Lives, Terminal
<1>3. IInv => (error = "stuck" => quota /\ clock = "late")
  BY DEF IInv, Given
<1>4. IInv => EndsClean
  BY <1>1, <1>2, <1>3 DEF EndsClean
<1> QED
  BY <1>4, AlwaysIInv, PTL

\* An operation on the calls C times out none of the others.
LEMMA OthersTime ==
  ASSUME NEW c \in DOMAIN calls, ElementTimesOut(c), NEW C, Rest(C)
  PROVE  c \in C
BY DEF Rest, ElementTimesOut

\* An element only times out after its own time has run out, although the
\* event of an earlier element's timer may come after it (driver.go:518).
THEOREM TimeoutsAreDue == GoSpec => TimeoutsDue
<1> DEFINE Due(c) == c \notin Asked("fetch") /\ EventOf("element", c, calls[c].yields) \notin timers
<1>1. ASSUME IInv, NEW c \in DOMAIN calls, ElementTimesOut(c), NEW d \in DOMAIN calls,
             \/ FailTransform \/ Conclude \/ Cancel
             \/ Return(d) \/ FailCall(d) \/ Terminate(d) \/ Fetch(d) \/ Yield(d)
      PROVE  FALSE
  <2>1. status' # "stopping" /\ calls'[c].status = "cancelling"
    BY <1>1 DEF ElementTimesOut
  <2>2. CASE FailTransform \/ Conclude
    BY <1>1, <2>2, OtherSteps, OthersTime DEF IInv
  <2>3. CASE Cancel
    BY <2>1, <2>3 DEF Cancel
  <2>4. CASE Return(d) \/ FailCall(d) \/ Terminate(d)
    <3>1. Rest({d}) /\ calls'[d].status \notin Unended
      BY <1>1, <2>4, CallSteps DEF IInv
    <3> QED
      BY <1>1, <2>1, <3>1, OthersTime DEF Unended
  <2>5. CASE Fetch(d) \/ Yield(d)
    <3>1. Rest({d}) /\ calls'[d].status # "cancelling"
      BY <1>1, <2>5, CallSteps DEF IInv
    <3> QED
      BY <1>1, <2>1, <3>1, OthersTime
  <2> QED
    BY <1>1, <2>2, <2>3, <2>4, <2>5
<1>2. ASSUME NEW c \in DOMAIN calls, ElementTimesOut(c), calls' = calls PROVE FALSE
  BY <1>2 DEF ElementTimesOut
<1>3. ASSUME IInv, NEW e, Hears(e), HandleTimer(e), NEW c \in DOMAIN calls, ElementTimesOut(c) PROVE Due(c)
  <2>1. e.call \in DOMAIN calls /\ e = events[1] /\ 1 \in DOMAIN events /\ e.kind \in {"call", "element"}
    BY <1>3, HeardFacts DEF HandleTimer
  <2>2. ~TimeOutStale(e) /\ TimeOut(e.call, e.kind = "element")
    <3>1. ~Unapplied
      BY <1>2, <1>3 DEF Unapplied, machineVars
    <3>2. ~Refuse(TRUE)
      BY <1>1, <1>3 DEF Refuse, StopQuota
    <3> QED
      BY <1>3, <3>1, <3>2 DEF HandleTimer, Accept
  <2>3. c = e.call
    <3>1. TimeOut(e.call, FALSE)
      BY <2>2 DEF TimeOut, Live
    <3>2. Rest({e.call})
      BY <1>3, <2>1, <3>1, CallSteps DEF IInv
    <3> QED
      BY <1>3, <3>2, OthersTime
  <2>4. Timed(e)
    BY <1>3, <2>1 DEF IInv, Clocks
  <2>5. e.kind = "element" /\ e.index = calls[c].yields /\ e = EventOf("element", c, calls[c].yields)
    BY <1>3, <2>2, <2>3, <2>4 DEF Timed, ElementTimesOut, TimeOutStale
  <2>6. ~Asks("fetch", c)
    <3>1. calls[c].yields \in Nat
      BY <1>3 DEF IInv, Lives, CallRecord
    <3> QED
      BY <2>3, <2>4, <2>5, <3>1 DEF Timed
  <2>7. EventOf("element", c, calls[c].yields) \notin timers
    BY <1>3, <2>1, <2>5 DEF IInv, Clocks
  <2> QED
    BY <2>6, <2>7 DEF Asked, Asks
<1>4. ASSUME IInv, NEW c \in DOMAIN calls, ElementTimesOut(c), NEW e, e.call \in DOMAIN calls, HandleElement(e) \/ HandleFinal(e)
      PROVE  FALSE
  BY <1>1, <1>2, <1>4 DEF HandleElement, HandleFinal, Unapplied, machineVars, Accept, Refuse, StopQuota, EndCancelled, EndByQuota,
       EndReported
<1>5. ASSUME IInv, NEW e, NEW next, Hears(e), Handle(e, next), NEW c \in DOMAIN calls, ElementTimesOut(c) PROVE Due(c)
  <2>1. e.call \in DOMAIN calls
    BY <1>5, HeardFacts
  <2> QED
    BY <1>3, <1>4, <1>5, <2>1 DEF Handle
<1>6. ASSUME IInv, NEW c \in DOMAIN calls, ElementTimesOut(c), Loop PROVE Due(c)
  <2>1. ASSUME Boot \/ Flush \/ Publish \/ Stuck \/ Finish \/ Abandon PROVE FALSE
    BY <1>2, <1>6, <2>1 DEF Boot, Start, Flush, Publish, Stuck, Finish, Abandon, machineVars
  <2>2. ASSUME Pass PROVE FALSE
    <3>1. ASSUME NEW d \in DOMAIN Kind, Create(d, "stream" \in Kind[d]) PROVE FALSE
      <4>1. d \notin DOMAIN calls /\ calls'[c] = calls[c]
        BY <1>6, <3>1 DEF Create
      <4> QED
        BY <1>6, <4>1 DEF ElementTimesOut
    <3>2. Fetchable \subseteq DOMAIN calls
      BY DEF Fetchable
    <3> QED
      BY <1>1, <1>6, <2>2, <3>1, <3>2 DEF Pass, Accept, Refuse, StopQuota
  <2>3. ASSUME EndStopped PROVE FALSE
    BY <1>1, <1>6, <2>3 DEF EndStopped, IInv, Owing, Typed
  <2>4. ASSUME HearDeadline \/ HearCancel PROVE FALSE
    BY <1>1, <1>2, <1>6, <2>4 DEF HearDeadline, HearCancel, Unapplied, StopQuota, machineVars
  <2>5. ASSUME HandleLocal PROVE FALSE
    <3>1. PICK e : e = EventOf("exited", Head(local), 0)
      OBVIOUS
    <3>2. e.kind = "exited" /\ e.call = Head(local) /\ local # <<>> /\ Handle(e, "pass")
      BY <2>5, <3>1 DEF HandleLocal, EventOf
    <3>3. e.call \in DOMAIN calls
      <4>1. 1 \in DOMAIN local /\ Head(local) = local[1]
        BY <1>6, <3>2, TailFacts DEF IInv, Owing
      <4> QED
        BY <1>6, <3>2, <4>1 DEF IInv, Owing
    <3> QED
      BY <1>4, <1>6, <3>2, <3>3 DEF Handle, HandleTimer
  <2>6. ASSUME Receive PROVE Due(c)
    <3>1. PICK e : e = Head(events)
      OBVIOUS
    <3>2. Handle(e, "drain") /\ Hears(e)
      BY <1>6, <2>6, <3>1 DEF Receive, Select, Turn, Handle, Hears, Driving, IInv, Owing
    <3> QED
      BY <1>5, <1>6, <3>2
  <2>7. ASSUME Drain PROVE Due(c)
    <3>1. PICK e : e = Head(events)
      OBVIOUS
    <3>2. ~Unapplied
      BY <1>2, <1>6 DEF Unapplied, machineVars
    <3>3. Handle(e, "drain") /\ Hears(e)
      BY <1>6, <2>7, <3>1, <3>2 DEF Drain, Handle, Hears, Driving, IInv, Asking
    <3> QED
      BY <1>5, <1>6, <3>3
  <2> QED
    BY <1>6, <2>1, <2>2, <2>3, <2>4, <2>5, <2>6, <2>7 DEF Loop
<1>7. ASSUME [GoNext]_vars, ~Loop PROVE calls' = calls
  BY <1>7 DEF GoNext, Generate, UserCode, SendReport, CodeReturns, GenerateSelect, GenerateCheck, GenerateNext, GenerateExit,
       Reporting, Goroutine, Fire, SendTimer, RequestCancel, DeadlinePasses, vars, machineVars
<1>8. IInv /\ [GoNext]_vars => [\A c \in DOMAIN calls : ElementTimesOut(c) => Due(c)]_vars
  BY <1>2, <1>6, <1>7
<1> QED
  BY <1>8, AlwaysIInv, PTL DEF GoSpec, TimeoutsDue
=============================================================================
