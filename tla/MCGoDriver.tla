----------------------------- MODULE MCGoDriver -----------------------------
(***************************************************************************)
(* The properties of the Go driver, on executions of two calls.            *)
(***************************************************************************)
EXTENDS GoDriver, FiniteSets

MCKind == [gen |-> {"stream"}, use |-> {"single", "judge"}]
MCTimeouts == [gen |-> {"element"}, use |-> {}]

-----------------------------------------------------------------------------
Driving == phase \in {"pass", "publish", "drain"}
Queued == {events[i] : i \in DOMAIN events}
About(c, kinds) == Cardinality({i \in DOMAIN events : events[i].call = c /\ events[i].kind \in kinds})
Asked(kind) == {e.call : e \in {x \in {effects[i] : i \in DOMAIN effects} : x.kind = kind}}
UnendedCalls == {c \in DOMAIN calls : calls[c].status \in Unended}
LiveCalls == {c \in DOMAIN calls : calls[c].status \in Live}

\* Every call that has not ended will be heard of: its goroutine runs, its
\* start is on its way, or the driver reports its end itself (driver.go
\* calls, effects, local); but for what the refusal of an overdue operation
\* leaves behind.
CallsAttended ==
  LET attended == runtimes \cup Asked("start") \cup {local[i] : i \in DOMAIN local} \cup ending IN
  /\ runtimes \subseteq UnendedCalls
  /\ (clock = "early" \/ ~quota) => UnendedCalls = attended

\* A goroutine in the driver's map reports its end exactly once, and one
\* outside it never does, so no report meets a call that has ended
\* (driver.go:547, an internal error).
EndsReportedOnce ==
  \A c \in DOMAIN code :
    About(c, Finals) + (IF code[c].at = "over" THEN 0 ELSE 1) = (IF c \in runtimes THEN 1 ELSE 0)

\* While the driver waits, the goroutines that are cancelled are those of the
\* calls being cancelled, however many operations one flush has covered; and
\* no timer is armed for a call that is over or being cancelled, or for an
\* element that has come.
CancelsMatch ==
  phase = "publish" /\ effects = <<>> =>
    /\ \A c \in runtimes : code[c].cancelled <=> calls[c].status = "cancelling"
    /\ \A t \in timers :
         /\ t.call \in runtimes \cap LiveCalls
         /\ t.kind = "element" => calls[t.call].status = "fetching" /\ calls[t.call].yields = t.index

\* Calls, goroutines, their cancellations and their timers belong together, at
\* every point of a batch of operations and of its effects.
EveryCallAttended ==
  /\ Driving => CallsAttended
  /\ phase # "done" => EndsReportedOnce
  /\ CancelsMatch

\* The machine waits for an element exactly if its generator knows or will
\* be told, and the elements on their way are those waited for.
FetchesKnown ==
  \A c \in LiveCalls \cap runtimes :
    calls[c].stream =>
      /\ calls[c].status = "fetching" <=>
           \/ c \in Asked("fetch") \/ code[c].fetch \/ code[c].at \in {"check", "next"}
           \/ code[c].at = "send" /\ code[c].index = calls[c].yields
           \/ About(c, Finals \cup {"yielded"}) > 0
           \/ code[c].at = "exit"
      /\ code[c].index = calls[c].yields + About(c, {"yielded"})

\* The driver never waits for room in a channel of fetches (driver.go:130,
\* "the driver sends once per fetch"; driver.go:484): it would stop hearing
\* the goroutine that is to make the room.
FetchNeverBlocks ==
  phase = "publish" /\ effects # <<>> =>
    LET c == Head(effects).call IN
    Head(effects).kind = "fetch" /\ c \in runtimes /\ calls[c].status = "fetching" => ~code[c].fetch

\* A fetch is neither lost nor doubled, through the batch of effects, the
\* channel of the goroutine and the channel of events.
FetchesMatch == (Driving => FetchesKnown) /\ FetchNeverBlocks

\* User code sees nothing that is not durable (driver.go flush): it is only
\* started, asked for an element or cancelled once the operation that calls
\* for it is in the journal.
DurableFirst ==
  \A c \in DOMAIN code :
    /\ c \in DOMAIN durable
    /\ code[c].fetch \/ code[c].at \in {"check", "next"} =>
         durable[c].status # "running" /\ durable[c].yields = code[c].index
    /\ code[c].cancelled /\ Driving => durable[c].status \notin Live

\* An element only times out after its own time has run out, although the
\* event of an earlier element's timer may come after it (driver.go:518).
ElementTimesOut(c) ==
  Timeouts[c] = {"element"} /\ calls[c].status = "fetching" /\ calls'[c].status = "cancelling" /\ status' = "running"
TimeoutsDue ==
  [][\A c \in DOMAIN calls : ElementTimesOut(c) =>
       c \notin Asked("fetch") /\ EventOf("element", c, calls[c].yields) \notin timers]_vars

\* When Wait returns, whatever the reason, no goroutine of user code is left;
\* the loop only got stuck past the deadline, after a stop by quota; and an execution that a quota stopped is
\* never reported as a success.
EndsClean ==
  phase = "done" =>
    /\ \A c \in DOMAIN code : code[c].at = "over"
    /\ error = "stuck" => quota /\ clock = "late"
    /\ quota /\ status \in Terminal => cancelled /\ status \in {"cancelled", "failed"}

\* A quota ends an execution with its report: engine.go:341 says of Wait that
\* "A host resource limit returns both a terminal report and ErrQuotaExceeded".
QuotaReports == quota => error # "stuck"

\* Every execution ends, if user code returns once its context is cancelled:
\* the driver and the goroutines never wait for each other, and the goroutine
\* of a timer does not wait for a driver that is gone.
Ends == <>(phase = "done" /\ fired = {})
=============================================================================
