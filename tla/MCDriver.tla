------------------------------ MODULE MCDriver ------------------------------
(***************************************************************************)
(* The properties of the driver, on executions of two calls.               *)
(***************************************************************************)
EXTENDS Driver, FiniteSets

MCKind == [gen |-> {"stream"}, use |-> {"single", "judge"}]
MCTimeouts == [gen |-> {"call", "element"}, use |-> {}]

-----------------------------------------------------------------------------
Queued == {events[i] : i \in DOMAIN events}
Yielding(c) == {e \in Queued : e.kind = "yielded" /\ e.call = c}
Alive == loop \in {"turn", "wait"}
LiveCalls == {c \in DOMAIN calls : calls[c].status \in Live}

\* The map of callbacks (engine.ts callbacks) holds the calls that have not
\* ended and no others, but for one on its way out and for what the refusal
\* of an overdue operation leaves behind.
CallbacksAttached ==
  /\ attached \subseteq {c \in DOMAIN calls : calls[c].status \in Unended}
  /\ (clock = "early" \/ ~quota) => {c \in DOMAIN calls : calls[c].status \in Unended} = attached \cup ending

\* The user code of a call is told to stop exactly if its call is being
\* cancelled; so a callback that ends early for that reason never meets a
\* live call (the case "exited" of engine.ts:371 is never taken).
AbortsMatch ==
  /\ \A c \in attached : code[c].aborted <=> calls[c].status = "cancelling"
  /\ \A c \in LiveCalls : code[c].at \in {"leave", "done"} => code[c].final # "exited"

\* No timer is left armed for a call that is over, being cancelled, or past
\* the element it was armed for.
TimersMatch ==
  \A t \in timers :
    /\ t.call \in attached
    /\ t.call \in LiveCalls
    /\ t.kind = "element" => calls[t.call].status = "fetching" /\ calls[t.call].yields = t.index

\* Between two turns of the loop the callbacks, their abort signals and their
\* timers are those that the machine's calls need, whatever order events,
\* refusals and control operations came in.
CallbacksMatchCalls == Alive => CallbacksAttached /\ AbortsMatch /\ TimersMatch

\* A live generator is ahead of the machine by the one element that is
\* queued, so an element of a live call is never dropped as stale
\* (engine.ts:343) and never taken twice.
ElementsInOrder(c) ==
  /\ code[c].index = calls[c].yields + Cardinality(Yielding(c))
  /\ \A e \in Yielding(c) : calls[c].status = "fetching" /\ e.index = calls[c].yields

\* The events of a generator that is waited for are about the element it is
\* waited for: the queue is empty whenever an element is fetched, so the
\* timer of an earlier element is never late enough to hit a later one.
EventsAreCurrent ==
  \A e \in Queued :
    e.kind \in {"element", "yielded"} /\ calls[e.call].status = "fetching" => e.index = calls[e.call].yields

\* A fetch is neither lost nor doubled (callbacks.ts fetchRequested): the
\* machine waits for an element exactly if the generator knows it, and what
\* comes is the element that is waited for.
FetchesMatch ==
  Alive =>
    /\ EventsAreCurrent
    /\ \A c \in LiveCalls : ElementsInOrder(c)
    /\ \A c \in LiveCalls \cap attached :
         calls[c].stream /\ code[c].at # "done" =>
           (calls[c].status = "fetching" <=>
              code[c].pending \/ code[c].at \in {"next", "leave"} \/ Yielding(c) # {})

\* When wait() settles, whatever the reason, no user code runs any more.
NoZombies == loop = "closed" => \A c \in DOMAIN code : code[c].at = "done"

\* Without a callback a call that is being cancelled never ends.
Abandoned == {c \in DOMAIN calls \ attached : calls[c].status = "cancelling"}

\* The loop only fails by itself past the deadline, after a stop by quota: it
\* gets stuck over a call that was told to stop because it timed out and whose
\* end was refused (engine.ts:352), and it gives up over a judge whose answer
\* the machine had rejected.  An execution that a quota stopped is never
\* reported as a success.
FailsOnlyOverdue ==
  /\ error \in {"stuck", "cannotEnd"} => quota /\ clock # "early"
  /\ error = "stuck" => \E c \in Abandoned : Timeouts[c] # {}
  /\ error = "cannotEnd" => \E c \in Abandoned : code[c].final = "badArm"
  /\ quota /\ status \in Terminal => cancelled /\ status \in {"cancelled", "failed"}

\* A quota ends an execution with its report: runtime.test.mjs:357 expects
\* wait() to reject with a QuotaError that carries a report, also for the
\* duration.
QuotaReports == quota => error \notin {"stuck", "cannotEnd"}

\* Every execution ends, if user code ends once it is aborted: no wake-up of
\* the loop or of a generator is lost.
Closes == <>(loop = "closed")
=============================================================================
