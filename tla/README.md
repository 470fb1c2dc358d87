# Suimon: a verification project

Suimon executes *workflows*: acyclic graphs of placements (functions, branches,
called workflows, concurrencies, stream collectors and merges) joined by
connections that carry results. The repository holds a Lean model of the
machine, implementations in TypeScript and Go, and a UI kit that shows
executions. This project models the TypeScript implementation
(`src/implementations/typescript/src`), the Go driver
(`src/implementations/go/src`) and the reading half of the UI kit
(`src/ui-kit/src/lib`), checks them with TLC on small instances, and proves parts
of them with TLAPS for every instance.

Everything below is translated from that source; `PROJECT.json` maps each
definition to the lines it models, lists the hazards the properties are about,
and gives for each property a mutation of the model that breaks it.

## The system

| Component | Source | State it keeps | What makes it hard |
|---|---|---|---|
| Machine | `machine.ts`, `model-types.ts` | runs, invocations, calls, executions, results, deliveries, settlements, failures, status | ends of input derived from what others have done; stops in the middle of everything; timeouts that leave user code running |
| View | `machine-view.ts` | none | many rules that must agree: a missing case is a deadlock, a hasty one loses results |
| Definition | `definition.ts` | the definition | validation must exclude everything the machine has no rule for |
| Builder | `builder.ts` | the definition, handles | handles outlive the calls that made them, and two builders may mix |
| Identity | `identity.ts` | none | two provenances must never give one key |
| Driver, callbacks | `engine.ts`, `callbacks.ts` | event queue, callbacks, timers, quota error | stale events, wake-ups, aborts, errors of the journal, the deadline |
| Budget | `limits.ts` | records and bytes used and reserved | the operations that end an execution must always still fit |
| Journal, recovery | `journal.ts`, `trace.ts`, `engine.ts` resume | lines, commit marks | a halt inside a line, between a line and its mark, or during a resume |
| JSON, wire text | `json.ts`, `trace.ts`, `definition.ts` | none | a text is read in two modes, by two programs |
| UI kit | `ui-kit/src/lib` | none | it puts a picture together from tables, and refuses what it cannot explain |
| Go driver | `driver.go`, `calls.go` | channel of events, goroutines, batches of effects | true parallelism; effects that are published later than decided |
| Lean model, command line, example server, React components | | | not modelled, see below |

How they interact: the **driver** holds the machine's state. In a loop it handles
an event of a callback or a timer if there is one; otherwise it asks the
**machine** for its control candidates and takes the first that is accepted.
Every accepted operation is admitted by the **budget**, appended to the
**journal**, synced and then published. Accepted `invoke`, `beginTask` and `fetch`
operations start or wake a **callback**, which answers by an event; a stop
aborts the callbacks. The machine is a pure function of definition, state and
operation. A **resume** replays the journal and reports every call that was
running as lost. The **kit** reads the same journal and the state.

What makes each of them correct is the list of properties below.

## Modules

Three layers. The *contract* `Calls` says what a driver may rely on: the life of
each call and of the execution, without the workflow that decides which calls
there are. Below it, `Machine` implements the contract; above it, drivers and
recovery are built on it, by EXTENDS. Pure algorithms have modules of their own.

```
   Driver   GoDriver   Recovery                 (compose the contract with
      \        |        /                        queue, goroutines, journal)
             Calls                              (the contract)
               ^  CallsRefinement
             Machine -- Kit                     (what the kit makes of a state)
               |
             View
               |
           Definition -- Typing -- Builder
                      \- KitDefinition
   Budget   Identity   JsonText   JsonNumber   Records
```

| Module | What it is |
|---|---|
| `Definition` | definitions, Single/Stream kinds, validation. The library of workflows is a CONSTANT, assumed valid (`DefinitionAssumption`, what `Engine` checks before it accepts one) |
| `View` | the state variables, the keys, and every query the machine decides by |
| `Machine` | one action per operation of `Stepper.apply`, the environment, `Spec`, `FairSpec` |
| `MachineProperties` | what an execution promises |
| `Calls` | the contract between the machine and its driver |
| `CallsRefinement` | the refinement mapping from `Machine` to `Calls` |
| `Driver` | the TypeScript driver, callbacks and timers: one action per stretch of JavaScript between two awaits |
| `GoDriver` | the Go driver: goroutines, a bounded channel, batches, flush and effects |
| `Recovery` | append, commit mark, sync, halts at any point, truncation, resume |
| `Budget` | reservation, admission, commit, restore |
| `Identity` | the length-prefixed encoding, its decoding, all key functions, list values |
| `JsonText`, `JsonNumber` | the readers of JSON text as pushdown machines; numbers of definitions |
| `Records` | the lines of a journal, as the program writes and reads them and as the kit reads them |
| `Typing`, `Builder` | value types of a definition; its construction call by call |
| `Kit`, `KitDefinition` | what the kit reads off a state, a record and a definition |
| `KitProperties` | what the kit promises about the executions it shows |
| `MC...` | the instances that TLC checks, with the properties of their component; `MCEncodings` puts those of identifiers, texts and numbers into one run |
| `MachineProofs`, `SettlementProofs`, `KitProofs` | proofs about `Machine` and about what the kit reads off its states, each building on the one before |
| `BudgetProofs`, `RecoveryProofs`, `DriverProofs`, `GoDriverProofs`, `RecordsProofs` | proofs about the modules they are named after |

### How the models correspond to the code

*Machine.* Each array of `State` (model-types.ts:38) is a function from keys to
the fields that change; a key is the provenance of the entry, a record, where the
code has a text (`Identity` shows that the text stands for the record). What never
changes and follows from the key (`owner`, `policy`, `target`, timeouts) is looked
up in the definition. Each action is a whole operation: what `step` rejects is the
action's guard, `Fail` includes the stop that the policy `stop` causes, `Stop` the
cancelling of live calls and the dropping of tasks. `Control` is what the driver
takes from `controlCandidates`, `Report` what a callback says, `Environment` what
may also happen. The driver takes candidates in a fixed order and prefers events;
the model allows every order. Payloads are opaque; a collection is the set of what
it collects.

*Driver.* JavaScript runs one thing at a time, from one await to the next, and
every action is such a stretch. `apply` awaits the journal before the new state is
published; what may run meanwhile reads nothing that publishing writes, so one
action stands for both halves (the halves are apart in `Budget` and `Recovery`,
where they matter). A callback is a record with the place where its generator
stands, its fetch flag, its abort and its wake-up; a timer is a set member from
arming to clearing. `Faults` says what an instance includes: exceptions,
an unknown arm, refused operations and payloads, a journal that fails, a cancel,
the deadline.

*Go driver.* One goroutine owns the state; every call has its own; all report
through one channel of bounded capacity. An action is what a goroutine does from
one use of a channel, context or clock to the next. The driver tries operations
until none is left (`Pass`, in any order), flushes them to the journal at once
(`Flush`) and only then publishes their effects (`Publish`), each in view of the
state reached meanwhile. Cancel effects of one stop come in a fixed order, since
they do not touch each other. A report that does not fit its kind of call is
excluded by the bindings. That the journal rejects `Start` is left out: no
goroutine runs yet.

*Recovery.* The variables of `Calls` are the state being applied; a line of the
journal holds the state after its operation, which is what replaying gives, since
`step` is a function. `Write` appends the operation and its mark, `Sync` makes
them durable and publishes. A halt (a crash, or an append or sync that rejects)
keeps any part of what was not synced, cut inside a line or not. `Resume` reads to
the last mark, cuts off the rest, and reports unended calls lost one by one, each
an operation of its own that may be halted again.

*Budget.* Sizes are counted, contents are not. The length of a terminated line is
the same for every call, and the counters that limit growth (executions, tasks,
elements) are one.

*Identity.* A text is a sequence of numbers: digits, the colon, letters. Names are
chosen to look like encodings of each other.

*JsonText.* The recursion of the parser is a stack; one action reads one symbol
with all readers at once (`checkInput`, definition mode, trace mode, the kit, and
`JSON.parse`, which is external). Four hexadecimal digits after `\u` are one
symbol. *JsonNumber* works on digits.

*Records.* A line is a function from field names to values. `step` is a parameter:
a function of the definition and of the operations before, since these lead to one
state. `Accepts` says whether it takes an operation, so that it refuses edited ones,
and `Makes` which values an operation brings that it does not name: the lists of
`settle` and `closeExecution`, and what a judge without an input gives on. The
payloads of a record are of the values that are new in the state (`introduced`). A
definition is valid, refers to something missing, is beyond a limit, or is wrong in
what only the program checks: types, kinds, cycles.

*Builder.* The compiler is modelled as what it lets through: it tells apart types of
TypeScript (`Type<T>`), not the names they are declared under, so two names may stand
for one type (`TypeScript`, `Interchangeable`); no declared type means "no value".
Functions, judges and transforms are declared first; policies and timeouts are copied
and left out. A workflow whose input is given no entry counts as taking none.
Validation may still refuse what was built, for its structure.

*Deliberate mutations.* Definitions commented "A mutation of ..." are used by
nothing. Each is a plausible bug; in the place of the definition it names it
breaks the property that `PROJECT.json` lists with it.

## What is checked

TLC checks every run below to the end; the numbers are distinct states, and each
run takes less than three minutes with two workers.

| Run | Instance | Shows |
|---|---|---|
| `executions` | `pipeline`, `choice`, `route`, `fan`, `caller`; two elements; every fault; `FairSpec` | the machine in every interleaving: slots, results, lists, failures, outcomes, settlement, stops, that it implements `Calls`, and that every execution ends (31,257) |
| `nested` | the same and `spread`, `each`; one element; every fault | closing and failures when tasks are generators and called workflows inside a Stream, and what the kit shows of every state and step (152,066) |
| `definitions` | all valid definitions of three placements; two elements; failures | no valid definition gets stuck or settles without a cause (48,572) |
| `driver` | a generator and a call of a function or a judge; every fault; `FairDriver` | queue, callbacks, timers and machine stay in step; user code is stopped exactly when its call is, none outlives the execution, and every execution ends (1,844,371) |
| `driver_overdue` | the same, deadline only | a violation, see below |
| `go_driver` | the same for goroutines, with a channel of one, batches and effects; `FairGo` | each call is attended, nothing is seen before it is durable, nothing blocks, no goroutine is left, and every execution ends (1,388,262) |
| `go_driver_overdue` | the same, deadline only | a violation, see below |
| `recovery` | a generator and a Single call; two halts; `FairRecovery` | no call starts twice or is forgotten, the whole is one execution of `Calls`, and it ends (1,667,555) |
| `budget` | limits that every account reaches | the end always fits, and the journal can be resumed (30,510) |
| `encodings` | five instances in one: identifiers of up to three steps, two arbitrary texts, JSON texts of structure, JSON strings, number literals | what is written is read back, by all readers of the program alike and the kit beside them (626,807) |
| `records` | journals of one operation of every kind with any field changed; journals of three operations, cut, with two lines lost, repeated or swapped | the program accepts beginnings of what was written only, with the payloads of what the machine made; the kit shows what the program accepts, and refuses the rest where it checks the same (3,248,897) |
| `builder` | a workflow of three placements, or two of which one calls the other, built call by call, with two names for one type; handles of another builder | handles say what validation derives, no type is refused but for its name, and the kit derives the kinds that validation derives, sources that clash included (821,455) |

### The properties

*Machine* (`MachineProperties`).
`TypeOK`: the type invariant.
`SlotLimit`: tasks in flight never exceed the limit, counted by what really runs
and not by the statuses the code counts.
`ResultsMatchCalls`: elements are numbered without gaps, late answers leave no result.
`ListsExact`: a collection has exactly the values delivered to it, then and later.
`FailuresRecordedOnce`: failures match failed calls, deliveries and transforms one
to one.
`OutcomesSound`: outcomes of placements and arms agree with results, which
`closeRun` relies on; failed, upstream failed and skipped mean what they say; the
status agrees with the failures, their policies and the cancel.
`SettledFinal`, `NothingAfterStop`: what settling and stopping forbid from then on.
`CompleteRunsDone` (`nested`): when a run is complete no result and no delivery is
left over, and nothing is in flight below it.
`Termination`: under fairness, every execution ends.
`ImplementsCalls`: whatever a workflow makes of them, calls live as the contract
says (a refinement).
That the driver always has an operation to take or a callback to wait for is the
absence of deadlock; `definitions` looks for it without `cancel`, which is always
possible and would hide one.

*Drivers.*
`CallbacksMatchCalls` and, in Go, `EveryCallAttended`: somebody is going to report
about every call that has not ended, once; it is told to stop exactly if the call
is being cancelled; no timer is left for what is over.
`FetchesMatch`: the machine waits for an element exactly if the generator knows or
will be told, never takes one twice, and in Go no send of the driver blocks.
`NoZombies`, `EndsClean`: when `wait` settles, no user code and no goroutine is left.
`DurableFirst` (Go): user code sees nothing that is not in the journal.
`TimeoutsDue` (Go): an element times out only by its own timer.
`FailsOnlyOverdue`, and in Go `EndsClean`: what a stop by quota may lead to; in
TypeScript also over which call the loop gives up.
`Closes`, `Ends`: every execution ends; in Go the goroutines of timers do, too.

*Recovery.* `StartedOnce`, `NobodyForgotten`: over all halts and resumes, user code
of a call starts at most once, and a call of a running execution that has not ended
has its user code running. `HaltsAreInvisible`: what was published before and after
halts is one execution of `Calls` (the published variables implement the contract).
`Recovers`: an execution that is resumed after every halt comes to its end, unless it
never got past its start.

*Budget.* `EndIsAdmitted`: a cancel, the end of every call and the conclusion fit,
whatever was admitted. `AlwaysRestorable`: limits that wrote a journal read it.

*Texts.* `KeysDistinct`: no two things have the same identifier. `DecodesBack`: what
is put together into one text comes back out of it and out of no other.
`ReadersAgree`: the size check counts the parser's recursion, the two modes of the
parser and the writer of strings agree on every text, and the kit accepts what the
program accepts, with equal keys; it may accept more. `NumbersExact`: a
literal is admitted exactly if it stands for an admissible natural, and is that
natural. `OnlyBeginnings`: damage is noticed, and the payloads of an accepted journal are those
of the values of its state. `KitShowsJournals`: the kit shows every journal that the
program reads, with the same operations and payloads. It refuses what the program
refuses, unless for the limits, types or kinds of a definition or for what only a step
of the machine tells: that an operation is rejected, or which values it makes.

*Definitions.* `OnlyNamesRefused`: whatever order a definition is built in, validation
refuses no type unless two names stand for one type of TypeScript, and handles carry
the types it derives. `KitKindsAgree`: the kit finds the kinds that validation derives,
unknown ones and clashes included.

*Kit.* `StatesReadable`: owners are found at any depth, the tree of runs reads, every
result and member is traced to what made it. `PhasesSound`: what is shown as settled
has nothing left to run. `Attributed`: each operation is shown at what it did
something to. After a cancelled execution the kit may go on showing a concurrency as
active, since the machine leaves it open; no document says otherwise. What the two
programs differ in is part of the properties: the kit refuses an index beyond 2^53-1, and
a definition with dangling references, which the program only finds out when it
validates; and it leaves to the program what `KitShowsJournals` excepts.

### Findings

`driver_overdue` (engine.ts:352) and `go_driver_overdue` (driver.go:543) show the
same gap in both runtimes. A call has timed out under the policy to continue, so
the execution goes on while its user code is being cancelled. Its end arrives
after the deadline has passed and before the deadline's own event is handled. The
terminated operation is then refused as overdue, which stops the execution; the
refusal is not looked at, though other branches of the same handler retry. The
call stays `cancelling` with nobody to report about it, and the loop fails as
stuck, where a quota is documented to give a report. In TypeScript
`FailsOnlyOverdue` shows that a loop that is stuck has had such a stop past the
deadline and is left with a call that has a timeout, was told to stop, and has no
callback any more; in Go `EndsClean` shows the stop and the deadline.

### Bounds

Every bound is a constant of a configuration or a definition commented as one.

*Machine.* Two elements are the least with which one element of a Stream can be
ahead of another, one can fail and another succeed, and the two can be routed to
different arms. Limits 1 and 2 with up to three tasks make tasks wait for slots
that a timed-out call still holds. Two levels of calls make a run inside a task
inside an element of a Stream; `nested` has one element, since its concern is depth.
The rules of `View` look at one placement and its direct sources, so three
placements let every rule for an input meet every outcome of its source.

*Drivers.* Two calls, one of which is a generator, are the least with which an
event waits behind another call's; three would repeat the second. The generator
yields one element and then ends, which is a second fetch: a timer of the first can
meet it. A channel of one makes every goroutine wait for room; `Drain` handles at
most `Capacity` events.

*Recovery.* Two halts let a resume be halted. The journal is not bounded: its length
follows from the calls.

*Budget.* Limits are small enough that each of them is what refuses some
operation. *Texts.* Depth three has a level that is neither outermost nor refused;
lengths are not bounded where the state is a stack. Two-digit parts and the exponents
exceed `MaxShift` and `MaxPadding` as scaled for the run. *Records.* Journals of one
operation are of every kind, with any one field changed; those of three are of kinds
that bring a value, use it, and make a list of it. *Builder.* `MaxParts` bounds
connections, tasks and bodies together. It is two, the least with which the output of
one thing built is the input of another, or two sources of known kinds meet at one
placement. `MaxPlacements` is three, for these sources and what they meet at; a workflow
counts as one until it has one. Names are used in one order, since they only tell
placements apart. Concurrencies without tasks are refused anyway and not tried, and
which element types are collected is fixed for each kind of collector.

### Fairness

`FairSpec`: weak fairness of `Control`, since the loop goes on applying control
operations as long as one is accepted (engine.ts:151-178), and of "some call
reports", since every callback ends with `send` (callbacks.ts:175-196), if user
code ends. Nothing is assumed of faults, timers or cancels.

`FairDriver`: the event loop runs whatever can go on; the deadline passes in the
end; user code is trusted to end only once it is aborted. `FairGo`: the scheduler
runs every goroutine that can go on and timers that have fired send; otherwise
the same. `FairRecovery`: the driver goes on, a halted execution is resumed, and
user code ends.

## What is proved

The theorems hold for every value of the constants: any library of valid workflows of
any size and depth, any number of elements and calls, any limits, any number of halts,
any set of faults, any journal with any damage. They assume `DefinitionAssumption` (the
library is valid, and its workflows have finitely many placements and connections: each
rule of `validateDefinition` that a proof needs is cited as a lemma), `MachineAssumption`
(`MaxYields` is a natural number), `BudgetAssumption` (limits, sizes and the lengths
of lines are natural numbers) `DefinitionsAssumption` (a valid definition is within
the limits and refers to nothing missing) and `RecordsAssumption` (the operations
written are among those that exist). What the machine accepts and makes, and what
fields are edited to, is arbitrary. TLC evaluates them on every
instance above, and it checked each invariant before it was proved.

`MachineProofs`.
*`TypeCorrect`*, *`OwnersAlwaysExist`*: `TypeOK` is inductive only together with
`OwnersExist`, since the workflow of a new run is looked up through its owner, and the
owner through the run it is in. One lemma per action shows that it keeps the types and
either keeps all keys (`SameKeys`) or only adds to them (`Grows`); that owners stay
under such a step is proved once. `ChildPath` takes the path of a called run apart.
*`StopIsFinal`* (`NothingAfterStop`): the guard `status = "running"` is not enough,
because reports of calls are also heard afterwards; no call is live while the
execution is stopping (`NoLiveWhileStopping`), which `Stop` establishes, and so only a
cancelled call can report.

*`LimitIsKept`* (`SlotLimit`): what runs is not what the code counts. As
long as the execution is running every task in flight holds a slot (`Covered`), so
the limit bounds the tasks in flight or active when another begins (`WithinLimit`), and
no other step adds to them (`Calm`). `TasksEndLast` is the case of a task that ends
while its call is being cancelled.
*`ResultsAlwaysMatch`* (`ResultsMatchCalls`): the count of the results of
each call (`Counted`) is inductive only if no result waits for a call that is yet to be
made. Every result of a call has its call, and every result of a task its call or the
run it calls (`Sourced`); a task that has a run never gets a call. All steps but the
answers themselves are shown to be `Silent`.
*Kinds*: `DeriveKinds` repeats a round over the connections; a round only adds, and the
placements are finite, so the last round adds nothing (`KindsAreStable`). Hence every node
has the kind of output and of input that its rule gives it (`OutputIsValid`,
`InputIsValid`), which is what a Single placement having one input, and so one
invocation and one result, rests on.
*`Life`* says what the status of an owner tells of what it owns: the owner of a live call
is active, that of a call that returned succeeded, that of a call that failed or was lost
failed; a called workflow or a concurrency that is open has an owner that is active, or
was cancelled at the end. A step is an event of one call, leaves all of them steady, begins
something, or ends something (`StepKeepsLife`), and what has ended is never touched
again (`Kept`).

`SettlementProofs`. The invariant is `IInv`: types, owners, `Counted`, `Sourced`, `Life`
and `Books`. Of the books, `EntriesOwned` says where every entry of every table comes
from, `EndsExplained` that whatever succeeded has its result, `SinglesHaveOne` that a
Single placement has one, `AllFit` that the results are those the outcome promises,
`Sealed` that a settled placement has got, and used, all the input it can get, `Lists`
that the lists hold what was collected, and `CompleteIsSettled` that a complete run is
settled. `Ledger` is what a step may add to the tables, proved action by action
(`StepBooks`); from there on the proofs never look at an action again.
*`SettledIsFinal`* (`SettledFinal`): nothing is added to a placement that settled, since
its input is exhausted (`Exhausted`) and the input of an exhausted placement stays so: the
source of each of its connections is settled, and has no more results by the same
invariant.
*`ListsAreExact`* (`ListsExact`) and *`CompleteIsDone`* (`CompleteRunsDone`): what was not
delivered, used or ended would be so of a placement that is settled; across calls it goes
along the path of the run, whose prefixes are complete (`WithinParent`, `CompleteInside`).
*`LifeHolds`*: `Life` in every reachable state.

In the same module, failures and outcomes.
*`FailuresAreRecordedOnce`* (`FailuresRecordedOnce`): every step records nothing and
adds nothing that failed, or records one failure and adds the one thing that failed there
(`StepFails`, from `NoFailure` and `OneFailure`). The four sets of what failed are therefore
finite and as many as the failures (`FailureBooks`). The end of a call that was cancelled
after it failed changes none of them.
*`OutcomesAreSound`* (`OutcomesSound`): that a placement failed because of a failure is
inductive only together with where each failure comes from (`Sources`), with what a called
workflow returned to its caller (`EndsMatch`), with a failure inside every run in
which something failed or lacks its input (`FailuresInside`), and with the fact that while
the execution runs only calls that failed are cancelled (`Undisturbed`): together
`WellCaused`. `SettlementIsCaused` reads the causes off the tables when a placement settles;
`SettledFailsNoMore` says that none is added to one that was skipped. The status of the
execution follows: it stops exactly if the policy of the one failure recorded says so
(`FailingStops`), and once the main run is complete nothing is in flight (`RootIsQuiet`),
so that without a failure all calls returned (`UnfailedIsWell`).
*`MachineImplementsCalls`* (`ImplementsCalls`): every step of the machine is a step of
`Calls` under the mapping `CallsView`, or leaves what `Calls` speaks of alone. Two facts
carry it: whether a call is a Stream is the same after the step (the functions of the
definition do not change and neither does its owner), and `NoLiveWhileStopping`.

`KitProofs`. The kit reads back, from keys, what the machine built them from.
*`PhasesAreSound`* (`PhasesSound`): the phase is computed from the tables, not kept, so it
is sound only if the tables agree. A placement settles once its invocations have ended,
and one that has ended owns nothing in flight, not even a call that is still being
cancelled (`EndedOwnsNothing`, from `Life`); a run that is complete has ended with all
its placements.
*`StatesAreReadable`* (`StatesReadable`): what a result was made of is in its key, and was
known when the key was made (`EntriesOwned`); the entries of a list are one result of each
element, or of each task (`Lists`, `SinglesHaveOne`). The path of a run is the path of its
owner and one frame more, so its level in the tree that `runTree` walks is its length
(`LevelsAreLengths`: the table of lengths satisfies the recursion, and a second table that
does would differ from it at a least level). The kit refuses deep or large trees whatever they hold, so that
the tree reads is claimed for states within its own limits (`WithinBudgets`); the rest
holds of all.
*`StepsAreAttributed`* (`Attributed`): every step is one of the operations that the records
can hold (`StepsAreOps`), each operation changes entries of one placement and task only
(`Touches`, one lemma per kind of operation), and those are the ones that the kit, which
sees the state after it, derives from the fields of the record
(`OperationsTouchRelated`).

`BudgetProofs`, *`LimitsHold`*, *`EndAlwaysAdmitted`*, *`RestoreAlwaysAccepts`*: the
invariant counts the operation on its way, which is neither in the records nor in the
reserve, beside both (`Accounted`). Each admission then gives up exactly what it takes.

`RecoveryProofs`, *`JournalReadable`*, *`PublishedDurable`*, *`CodeStartedOnce`*,
*`CodeAttended`*, *`OnlyUnstartedRefused`*: the invariant says what the journal is up
to its last mark (`Stored`), what the memory of a live process is beside it
(`Current`), and who runs (`Attended`). A halt cuts the journal somewhere after
`synced`; what is left reads to a state that has all that the published one has
(`Grows`). That lets calls begun before be recognised, whatever was written after them.

*`HaltsLeaveNoTrace`* (`HaltsAreInvisible`), in the same module: recovery implements
`Calls`. A halt decides what of the operation on its way is left, resuming publishes
what it finds, so the step of the abstract execution may be taken long after it was
computed, by another process: it has to be remembered as data. `Leads` is `Calls!Next`
between two states that are values; every operation of the machine leads from the
memory before it to the memory after it (`OperationLeads`), the line on its way keeps
being led to from what is published (`Linked`), and publishing it is a step
(`LeadsToStep`).

`DriverProofs`, *`CallbacksAlwaysMatch`*, *`FetchesAlwaysMatch`*, *`NeverZombies`*,
*`FailuresExplained`* (`FailsOnlyOverdue`): any calls of any kinds and timeouts, any number of elements. The
invariant follows a report from its callback through the queue to the machine: what may
lie in the queue (`Reports`), who may still report (`Attached`), who was told to stop
(`Obeyed`), and where a fetch stands between machine and generator (`Fetched`, with one
`Phase` per place it can be in). What relates callbacks and machine is claimed only
while the loop lives: one that broke leaves both as they were. `OperationKeeps` covers
every published operation, `BreakKeeps` the exceptions, `StepKeeps` what callbacks do
between two turns of the loop. Why the loop fails is a second invariant on top
(`Explained`): only calls that are told to stop are ever without a callback, and as long
as nothing stops the execution, calls are told to stop by their own timers only; so the
call over which the loop gets stuck has one.

`GoDriverProofs`, *`CallsAreAttended`* (`EveryCallAttended`), *`FetchesAreMatched`*
(`FetchesMatch`), *`JournalComesFirst`* (`DurableFirst`), *`EndsAreClean`* (`EndsClean`),
*`TimeoutsAreDue`* (`TimeoutsDue`): any calls of any kinds and timeouts, any number of
elements, any capacity of the channel and any faults, with no assumption on the
constants. Between the decision of the machine and the goroutine that carries it out lie
two queues, the effects and the fetch of the generator, and between the goroutine and the
machine a third, the channel of events; the invariant says what each may hold (`Asking`,
`Reports`, and `Owing` for what the driver reports to itself). `Attended` adds them up to
the calls that have not ended, but for what an operation refused past the deadline leaves
behind; `Stands` follows a fetch, with one predicate per place it can be in (`Unasked`,
`ToAsk`, `Told`, `Moving`, `Ahead`); `Timed` and `Clocks` follow a timer, which exists
once, armed, fired or in the channel, and whose index is behind the element that is still
to be asked for: that is what makes a late event stale. Two facts are easily missed:
while effects are published no generator is left that a pass would have asked for an
element (`Flushed`), and in one batch the start of a call comes before its fetch
(`Asking`).
An operation on calls `C` is described once by what it leaves of the others (`Operates`,
`Spares`) and what it sees to for its own (`Own`); `OperationKeeps` draws the invariant from
that, `PublishKeeps` does the same for an effect, `GoroutineKeeps` and `SendReportKeeps`
for the goroutines. What relates goroutines and machine is claimed while the loop drives:
one that gave up leaves its effects undone. TLC checked the invariant on the instance
of `GoDriver.cfg` before it was proved.

`RecordsProofs`, *`BeginningsOnly`* (`OnlyBeginnings`), *`JournalsAreShown`*
(`KitShowsJournals`): any definitions, operations, identities and texts, whatever the
machine accepts and makes of the operations, any number of operations,
lines lost, repeated or swapped, and fields edited. The invariant says of the journal only
what the code that wrote it guarantees: lines are the program's own until one is edited,
and in place until one is lost (`Unedited`, `OnlyCut`). The readers go over the lines one
by one; that such a table exists, and that a claim holds of all lines, is drawn from the
least number for which it would not (`LeastNatural`), one lemma at a time, where an
induction principle would serve them all. Two facts carry the first theorem: the number
that is due leaves one line of the program that can come next (`OperationIsNext`,
`CommitIsNext`), so a reader of such lines is in one of four states (`Beginning`), of
which two hold exactly what was written; and on a journal that was only cut, the line
decides which (`Exactly`). The payloads of an operation are the values of the state after
it without those of the state before, so what was read adds up to the state (`StateGrows`).
For the second, the tables that both programs have of the fields of an operation are compared (`KeysAgree`), from which follows what a line that
one of them reads is to the other (`RecordsReadAlike`). Then both readers take each line
together (`Together`), in step until the program refuses a definition or a commit that the kit
does not check; from there on the kit has an operation that a step would not accept with
these payloads (`Differ`) for as long as it reads on. `TransitionsAre` and `CommittedAre` say which of the records that were
read are shown: every other one, if it has its commit.

Only model-checked: liveness, and with it everything under fairness; how the kit derives
the kinds of a definition (`KitKindsAgree`); and what the program makes of identifiers,
texts, numbers and definitions under construction (`KeysDistinct`, `DecodesBack`,
`ReadersAgree`, `NumbersExact`, `OnlyNamesRefused`), where a proof would be an induction
over data of any depth, or a recursive operator that the provers cannot unfold.

## What is not modelled

- The order of list values in the machine (`Identity` has the list values
  themselves), and the contents of payloads.
- Of the definition: field-by-field decoding of its wire format, identifiers, UTF-8
  and size limits. Of the builder: settings, `TypedEngine` and `TypedReport`,
  which only parse values. Of the texts: `encodeState`, and the order in which
  keys are printed.
- Of the callbacks: the constructor's checks of bindings, the encoding of values.
- Of the Go implementation: machine, definition, limits, journal and wire text.
  They mirror the TypeScript modules function by function, and the repository
  runs both against the same fixtures; the driver is what differs.
- The Lean model: a model itself, with its own proofs.
- The Go command line (arguments and files around `checkTrace` and `validate`),
  the example server, the React components, styles and layout of the kit: no
  state that an execution depends on.

## Plan

Done, in this order: `Definition`, `View`, `Machine` with their properties and
proofs; `Calls` and the refinement; `Driver`; `Recovery`; `Budget`; `Kit`;
`Identity`; `JsonText`, `JsonNumber`; `Records`; `Typing`, `Builder`,
`KitDefinition`; `GoDriver`.

Left: the order of list values in the machine; the field-by-field decoding of the
wire format and the limits of its sizes; `encodeState`; a second instance of the
machine with the differences of its Go twin, should the two ever diverge.
