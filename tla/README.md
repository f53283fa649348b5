# A verification project for liu

liu is a durable workflow engine: workflow definitions are registered through an
HTTP API, instances of them are advanced step by step inside database
transactions, and activities are carried out by workers that lease tasks, report
results and may crash at any time. This directory holds TLA+ models of its
parts, the TLC runs that check them on small instances, and proofs that TLAPS
checks for instances of any size.

Paths in this document are relative to the repository (`engine/engine.go` is
`src/engine/engine.go`). `PROJECT.json` lists, for every definition that models
code, the lines it models; for every property a mutation of the model that
violates it; and the places in the code where things are hard to get right
(`hazards`).

## 1. Inventory

| part | state | operations | interacts with |
|---|---|---|---|
| definitions (`model/definition.go`) | the step graph | `ParseDefinition`, `Validate`, `reachesEnd`, `Checksum` | registry, kernel |
| registry and cache (`engine/engine.go`, stores) | `workflow_definitions`, one cache per replica | `RegisterDefinition`, `PutDefinition`, `definition` | kernel, API |
| kernel (`engine/engine.go`) | instances, tasks, timers, signals, history, outbox | `StartInstance`, `Advance`, `OnTaskComplete`, `OnTaskFail`, `SignalInstance`, `ApplyPendingSignal`, `OnTimerFired` | all others |
| scheduler, timer loop, sweeper (`engine/scheduler.go`, `timers.go`, `sweeper.go`) | none of their own | list, then one transaction for each row | kernel, leader |
| retry policy (`engine/retry.go`) | none | `decideRetry`, `backoff` | kernel |
| task queue (stores, `api/tasks.go`) | `tasks` with lease token and expiry | `LeaseTasks`, `HeartbeatTask`, `ExpireLeases`, `CompleteTask`, `FailTask`, `RequeueTask` | kernel, worker |
| worker SDK (`worker/`) | poll loops, slots, goroutines | poll, dispatch, heartbeat, report, drain | task queue |
| schedules (`engine/schedules.go`, `api/schedules.go`) | `workflow_schedules` with `next_run_at` and a claim | create, pause, resume, delete, claim, start, mark | kernel (starts), cron |
| cron (`schedule/cron.go`) | none | `ParseCron`, `matches`, `NextAfter` | schedules |
| outbox publisher (`engine/outbox.go`) | `outbox.sent_at` | list, publish, mark | kernel (writes records) |
| leader election (`store/leader.go`, `cmd/engine/main.go`) | a Postgres advisory lock | boot, acquire, release, crash | all loops |
| store transactions (`store/memory.go`, `store/postgres.go`) | everything | `Tx`, row locks or one mutex, rollback | all |
| API, authentication, telemetry, migrations | - | I/O around the above | - |

What makes the system hard:

- **Races for a parked instance.** A task result, a signal and a timer may all
  want to move an instance on. Each handler decides under the row lock whether it
  still may, by comparing status and current step.
- **At-least-once delivery.** Leases run out under live workers; results are
  reported late, twice, or by a worker that lost the task.
- **Calls of two transactions.** `StartInstance`, `SignalInstance`, `OnTaskFail`
  (a read and a transaction), the timer loop and the schedule loop can be cut
  short or overtaken between their halves.
- **Revisited steps.** A workflow may have cycles, so what belongs to one visit
  of a step may turn up during the next.
- **Two stores** that are meant to be interchangeable.
- **One leader** whose lock belongs to a database session and not to the process.

## 2. Modules

| module | models | proofs |
|---|---|---|
| `Definition` | steps, the rules of `Validate`, the reference meaning of "an end step is reachable" | |
| `Validate`, `MCValidate` | `Validate` and the breadth-first search of `reachesEnd` | `ValidateProofs` |
| `Kernel` | the engine over either store: state and actions | |
| `KernelProperties`, `MCKernel` | what the kernel promises; workflows to check it on | `KernelProofs`, `TaskProofs`, `AttemptProofs`, `HistoryProofs` |
| `Workflow`, `Refinement` | what a caller of the API may rely on, and the mapping under which the kernel implements it | `HistoryProofs` |
| `RowLocks`, `MCRowLocks` | the kernel's transactions on Postgres, a statement at a time | `RowLocksProofs` |
| `Worker`, `MCWorker` | the worker SDK against the task queue | `ProcessProofs` |
| `Schedules` | cron schedules: API, claims, runs | `SchedulesProofs` |
| `Cron`, `MCCron` | cron expressions: `ParseCron`, `matches`, `NextAfter` | `SchedulesProofs` |
| `Leader` | leader election | |
| `Outbox` | the publisher | |
| `Cluster` | replicas that elect a leader which runs the publisher (`Leader` and `Outbox` composed) | `ProcessProofs` |
| `Registry` | definitions, versions and caches | `ValidateProofs` |

### Kernel

`inst`, `task`, `timer`, `signal`, `history` and `outbox` are the tables. The
volatile variables hold what lives between two transactions of one call:
`starting` (an instance created, its start event not yet recorded), `calls`
(`OnTaskFail` has read the task), `signalling` (calls of `SignalInstance` that have
read the clock and have not yet tried to apply), `batch` (timers a loop has listed), and `held` (deliveries a worker may
still report). Each has an abort action: the process dies there, the caller goes
away, or the transaction fails.

- One `Store.Tx` is one action. This is the memory store's mutex. That it is right
  for Postgres too, where only row locks keep handlers apart, is what `RowLocks`
  is about.
- A payload is a reference. `context[s]` is the task whose output was last merged
  for step `s`, and an event refers to the task or signal it is about.
- Time is relative: a row holds the ticks left until a lease, a delay or a timer
  is due, and `Tick` lets one pass. Only the order in which things run out
  matters, so durations of one tick are enough; a tick may always be put off.
- `visit` in a task is the row version in its idempotency key. In a timer it is
  auxiliary: the code has no such column.
- A worker is over-approximated: it may report any delivery it has been given,
  late, twice, or both as complete and as failed. A lease token is fresh among
  those that somebody can still present for the same task.
- Which visible task a poll gets is left open (`SKIP LOCKED` may pass over any
  row), and so is the order in which due timers fire.
- A signal's id stands for its `created_at`, the order in which signals are consumed.
  `SignalInstance` reads the clock, inserts the row (`AppendSignal`) and applies
  (`ApplyPendingSignal`), three steps that calls may interleave: overlapping calls
  record their signals in either order. With the memory store there is one clock, on
  Postgres each replica has its own and they need not agree. `seen` in a signal is
  auxiliary: the later instants some call had read when it was recorded.
- The start event carries the initial step. On Postgres `StartInstance` reads the row
  back before it writes the event, which may then carry the step the instance has got
  to; no property tells the two apart.
- A transaction that fails leaves nothing behind, which both stores promise: an error
  that rolls one back is a stuttering step, except where the call leaves a volatile
  trace.
- `Backend` selects the one difference between the stores that changes an
  outcome here: `CompleteTask` on a FAILED task.

### Worker

Poll loops, dispatched tasks (each holding a slot) with the ticks to their next
heartbeat, the worker's context, and the engine's queue. A call is lost with its
request, and the engine does nothing, or with its response, when it has; the bound is
`MaxLost`. `Tick` waits for a worker that
has something to send (`Prompt`): the delays modelled are those of handlers and
of the queue for slots, not of the goroutine scheduler. The delay of a retry is
left out; its budget is kept.

### Schedules

The clock counts minutes, the granularity of cron, and a claim lasts one. A cron
expression is the set of minutes it matches. A pass reads the clock once and
works on copies of the rows, as the code does. A start or a mark that fails is logged
and the pass goes on; only the end of the process drops the rest of it. Reading the clock and inserting
the row are one step of a create; a resume has two, with at most one resume of a
schedule in flight. `since`, `resumes`, and `pass`, `taken` and `resumes` of a
run are auxiliary. Tenants are left out: for a row of another tenant the API
answers "not found" and changes nothing.

### Workflow and Refinement

`Workflow` sees of an instance only its status and its step, and of the rest only
the signals: an instance walks the graph of its definition, it leaves a wait by
using up the oldest signal of the right name that has arrived or, if the step has a timeout,
by the timeout branch, it fails only in an activity, and it stays where it ended.
`Refinement` maps the kernel's rows to this by forgetting columns, nothing else.

### RowLocks

A transaction is a client (a connection) that works through the statements of its
handler: `SELECT ... FOR UPDATE` of the instance, the update that settles or
requeues the task, the subquery that reads the next history `seq`, the insert, the
commit. Locks are held from the statement to the end; a client waits for a row
another one has locked and for the fate of an uncommitted row with the same `seq`.
What it read stays with it, what it writes appears at the commit. Any transaction
may be rolled back anywhere, a duplicate `seq` or a changed row version rolls it
back, and a wait cycle is broken by rolling one of its members back.

The handlers are the ones in which two transactions lock the same rows in different
orders: `OnTaskComplete` takes the task before the instance, `OnTaskFail` the
instance before the task, and the second transaction of `StartInstance` appends an
event without locking the instance at all. Hence workflows of activities and ends
only (`TaskStepsAssumption`). The transactions on timers and signals lock the
instance first and then rows that nobody locks without it. Statements outside a
transaction (`LeaseTasks`, `HeartbeatTask`, `ExpireLeases`, the start's insert) are
one step and do not touch a locked row: polls skip it, the others wait. The sweeper
is one step too: at most one task of an instance is leased, so it never holds one
row while it waits for another of the same instance.

The variables of `Kernel` are those of `RowLocks`, so the refinement needs no
mapping: `ImplementsKernel` is `Kernel`'s own specification.

### Cron

One behaviour is one call: the parser works item by item, with its loop variable as
wide as `int`, the scan minute by minute. Splitting the text into fields, items and
numbers is left out. What the `time` package makes of a minute in a time zone is the
constant `Civil`, and five years on is `Deadline`: the model checker gets a small
calendar with month ends, leap years and a clock put forward and back, the proof any
calendar at all.

### Cluster, Leader, Outbox

In `Leader` a session may end later than its process, or earlier. `Outbox` lets
transactions commit in another order than they drew their ids, as a Postgres sequence
does. `Cluster` runs the publisher of `Outbox` in each replica of `Leader`: a pass
begins only while the process leads; SIGTERM cancels the context, which the sink
does not look at but the database does, so a pass that is under way may still publish
and no longer mark; the lock is released before the process is gone. `cut` records
what a process published and could not mark.

### Registry, Validate

`Registry` separates the read of a definition from the write of the cache. A start
resolves an explicit version through the cache of its replica and the latest one from
the store, and counts as run by what it got.
`Validate` keeps whether a document is accepted and not which error it
gets; a `timeout_next` without `timeout_after` counts as an edge, as in the code,
although the engine never follows it.

## 3. Runs

Runs that pass:

| run | what it asks | bounds |
|---|---|---|
| `KernelOrder` | only the task or timer of the current visit moves an instance; context and payloads agree with the history; no stale work is handed out; the outbox mirrors the history; a finished instance stays so | all of `workflows/order_approval.json`, with one attempt for each activity, on the memory store: 2 tasks, 2 tokens, one timer and 2 timer loops, one signal, one failure report at a time |
| `KernelLoop` | rows are well-formed and linked, no lost wake-up, signals consumed once and in the order of the calls, the history explains the row | a cyclic workflow with an activity, a sleep and waits with and without a timeout, on the memory store; 2 tasks, 2 timers and 2 signals: room for two visits |
| `KernelFinishes` | every started instance finishes; the kernel implements `Workflow`; attempts agree with the history; FAILED is final in Postgres | an activity with a retry, a wait with a timeout; 2 overlapping failure reports, 2 tokens, 2 timer loops |
| `RowLocks` | the committed effects are those of the atomic kernel; what was read under a lock is current; a `seq` is lost to `WORKFLOW_STARTED` only; a wait cycle is one task's completion against its failure | 3 connections, 1 instance, 1 task, 2 tokens, 2 failure reports |
| `Validate` | the verdict is right and the search ends | all graphs on 3 steps; all shapes of a step |
| `Cluster` | leaders are accounted for; a free lock is taken; sent means published; a record is repeated only if its mark was cut off; everything is sent | 2 replicas, 1 lost session, lingering sessions; 2 records, batches of 1 |
| `Schedules` | one run per occurrence; no catch-up; no occurrence lost; due occurrences run | 2 loops, claims that run out in mid-pass, starts and marks that fail, a schedule with 3 occurrences, one resume |
| `Cron` | `NextAfter` returns the least matching minute, or none up to its deadline; only malformed expressions are refused; every call ends | fields of 2 to 4 values, a calendar of 11 short years with leap days and two clock changes, 172 expressions |
| `Worker` | the lease is kept while every task can have a slot; tasks settle; shutdown ends | 1 task, 2 attempts, 3 slots, 2 lost calls |
| `Registry` | one definition per instance, latest is greatest | 2 replicas, 2 versions, 2 contents |

The bounds are the least at which the hazards of the run can happen: two tokens
for a redelivery, two failure reports for a stale attempt number; two tasks and
two timers for a second visit; two signals for their order; a wait with a step after it
and a second timer loop for a timer that comes too late; three connections for a
wait cycle with a third transaction in between; a second loop or replica for an
overlap; more records than a batch takes. `Worker` has more slots than lost calls:
with as many, slow handlers that lost their leases can take every slot, the leases
of waiting tasks run out one after the other, and `EveryTaskSettles` fails.

Ids are never reused: when they are used up the model stops. It also stops when
every instance has finished, when the clock of `Schedules` or the calls of `Cron`
and `Validate` have come to their end, and when a `Worker` has stopped. That is why
deadlock is not checked in these runs; `Registry`, which never stops, does check it.
In `RowLocks` waiting for one another is the subject: `DeadlockIsCompleteVersusFail`
says which cycles there are, and `DeadlockDetected` is the detector of Postgres.

`NoCatchUp` and `NoOccurrenceLost` speak of schedules that were never in the hands of
two passes at once (`Undisputed`). A pass that takes longer than its claim of one
minute and then marks its stale copy may move `next_run_at` past an occurrence that
nobody ran; the run contains such passes, and `OneRunPerOccurrence` and `DueIsRun`
hold with them.

`OwnTimerMovesInstance` meets in `KernelOrder` the timer that both loops have listed and
the one that is left over when the approval wins: it becomes due while the instance is
parked on `capture` or has finished. What it cannot meet there is a second visit of the
wait, for which the code does not keep it (below).

`SignalsInCallOrder` is as much order as the code has. A call reads the clock before it
inserts, so of two overlapping calls the one with the later `created_at` may be recorded
and consumed first; a signal that was recorded before another call read the clock is
consumed before that call's, unless the clocks of two replicas disagree.

`RepublishedOnlyIfCut` is about what a leader publishes. A former leader whose last pass
is under way may publish a record after its successor has sent it.

The type invariant of the kernel is an invariant of a run and a theorem. Those of the
other modules are theorems (`WorkerTypeOK`) or conjuncts of the inductive invariants
that are proved (section 5) and of no run.

Runs that find a violation. Each checks one statement a comment makes, and TLC
shows how the code departs from it; `findings` in `PROJECT.json` quotes the
statement:

| run | what happens |
|---|---|
| `KernelRevisit` | in a workflow that comes back to a step, a repeated completion of an earlier visit completes the current one |
| `KernelLostSignal` | a signal whose apply step was cut off is never applied |

On workflows without cycles `OwnTaskMovesInstance`, which `KernelRevisit`
refutes, holds (`KernelOrder`).

Other departures from what a comment or a document says. No run is kept for
them; TLC shows each with the constants of the run named, changed as said:

| statement | property | constants |
|---|---|---|
| a late timer "must be a no-op" (`engine/engine_test.go:183`): the timeout timer of an earlier visit cuts a later one short | `OwnTimerMovesInstance` | `KernelLoop`, 3 timers |
| the history starts with `WORKFLOW_STARTED` (`engine/engine_test.go:114`): it is written by a second transaction | `StartedFirst` | `KernelOrder` |
| a crashed worker's task "is retried within its budget" (`engine/sweeper.go:8`): sweeping is not counted | `DeliveriesWithinBudget` | `KernelOrder` |
| the stores "are interchangeable" (`store/store.go:3`): in memory a FAILED task may become DONE | `FailedIsFinal` | `KernelOrder` |
| "only the advisory-lock holder runs the mutating loops" (`cmd/engine/main.go:57`): a leader is not told that its session is gone | `OnlyHolderLeads` | `Cluster` |
| "a crashed leader automatically yields to a standby" (`store/leader.go:12`): a standby tries once, at boot | `StandbyTakesOver` | `Leader` under `FairSpec` |
| resume will "recompute `next_run_at`" (`README.md:92`): a slow pass overwrites it | `ResumeRecomputes` | `Schedules` |
| heartbeats last "for the duration of the handler" (`worker/runner.go:137`): a task that waits for a slot has none | `KeptWhileRunning` without its condition on slots | `Worker` with 2 activities, 1 slot |
| `Run` "drains in-flight tasks" (`worker/runner.go:77`): reports are sent with the cancelled context | `ResultsReported` | `Worker`, no lost calls |

Two more that the models contain and no property is about. In memory
`DueSchedules` claims every due schedule and returns the first `limit` of them,
so the others wait for their claims to run out. And a cron step so large that the
loop variable of `parseField` wraps around (`schedule/cron.go:148`) ends in a panic;
`RefusedIsInvalid` says that nothing else does.

## 4. Fairness

- **Kernel.** Loops tick for ever, so `Advance`, `ListDueTimers`, `ExpireLeases`
  and `Tick` are weakly fair. So is a poll, and so is the end of a call in
  flight. Completion by the holder of the lease and the firing of listed timers
  are strongly fair: a worker or a loop may be cut down, but not every time.
  Nothing is assumed of starts, signals, heartbeats, aborts or failures.
- **Worker.** Goroutines, the sweeper and the clock run on, and handlers return.
  Nothing forces a call to be lost.
- **Schedules.** The loops and the clock tick; a start of a schedule does not fail
  every time some loop tries it (strong fairness).
- **Cluster.** A supervisor restarts what is down, which is what `docs/runbook.md`
  relies on. A replica that boots again and again is not cut down every time before
  it asks for the lock, a shutdown ends, Postgres notices dead sessions. The
  publisher of a leader ticks; a publish or a mark of a record does not fail, nor
  does the leader die or resign, every time it is tried.
- **Validate, Cron.** A loop that nothing interrupts.

`RowLocks` and `Registry` check safety only.

## 5. Proofs

TLAPS checks 33 theorems in eight modules, for every value of the constants that
satisfies the named assumptions. For the kernel these say that the definition is one
`Validate` accepts (`DefinitionAssumption`), ids are positive numbers and the empty
token and key are told apart (`IdAssumption`), durations are natural numbers
(`TimeAssumption`) and the backend is one of two (`BackendAssumption`). `RowLocks`
adds that the backend is Postgres and that steps are activities and ends; the other
components have assumptions of the same kind on their own constants. Every safety
property and every action property that a passing run checks is the statement of a
theorem.

### The kernel: types, references and shapes (`KernelProofs`)

- **`TypesHold`**, **`ReferencesHold`**: rows keep their types, references are not
  dangling, tasks and timers belong to steps of their kind, and every task's `visit` is
  below its instance's row version. The last is what makes the next idempotency key
  fresh. `TypeOK` is not inductive alone: that a timer's target is a step needs
  `WellFormed`, and the kind of the step the timer was armed on. The inductive invariant
  `Linked` is the conjunction of the two; the proof has a lemma per action.
- `NextShapes` (a lemma): what a step does to instances, histories, outbox and inbox is
  one of a few things. It touches none of them, creates an instance, records its start,
  receives a signal, or handles one instance: parks it, with or without an event, moves
  it on by one event, ends it, or records a retry. What the two modules below say of
  histories is proved shape by shape.

### Tasks and timers (`TaskProofs`, `AttemptProofs`)

- **`NoLostWakeup`** (`ParkedHasWakeup`): an instance that waits on an activity has an
  open task of this very visit; on a sleep, or a wait with a timeout, an armed timer of
  this visit. The inductive invariant `Woken` joins `Linked` and the promise. The core
  of the argument: a handler settles a task or fires a timer only together with moving
  the instance parked on its step, and every move bumps the row version.
- **`PayloadStaysCurrent`** (`PayloadIsCurrent`). The inductive invariant `Working` adds
  to `Woken` that a visit has at most one task and one timer (`OnePerVisit`), that the
  task of the current visit has the context of its instance as payload (`Supplied`), and
  where the instance of any row can be (`Once`): on the visit the row was made for,
  failed at its step, or at a step that lies after it in the graph. Like the two
  theorems of `KernelProofs` and `NoLostWakeup` this holds with cycles too.
- **`NoOrphanTask`** (`OpenTaskIsAwaited`), **`LateResultsAreNoops`**
  (`OwnTaskMovesInstance`), **`LateTimersAreNoops`** (`OwnTimerMovesInstance`) for
  definitions without cycles (`Acyclic`: every set of steps has a member with no
  successor in the set). No step then lies after itself, so `Once` leaves only the
  current visit for a row whose step the instance is parked on. The hypothesis is needed
  here and for the two theorems that follow: `KernelRevisit` and the late timer of
  section 3 are counterexamples with a cycle, and on an activity and a wait that leads
  back to it TLC refutes `OpenTaskIsAwaited`, `AttemptsMatchHistory` and `FailedIsFinal`.
  The workflows of `KernelOrder` and `KernelFinishes`, and those in `workflows/`, satisfy
  it. The timers also need that what a loop has listed is due and stays so (`Listed`).
- **`FailureIsFinal`** (`FailedIsFinal`), for Postgres and without cycles. In memory
  `CompleteTask` turns a FAILED task to DONE, and with a cycle `RequeueTask`, which stops
  at DONE and not at FAILED, may reopen a task of an earlier visit.
- **`AttemptsAreExact`** (`AttemptsMatchHistory`, in `AttemptProofs`), without cycles.
  `OnTaskFail` reads the attempt before its transaction; the invariant `Attempts` says
  that a report whose token is still that of the task has read its attempt
  (`ReadIsCurrent`), that histories record retries of their own tasks only
  (`RetriesOwned`), and that the count and the budget hold. A requeue clears the token, so
  of two reports that have read the same attempt one is refused.

### History, context, outbox, inbox (`HistoryProofs`)

All of these hold for every definition, with cycles and with both stores.

- **`FinishedForGood`** (`TerminalIsFinal`): no handler writes a finished instance. Only
  the start event, whose transaction does not look at the instance, may come later.
- **`HistoryDeterminesState`** (`HistoryExplainsState`), from `Trail`: the last event,
  start events aside, explains status and step, and an instance without such an event is
  at its initial step.
- **`ContextIsReplay`** (`ContextMatchesHistory`): for each step, the output in the
  context is that of the last completion recorded. Uses `Trail` for instances that do
  not exist yet.
- **`OutboxIsTransactional`** (`OutboxMirrorsHistory`): there is an order-preserving map
  of the records of an instance onto the events to be told. An append to both logs
  extends it by one pair (`Mirrors`).
- **`SignalsUsedOnce`** (`SignalsAccounted`), from `Inbox`: a consumed signal is named by
  exactly one event of its own instance, any other by none.
- **`SignalsUsedInOrder`** (`SignalsInCallOrder`), from the same invariant: a signal is
  consumed as the oldest recorded one of its name, and one that is recorded after it
  with an older `created_at` has it in `seen`. The statement needs no more to be
  inductive.
- **`KernelImplementsWorkflow`** (`ImplementsWorkflow`): under `Linked` every step of the
  kernel is a step of `Workflow` or changes nothing it sees. The lemmas say what each
  helper that writes an instance row does to the mapped state, and then take the actions
  one by one.

### Transactions (`RowLocksProofs`)

- **`TransactionsAreAtomic`** (`ImplementsKernel`): with any number of connections,
  instances and tasks, every step of a transaction is one that `Kernel` does not see,
  except the commit, which is one step of `Kernel`. The inductive invariant `TxInv` says
  for each client (`Good`) that the statement it is at fits the rows it holds, that it
  goes on only with an accepted token, that what it was called with exists, that what it
  read is what the tables still hold, and that its `seq` is the next one or was until a
  start event took it; and for each two clients (`Apart`) that they hold no row, start or
  uncommitted event together. A step of one client is shown to leave alone what the
  others rely on (`KeptFor`). The hard case is the start event, appended without the lock
  on the instance: another handler may have read the same `seq`, and then its insert
  fails.
- **`LocksHold`** (`ReadsAreCurrent`), **`SeqCollidesWithStart`** (`SeqLostOnlyToStart`),
  **`DeadlockNeedsBothReports`** (`DeadlockIsCompleteVersusFail`), from the same
  invariant. In a set of clients that wait for each other, whoever holds an instance is
  an `OnTaskFail` at its task, whoever holds a task is an `OnTaskComplete` at its
  instance.

### Schedules and cron (`SchedulesProofs`)

- **`SchedulesRunOnce`** (`OneRunPerOccurrence`), **`SchedulesSkipMissed`**
  (`NoCatchUp`), **`SchedulesLoseNone`** (`NoOccurrenceLost`), for any number of
  schedules and loops, any limit and either store. `SchedulesInv` keeps that runs have
  the keys of their occurrences, that instants which were read lie in the past, and, for
  a schedule no two passes ever had at once, that all occurrences up to `next_run_at` are
  covered by a run, that the one copy a pass may have is the row or older by a resume,
  and that every run's occurrence is still the next one or was passed by its own pass.
- **`CronRefusesInvalid`** (`RefusedIsInvalid`), **`CronAnswersLeast`** (`NextIsLeast`),
  for any expression and any calendar. The invariant says what the parser has put in each
  set of allowed values so far, which minutes of an item its inner loop has still to add,
  and that the scan has passed no minute the expression names.

### Leaders, the publisher and workers (`ProcessProofs`)

- **`SingleLeader`**, **`RelaySafe`**, **`RepeatsAreOwed`**: leaders are accounted for;
  what is published was committed and what is marked was published; a leader publishes a
  record again only if its mark was cut off or a session was lost. The invariant counts
  the leaders and resigning leaders other than the holder of the lock (at most `losses`),
  and says that while no session was lost only the leader and those in `cut` have an
  unmarked record in hand.
- **`SlotsBoundHandlers`** (`WorkerTypeOK`): no more handlers run than there are slots.
- **`HeartbeatsKeepLease`** (`KeptWhileRunning`): while no call was lost, the worker runs
  and every task can have a slot, a running handler holds its lease. `WorkerInv` adds
  that the lease outlives the next heartbeat, that no two goroutines work on one task,
  and that a poll loop with a task and no slot yet has only just leased it. The condition
  on slots is needed: a task that waits for one is not renewed (section 3).

### Definitions (`ValidateProofs`)

- **`ValidateCorrect`** (`VerdictCorrect`): the search accepts exactly the documents in
  which every closed set of steps around `initial` holds an end step. The loop invariant
  `SearchInv` says that `initial` and all successors of expanded steps are expanded or
  queued, that no expanded step is an end, and that every closed set around `initial`
  contains all of them. When the queue is empty, the expanded steps are a closed set
  without an end.
- **`InstancesKeepDefinition`** (`OneDefinitionPerInstance`), **`LatestStaysGreatest`**
  (`LatestIsGreatest`): `RegistryInv` says that what a replica has cached, or has read
  and not cached yet, is what the store holds, since a registered definition is never
  overwritten, and that an instance is pinned to a registered version.

### Only model-checked

The liveness properties, all of them: `EventuallyFinishes`, `Terminates`, `Answers`,
`LeaderReturns`, `EveryRecordSent`, `DueIsRun`, `EveryTaskSettles` and
`StopsWhenCancelled`. They rest on fairness, and the prover does not reason about
fairness or `ENABLED`.

## 6. Not modelled

- **Encoding**: `Checksum`, the JSON and duration forms (equal checksums are taken to
  mean equal definitions), the splitting of cron text, HTTP decoding and status
  codes.
- **The backoff** (`engine/retry.go`): a power and a jitter in floating point, for
  which TLA+ has no counterpart that TLC evaluates. The delay is any member of a set,
  which includes what the code may compute.
- **Time zones**: the `time` package is the constant calendar of `Cron`.
- **Row locks of timers and signals**: see `RowLocks` in section 2.
- **Authentication, tenants, telemetry, migrations, example handlers, routing,
  read-only handlers**: they change no state that another part reads.

## 7. What could come next

1. `Kernel` with `Worker` in place of the over-approximated worker, and two instances
   with idempotent starts: both multiply the states of runs that are already at their
   size.
2. `RowLocks` with the handlers of timers and signals, and its refinement proof
   extended to them.
