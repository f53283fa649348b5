------------------------------- MODULE Kernel -------------------------------
(***************************************************************************)
(* The durable workflow kernel (engine/engine.go over store/memory.go and  *)
(* store/postgres.go): instances advance through the steps of a definition *)
(* while workers, timers and signals race to move them on.                 *)
(*                                                                         *)
(* Every Store.Tx is one atomic action.  What runs between two             *)
(* transactions of one call is explicit: StartInstance, SignalInstance,    *)
(* OnTaskFail and the timer loop each leave a trace in a volatile variable *)
(* between their steps, and may be cut short there.                        *)
(*                                                                         *)
(* Time is relative: a stored instant is the number of ticks still to go   *)
(* (0 once it is due), and Tick lets one pass.                             *)
(***************************************************************************)
EXTENDS Definition, Sequences, FiniteSets

CONSTANTS
    StepId,     \* step ids of the definition
    Name,       \* activity and signal names
    Def,        \* the definition every instance is pinned to
    Instance,   \* instance ids
    Key,        \* start idempotency keys, the empty one included
    NoKey,
    TaskId, TimerId, SignalId,
    Token,      \* lease tokens
    NoToken,    \* the empty lease token
    Loop,       \* processes that run the timer loop
    Backend,    \* "mem" or "pg"
    LeaseFor,   \* ticks a lease or a heartbeat lasts
    Backoff,    \* ticks a retry may be delayed
    MaxCalls    \* bound: OnTaskFail calls in flight at once

VARIABLES
    inst,       \* workflow_instances
    task,       \* tasks
    timer,      \* timers
    signal,     \* signals
    history,    \* workflow_history, one sequence per instance
    outbox,     \* outbox, in id order
    held,       \* deliveries some worker still holds and may report
    starting,   \* StartInstance calls between CreateInstance and their Tx
    calls,      \* OnTaskFail calls between GetTask and their Tx
    signalling, \* SignalInstance calls in flight, by the instant they read
    batch       \* due timers each timer loop has listed and not yet fired

stored   == <<inst, task, timer, signal, history, outbox>>
volatile == <<held, starting, calls, signalling, batch>>
vars     == <<inst, task, timer, signal, history, outbox,
              held, starting, calls, signalling, batch>>

\* A row that has not been inserted.
NoRow == [status |-> "ABSENT"]

\* No task, in a context or an event.
NoRef == 0

ASSUME DefinitionAssumption ==
    /\ NoStep \notin StepId
    /\ Def \in [initial : StepId, steps : [StepId -> Step(StepId, Name)]]
    /\ WellFormed(Def)

ASSUME IdAssumption ==
    /\ TaskId \subseteq Nat \ {NoRef}
    /\ TimerId \subseteq Nat \ {NoRef}
    /\ SignalId \subseteq Nat \ {NoRef}
    /\ NoToken \notin Token
    /\ NoKey \in Key

ASSUME TimeAssumption ==
    /\ LeaseFor \in Nat \ {0}
    /\ Backoff \subseteq Nat
    /\ MaxCalls \in Nat

ASSUME BackendAssumption == Backend \in {"mem", "pg"}

-----------------------------------------------------------------------------
(* Rows.                                                                   *)

Context == [StepId -> TaskId \cup {NoRef}]

\* context[s] is the task whose output mergeStepOutput last stored for s.
InstanceRow ==
    [status     : {"RUNNABLE", "WAITING", "SUCCEEDED", "FAILED"},
     step       : StepId,
     rowVersion : Nat,
     context    : Context,
     key        : Key]

\* visit is the row version in the idempotency key; (inst, step, visit) is
\* that key.
TaskRow ==
    [status    : {"QUEUED", "LEASED", "DONE", "FAILED"},
     inst      : Instance,
     step      : StepId,
     visit     : Nat,
     payload   : Context,
     attempt   : Nat \ {0},
     visibleIn : Nat,
     token     : Token \cup {NoToken},
     expiresIn : Nat]

\* visit is auxiliary: the row version of the instance when it was created.
TimerRow ==
    [status : {"PENDING", "FIRED"},
     inst   : Instance,
     step   : StepId,
     kind   : {"signal_timeout", "sleep"},
     visit  : Nat,
     fireIn : Nat]

\* seen is auxiliary: the later instants some call had read when it was recorded.
SignalRow ==
    [status : {"PENDING", "CONSUMED"},
     inst   : Instance,
     name   : Name,
     seen   : SUBSET SignalId]

EventType ==
    {"WORKFLOW_STARTED", "TASK_SCHEDULED", "TASK_COMPLETED", "TASK_FAILED",
     "TASK_RETRY_SCHEDULED", "SIGNAL_RECEIVED", "TIMER_CREATED", "TIMER_FIRED",
     "WORKFLOW_SUCCEEDED", "WORKFLOW_FAILED"}

\* ref stands for the payload: the task or the signal it came from.
Event == [type : EventType, step : StepId, ref : Nat]

Delivery == [task : TaskId, token : Token]

FailCall == [task : TaskId, token : Token, attempt : Nat]

Ev(type, step, ref) == [type |-> type, step |-> step, ref |-> ref]

-----------------------------------------------------------------------------
(* Store operations, as they run inside a Tx.                              *)

Exists(row) == row # NoRow

Terminal(status) == status \in {"SUCCEEDED", "FAILED"}

AppendEvents(i, events) == history' = [history EXCEPT ![i] = @ \o events]

\* Mutant: the record is not written.
OutboxDropped(i, type) == UNCHANGED outbox

EnqueueOutbox(i, type) ==
    outbox' = Append(outbox, [inst |-> i, type |-> type])

\* The step an instance is at.
StepOf(i) == Def.steps[inst[i].step]

\* Mutant: row_version is not bumped.
UpdateKeepsVersion(i, row) == inst' = [inst EXCEPT ![i] = row]

\* Bumps row_version; the row is locked, so it never conflicts.
UpdateInstance(i, row) ==
    inst' = [inst EXCEPT ![i] = [row EXCEPT !.rowVersion = row.rowVersion + 1]]

Park(i) == UpdateInstance(i, [inst[i] EXCEPT !.status = "WAITING"])

\* Mutant: the merged context is not stored.
MoveKeepsContext(i, to, context) ==
    UpdateInstance(i, [inst[i] EXCEPT !.status = "RUNNABLE", !.step = to])

Move(i, to, context) ==
    UpdateInstance(i, [inst[i] EXCEPT !.status = "RUNNABLE",
                                      !.step = to,
                                      !.context = context])

Finish(i, status) == UpdateInstance(i, [inst[i] EXCEPT !.status = status])

\* Mutants: the status, or the step, is not compared.
AtStep(i, step) == inst[i].step = step

ParkedAnywhere(i, step) == inst[i].status = "WAITING"

\* The instance is parked on this exact step.
Parked(i, step) == inst[i].status = "WAITING" /\ inst[i].step = step

\* Mutant: a key without the row version.
KeyTakenOnce(i, step, visit) ==
    \E t \in TaskId : /\ Exists(task[t])
                      /\ task[t].inst = i
                      /\ task[t].step = step

KeyTaken(i, step, visit) ==
    \E t \in TaskId : /\ Exists(task[t])
                      /\ task[t].inst = i
                      /\ task[t].step = step
                      /\ task[t].visit = visit

\* Mutant: the initial context.
InitialPayload(i) == [s \in StepId |-> NoRef]

\* What an activity is given to work on.
ContextPayload(i) == inst[i].context

\* INSERT ... ON CONFLICT DO NOTHING on the idempotency key.
EnqueueTask(i) ==
    LET row == [status    |-> "QUEUED",
                inst      |-> i,
                step      |-> inst[i].step,
                visit     |-> inst[i].rowVersion,
                payload   |-> ContextPayload(i),
                attempt   |-> 1,
                visibleIn |-> 0,
                token     |-> NoToken,
                expiresIn |-> 0]
    IN  \E t \in TaskId :
           /\ ~Exists(task[t])
           /\ task' = IF KeyTaken(i, inst[i].step, inst[i].rowVersion)
                        THEN task
                        ELSE [task EXCEPT ![t] = row]

CreateTimer(i, kind, ticks) ==
    \E tm \in TimerId :
       /\ ~Exists(timer[tm])
       /\ timer' = [timer EXCEPT ![tm] =
                      [status |-> "PENDING",
                       inst   |-> i,
                       step   |-> inst[i].step,
                       kind   |-> kind,
                       visit  |-> inst[i].rowVersion,
                       fireIn |-> ticks]]

\* Unconsumed signals of a name.  The ids stand for created_at, in its order.
Pending(i, name) ==
    {s \in SignalId : /\ signal[s].status = "PENDING"
                      /\ signal[s].inst = i
                      /\ signal[s].name = name}

\* Mutant: any pending signal, as without an ORDER BY.
AnyPending(i, name) == Pending(i, name)

Oldest(i, name) ==
    {s \in Pending(i, name) : \A r \in Pending(i, name) : s <= r}

\* Mutant: the signal is left in the inbox.
SignalKept(s) == UNCHANGED signal

ConsumeSignal(s) == signal' = [signal EXCEPT ![s].status = "CONSUMED"]

\* Mutant: the memory store's test in the Postgres store.
CompleteNoopDone == {"DONE"}

\* CompleteTask is a no-op on these statuses: memory.go tests DONE only,
\* settleTask in postgres.go DONE and FAILED.
CompleteNoop == IF Backend = "mem" THEN {"DONE"} ELSE {"DONE", "FAILED"}

FailNoop == {"DONE", "FAILED"}

RequeueNoop == {"DONE"}

\* Mutant: the token is not compared.
AcceptedAny(t, token, noop) == TRUE

\* A settling call goes through when it is a no-op or presents the row's token;
\* otherwise it returns ErrLeaseInvalid and the Tx rolls back.
Accepted(t, token, noop) ==
    task[t].status \in noop \/ task[t].token = token

\* What a settling call writes.
Settle(t, noop, status) ==
    task' = IF task[t].status \in noop
              THEN task
              ELSE [task EXCEPT ![t].status = status]

RequeueTask(t, attempt, ticks) ==
    task' = IF task[t].status \in RequeueNoop
              THEN task
              ELSE [task EXCEPT ![t] = [task[t] EXCEPT !.status = "QUEUED",
                                                 !.attempt = attempt,
                                                 !.visibleIn = ticks,
                                                 !.token = NoToken,
                                                 !.expiresIn = 0]]

-----------------------------------------------------------------------------
(* Starting an instance: two transactions.                                 *)

\* A start whose key is taken returns the existing row and changes nothing.
KeyFree(key) ==
    \/ key = NoKey
    \/ \A i \in Instance : Exists(inst[i]) => inst[i].key # key

\* CreateInstance.
StartInstance(i, key) ==
    /\ ~Exists(inst[i])
    /\ KeyFree(key)
    /\ inst' = [inst EXCEPT ![i] = [status     |-> "RUNNABLE",
                                    step       |-> Def.initial,
                                    rowVersion |-> 0,
                                    context    |-> [s \in StepId |-> NoRef],
                                    key        |-> key]]
    /\ starting' = starting \cup {i}
    /\ UNCHANGED <<task, timer, signal, history, outbox,
                   held, calls, signalling, batch>>

\* The start event and its outbox record.  The event names the step of the row
\* CreateInstance returned: in memory.go the initial one, while postgres.go reads
\* the row again, which may have moved on by then.  The initial one stands for both.
RecordStart(i) ==
    /\ i \in starting
    /\ AppendEvents(i, <<Ev("WORKFLOW_STARTED", Def.initial, NoRef)>>)
    /\ EnqueueOutbox(i, "WORKFLOW_STARTED")
    /\ starting' = starting \ {i}
    /\ UNCHANGED <<inst, task, timer, signal, held, calls, signalling, batch>>

\* The process dies, the caller goes away or the Tx fails in between.
AbortStart(i) ==
    /\ i \in starting
    /\ starting' = starting \ {i}
    /\ UNCHANGED <<stored, held, calls, signalling, batch>>

-----------------------------------------------------------------------------
(* Advance: enterStep, one action per step type.                           *)

Runnable(i, type) ==
    Exists(inst[i]) /\ inst[i].status = "RUNNABLE" /\ StepOf(i).type = type

EnterActivity(i) ==
    /\ Runnable(i, "activity")
    /\ EnqueueTask(i)
    /\ AppendEvents(i, <<Ev("TASK_SCHEDULED", inst[i].step, NoRef)>>)
    /\ Park(i)
    /\ UNCHANGED <<timer, signal, outbox, volatile>>

\* SIGNAL_RECEIVED, then on to the step's successor.
ApplySignal(i, s) ==
    /\ ConsumeSignal(s)
    /\ AppendEvents(i, <<Ev("SIGNAL_RECEIVED", inst[i].step, s)>>)
    /\ Move(i, StepOf(i).next, inst[i].context)

\* A signal that arrived before the instance parked is taken at once.
EnterWaitEarlySignal(i) ==
    /\ Runnable(i, "wait_signal")
    /\ \E s \in Oldest(i, StepOf(i).signal) : ApplySignal(i, s)
    /\ UNCHANGED <<task, timer, outbox, volatile>>

EnterWait(i) ==
    /\ Runnable(i, "wait_signal")
    /\ Pending(i, StepOf(i).signal) = {}
    /\ \/ /\ StepOf(i).timeoutAfter > 0
          /\ CreateTimer(i, "signal_timeout", StepOf(i).timeoutAfter)
          /\ AppendEvents(i, <<Ev("TIMER_CREATED", inst[i].step, NoRef)>>)
       \/ /\ StepOf(i).timeoutAfter <= 0
          /\ UNCHANGED <<timer, history>>
    /\ Park(i)
    /\ UNCHANGED <<task, signal, outbox, volatile>>

EnterSleep(i) ==
    /\ Runnable(i, "sleep_until")
    /\ CreateTimer(i, "sleep", StepOf(i).sleepFor)
    /\ AppendEvents(i, <<Ev("TIMER_CREATED", inst[i].step, NoRef)>>)
    /\ Park(i)
    /\ UNCHANGED <<task, signal, outbox, volatile>>

EnterEnd(i) ==
    /\ Runnable(i, "end")
    /\ Finish(i, "SUCCEEDED")
    /\ AppendEvents(i, <<Ev("WORKFLOW_SUCCEEDED", inst[i].step, NoRef)>>)
    /\ EnqueueOutbox(i, "WORKFLOW_SUCCEEDED")
    /\ UNCHANGED <<task, timer, signal, volatile>>

Advance(i) ==
    \/ EnterActivity(i)
    \/ EnterWaitEarlySignal(i)
    \/ EnterWait(i)
    \/ EnterSleep(i)
    \/ EnterEnd(i)

-----------------------------------------------------------------------------
(* The task queue.                                                         *)

\* Deliveries and calls of a task that may still present a token.
TokensOut(t) ==
    {d.token : d \in {e \in held : e.task = t}}
        \cup {c.token : c \in {e \in calls : e.task = t}}

\* A poll leases one queued, visible task.  Which one is left open: SKIP LOCKED
\* passes over rows another transaction holds.  The token is a fresh uuid.
LeaseTask(t, token) ==
    /\ task[t].status = "QUEUED"
    /\ task[t].visibleIn = 0
    /\ token \notin TokensOut(t)
    /\ task' = [task EXCEPT ![t] = [task[t] EXCEPT !.status = "LEASED",
                                             !.token = token,
                                             !.expiresIn = LeaseFor]]
    /\ held' = held \cup {[task |-> t, token |-> token]}
    /\ UNCHANGED <<inst, timer, signal, history, outbox,
                   starting, calls, signalling, batch>>

HeartbeatTask(d) ==
    /\ d \in held
    /\ task[d.task].status = "LEASED"
    /\ task[d.task].token = d.token
    /\ task[d.task].expiresIn < LeaseFor
    /\ task' = [task EXCEPT ![d.task].expiresIn = LeaseFor]
    /\ UNCHANGED <<inst, timer, signal, history, outbox, volatile>>

\* Mutants: a settled task's lease expires too; a lease never does.
ExpiredAny(t) == Exists(task[t]) /\ task[t].expiresIn = 0

NeverExpired(t) == FALSE

Expired(t) == task[t].status = "LEASED" /\ task[t].expiresIn = 0

\* The sweeper returns every expired lease to the queue; attempt is kept.
ExpireLeases ==
    /\ \E t \in TaskId : Expired(t)
    /\ task' = [t \in TaskId |->
                  IF Expired(t)
                    THEN [task[t] EXCEPT !.status = "QUEUED",
                                         !.token = NoToken,
                                         !.expiresIn = 0]
                    ELSE task[t]]
    /\ UNCHANGED <<inst, timer, signal, history, outbox, volatile>>

\* The worker crashes, or has said all it will say about a delivery.
ForgetDelivery(d) ==
    /\ d \in held
    /\ held' = held \ {d}
    /\ UNCHANGED <<stored, starting, calls, signalling, batch>>

-----------------------------------------------------------------------------
(* Task results.  A worker may report a delivery late and more than once.  *)

OnTaskComplete(d) ==
    LET t == d.task
        i == task[t].inst
        s == task[t].step
    IN  /\ d \in held
        /\ Accepted(t, d.token, CompleteNoop)
        /\ Settle(t, CompleteNoop, "DONE")
        /\ IF Parked(i, s)
             THEN /\ AppendEvents(i, <<Ev("TASK_COMPLETED", s, t)>>)
                  /\ Move(i, Def.steps[s].next,
                             [inst[i].context EXCEPT ![s] = t])
             ELSE UNCHANGED <<inst, history>>
        /\ UNCHANGED <<timer, signal, outbox, volatile>>

\* OnTaskFail reads the task before it opens its transaction.
ReadFailingTask(d) ==
    /\ d \in held
    /\ Cardinality(calls) < MaxCalls
    /\ calls' = calls \cup {[task |-> d.task, token |-> d.token,
                             attempt |-> task[d.task].attempt]}
    /\ UNCHANGED <<stored, held, starting, signalling, batch>>

\* retryable: the worker says so and no non-retryable class matches.
DecideRetry(s, attempt, retryable) ==
    retryable /\ attempt < EffectiveRetry(Def.steps[s])

\* The call ends; another one with the same arguments may be in flight still.
Return(c) == calls' \in {calls, calls \ {c}}

\* Stale or duplicate: just settle the task.
FailStale(c) ==
    LET t == c.task
    IN  /\ ~Parked(task[t].inst, task[t].step)
        /\ Accepted(t, c.token, FailNoop)
        /\ Settle(t, FailNoop, "FAILED")
        /\ Return(c)
        /\ UNCHANGED <<inst, timer, signal, history, outbox,
                       held, starting, signalling, batch>>

FailRetry(c, retryable, ticks) ==
    LET t == c.task
        i == task[t].inst
        s == task[t].step
    IN  /\ Parked(i, s)
        /\ DecideRetry(s, c.attempt, retryable)
        /\ Accepted(t, c.token, RequeueNoop)
        /\ RequeueTask(t, c.attempt + 1, ticks)
        /\ AppendEvents(i, <<Ev("TASK_RETRY_SCHEDULED", s, t)>>)
        /\ Return(c)
        /\ UNCHANGED <<inst, timer, signal, outbox,
                       held, starting, signalling, batch>>

FailTerminal(c, retryable) ==
    LET t == c.task
        i == task[t].inst
        s == task[t].step
    IN  /\ Parked(i, s)
        /\ ~DecideRetry(s, c.attempt, retryable)
        /\ Accepted(t, c.token, FailNoop)
        /\ Settle(t, FailNoop, "FAILED")
        /\ AppendEvents(i, <<Ev("TASK_FAILED", s, t),
                             Ev("WORKFLOW_FAILED", s, NoRef)>>)
        /\ Finish(i, "FAILED")
        /\ EnqueueOutbox(i, "WORKFLOW_FAILED")
        /\ Return(c)
        /\ UNCHANGED <<timer, signal, held, starting, signalling, batch>>

OnTaskFail(c) ==
    \/ FailStale(c)
    \/ \E retryable \in BOOLEAN :
          \/ \E ticks \in Backoff : FailRetry(c, retryable, ticks)
          \/ FailTerminal(c, retryable)

\* ErrLeaseInvalid, a lost connection or a crash: the Tx leaves no trace.
AbortFail(c) ==
    /\ calls' = calls \ {c}
    /\ UNCHANGED <<stored, held, starting, signalling, batch>>

-----------------------------------------------------------------------------
(* Signals: read the clock, record, then apply.                            *)

\* Some call has read the instant s.
Taken(s) == s \in signalling \/ Exists(signal[s])

\* The reading becomes the signal's created_at.  The memory store lives in one
\* process, with one clock; the clocks of several replicas need not agree.  Which
\* signal the call is for shows when it is recorded.
SignalInstance(s) ==
    /\ \E i \in Instance : Exists(inst[i])
    /\ ~Taken(s)
    /\ Backend = "mem" => \A r \in SignalId : Taken(r) => r < s
    /\ signalling' = signalling \cup {s}
    /\ UNCHANGED <<stored, held, starting, calls, batch>>

\* Calls that overlap may record their signals in either order.
AppendSignal(i, name, s) ==
    /\ Exists(inst[i])
    /\ s \in signalling
    /\ ~Exists(signal[s])
    /\ signal' = [signal EXCEPT ![s] = [status |-> "PENDING",
                                        inst   |-> i,
                                        name   |-> name,
                                        seen   |-> {r \in SignalId :
                                                      s < r /\ Taken(r)}]]
    /\ UNCHANGED <<inst, task, timer, history, outbox, volatile>>

\* The apply half of the call that recorded s; it may consume an older signal
\* of the same name.
ApplyPendingSignal(s) ==
    LET i    == signal[s].inst
        name == signal[s].name
        waitsFor == /\ inst[i].status = "WAITING"
                    /\ StepOf(i).type = "wait_signal"
                    /\ StepOf(i).signal = name
    IN  /\ s \in signalling
        /\ Exists(signal[s])
        /\ signalling' = signalling \ {s}
        /\ \/ /\ waitsFor
              /\ \E o \in Oldest(i, name) : ApplySignal(i, o)
           \/ /\ ~waitsFor \/ Pending(i, name) = {}
              /\ UNCHANGED <<inst, signal, history>>
        /\ UNCHANGED <<task, timer, outbox, held, starting, calls, batch>>

\* The call is cut off, before or after it recorded its signal.
AbortSignal(s) ==
    /\ s \in signalling
    /\ signalling' = signalling \ {s}
    /\ UNCHANGED <<stored, held, starting, calls, batch>>

-----------------------------------------------------------------------------
(* The timer loop.                                                         *)

Due == {tm \in TimerId : timer[tm].status = "PENDING" /\ timer[tm].fireIn = 0}

\* RunOnce lists the due timers, then fires them one transaction at a time.
ListDueTimers(l) ==
    /\ batch[l] = {}
    /\ Due # {}
    /\ batch' = [batch EXCEPT ![l] = Due]
    /\ UNCHANGED <<stored, held, starting, calls, signalling>>

\* Mutants: the two targets are not told apart.
NextTarget(tm) == Def.steps[timer[tm].step].next

TimeoutTarget(tm) == Def.steps[timer[tm].step].timeoutNext

TimerTarget(tm) ==
    LET step == Def.steps[timer[tm].step]
    IN  IF timer[tm].kind = "signal_timeout" THEN step.timeoutNext ELSE step.next

\* The timer is marked fired whether or not it still matters.
OnTimerFired(l, tm) ==
    LET i == timer[tm].inst
    IN  /\ tm \in batch[l]
        /\ batch' = [batch EXCEPT ![l] = @ \ {tm}]
        /\ timer' = [timer EXCEPT ![tm].status = "FIRED"]
        /\ IF Parked(i, timer[tm].step)
             THEN /\ AppendEvents(i, <<Ev("TIMER_FIRED", timer[tm].step, NoRef)>>)
                  /\ Move(i, TimerTarget(tm), inst[i].context)
             ELSE UNCHANGED <<inst, history>>
        /\ UNCHANGED <<task, signal, outbox, held, starting, calls, signalling>>

\* The process that runs the loop stops, or its transactions fail.
AbortBatch(l) ==
    /\ batch[l] # {}
    /\ batch' = [batch EXCEPT ![l] = {}]
    /\ UNCHANGED <<stored, held, starting, calls, signalling>>

-----------------------------------------------------------------------------
(* The clock.                                                              *)

Less(n) == IF n > 0 THEN n - 1 ELSE 0

\* Rows whose instants are still compared with the clock.
Open(t) == task[t].status \in {"QUEUED", "LEASED"}

Armed(tm) == timer[tm].status = "PENDING"

Ticking ==
    \/ \E t \in TaskId : Open(t) /\ task[t].visibleIn + task[t].expiresIn > 0
    \/ \E tm \in TimerId : Armed(tm) /\ timer[tm].fireIn > 0

Tick ==
    /\ Ticking
    /\ task' = [t \in TaskId |->
                  IF Open(t) THEN [task[t] EXCEPT !.visibleIn = Less(@),
                                                  !.expiresIn = Less(@)]
                             ELSE task[t]]
    /\ timer' = [tm \in TimerId |->
                   IF Armed(tm) THEN [timer[tm] EXCEPT !.fireIn = Less(@)]
                                ELSE timer[tm]]
    /\ UNCHANGED <<inst, signal, history, outbox, volatile>>

-----------------------------------------------------------------------------
Init ==
    /\ inst     = [i \in Instance |-> NoRow]
    /\ task     = [t \in TaskId |-> NoRow]
    /\ timer    = [tm \in TimerId |-> NoRow]
    /\ signal   = [s \in SignalId |-> NoRow]
    /\ history  = [i \in Instance |-> <<>>]
    /\ outbox   = <<>>
    /\ held     = {}
    /\ starting = {}
    /\ calls    = {}
    /\ signalling = {}
    /\ batch    = [l \in Loop |-> {}]

Next ==
    \/ \E i \in Instance :
          \/ \E key \in Key : StartInstance(i, key)
          \/ RecordStart(i)
          \/ AbortStart(i)
          \/ Advance(i)
          \/ \E name \in Name, s \in SignalId : AppendSignal(i, name, s)
    \/ \E t \in TaskId, token \in Token : LeaseTask(t, token)
    \/ \E d \in Delivery :
          \/ HeartbeatTask(d)
          \/ OnTaskComplete(d)
          \/ ReadFailingTask(d)
          \/ ForgetDelivery(d)
    \/ \E c \in calls : OnTaskFail(c) \/ AbortFail(c)
    \/ \E s \in SignalId :
          \/ SignalInstance(s)
          \/ ApplyPendingSignal(s)
          \/ AbortSignal(s)
    \/ \E l \in Loop :
          \/ ListDueTimers(l)
          \/ \E tm \in TimerId : OnTimerFired(l, tm)
          \/ AbortBatch(l)
    \/ ExpireLeases
    \/ Tick

Spec == Init /\ [][Next]_vars

=============================================================================
