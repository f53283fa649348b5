-------------------------- MODULE KernelProperties --------------------------
(***************************************************************************)
(* What the kernel promises, as invariants, action properties and liveness *)
(* properties of the specification in Kernel.                              *)
(***************************************************************************)
EXTENDS Kernel

\* Every row of every table has the shape the migrations give it.
TypeOK ==
    /\ inst     \in [Instance -> InstanceRow \cup {NoRow}]
    /\ task     \in [TaskId -> TaskRow \cup {NoRow}]
    /\ timer    \in [TimerId -> TimerRow \cup {NoRow}]
    /\ signal   \in [SignalId -> SignalRow \cup {NoRow}]
    /\ history  \in [Instance -> Seq(Event)]
    /\ outbox   \in Seq([inst : Instance, type : EventType])
    /\ held     \subseteq Delivery
    /\ starting \subseteq Instance
    /\ calls    \subseteq FailCall
    /\ signalling \subseteq SignalId
    /\ batch    \in [Loop -> SUBSET TimerId]

\* What the rows and the calls in flight refer to is there, a task or timer
\* belongs to a step of its kind, and a task's key is older than the row version
\* of its instance: the key enterStep builds next is never taken.
RowsLinked ==
    /\ \A t \in TaskId : Exists(task[t]) =>
          /\ Exists(inst[task[t].inst])
          /\ Def.steps[task[t].step].type = "activity"
          /\ task[t].visit < inst[task[t].inst].rowVersion
    /\ \A tm \in TimerId : Exists(timer[tm]) =>
          /\ Exists(inst[timer[tm].inst])
          /\ \/ /\ timer[tm].kind = "sleep"
                /\ Def.steps[timer[tm].step].type = "sleep_until"
             \/ /\ timer[tm].kind = "signal_timeout"
                /\ Def.steps[timer[tm].step].type = "wait_signal"
                /\ Def.steps[timer[tm].step].timeoutAfter > 0
    /\ \A s \in SignalId : Exists(signal[s]) => Exists(inst[signal[s].inst])
    /\ \A d \in held : Exists(task[d.task])
    /\ \A c \in calls : Exists(task[c.task])
    /\ \A l \in Loop : \A tm \in batch[l] : Exists(timer[tm])

-----------------------------------------------------------------------------
(* Wake-ups.                                                               *)

\* A task or timer created by the visit the instance is parked on: nothing
\* bumps row_version between entering a step and leaving it.
OfThisVisit(i, row) ==
    /\ row.inst = i
    /\ row.step = inst[i].step
    /\ row.visit + 1 = inst[i].rowVersion

HasTask(i) == \E t \in TaskId : Open(t) /\ OfThisVisit(i, task[t])

HasTimer(i, kind) ==
    \E tm \in TimerId : /\ Armed(tm)
                        /\ OfThisVisit(i, timer[tm])
                        /\ timer[tm].kind = kind

\* What will wake the instance from the step it is at is still to come.
CanWake(i) ==
    /\ StepOf(i).type = "activity" => HasTask(i)
    /\ StepOf(i).type = "sleep_until" => HasTimer(i, "sleep")
    /\ StepOf(i).type = "wait_signal" /\ StepOf(i).timeoutAfter > 0
          => HasTimer(i, "signal_timeout")
    /\ StepOf(i).type # "end"

\* No lost wake-up: an instance parked by enterStep always still has what will
\* wake it.  On an activity its own task is queued or leased (never settled or
\* swallowed by the idempotency-key dedupe); on a sleep, or a wait with a
\* timeout, its own timer has not fired.  No instance parks on an end step.
ParkedHasWakeup ==
    \A i \in Instance : inst[i].status = "WAITING" => CanWake(i)

-----------------------------------------------------------------------------
(* The audit trail.                                                        *)

EventsOf(i, type, ref) ==
    {n \in DOMAIN history[i] : history[i][n].type = type /\ history[i][n].ref = ref}

\* Every event but WORKFLOW_STARTED, which is written outside the instance lock.
Progress(i) ==
    {n \in DOMAIN history[i] : history[i][n].type # "WORKFLOW_STARTED"}

\* The event sends the instance to step s.
SendsTo(e, s) ==
    LET step == Def.steps[e.step]
    IN  \/ e.type \in {"TASK_COMPLETED", "SIGNAL_RECEIVED"} /\ s = step.next
       \/ /\ e.type = "TIMER_FIRED"
          /\ s = IF step.type = "wait_signal" THEN step.timeoutNext ELSE step.next

\* A wait without a timeout is entered without an event.
WaitsForEver(i) ==
    /\ inst[i].status = "WAITING"
    /\ StepOf(i).type = "wait_signal"
    /\ StepOf(i).timeoutAfter <= 0

\* The event that parks an instance on its step, or keeps it there.
ParkedBy(i, e) ==
    /\ e.step = inst[i].step
    /\ e.type \in IF StepOf(i).type = "activity"
                    THEN {"TASK_SCHEDULED", "TASK_RETRY_SCHEDULED"}
                    ELSE {"TIMER_CREATED"}

\* The n-th event, as the last one, gives the row its status and its step.
Explains(i, n) ==
    LET e == history[i][n]
    IN  /\ inst[i].status = "RUNNABLE" \/ WaitsForEver(i) => SendsTo(e, inst[i].step)
        /\ inst[i].status = "WAITING" /\ ~WaitsForEver(i) => ParkedBy(i, e)
        /\ inst[i].status = "SUCCEEDED" =>
              /\ e = Ev("WORKFLOW_SUCCEEDED", inst[i].step, NoRef)
              /\ StepOf(i).type = "end"
        /\ inst[i].status = "FAILED" =>
              /\ e = Ev("WORKFLOW_FAILED", inst[i].step, NoRef)
              /\ n > 1 /\ history[i][n - 1].type = "TASK_FAILED"

\* The history explains the instance row: its last event (WORKFLOW_STARTED
\* aside, which is written outside the instance lock) determines the row's
\* status and current step, for every interleaving of the handlers.
HistoryExplainsState ==
    \A i \in Instance : Exists(inst[i]) =>
        IF Progress(i) = {}
          THEN /\ inst[i].step = Def.initial
               /\ inst[i].status = "RUNNABLE" \/ WaitsForEver(i)
          ELSE \E n \in Progress(i) : /\ \A m \in Progress(i) : m <= n
                                      /\ Explains(i, n)

\* Where the outbox holds records of an instance, and its history their events.
Sent(i) == {k \in DOMAIN outbox : outbox[k].inst = i}

Told(i) ==
    {n \in DOMAIN history[i] :
        history[i][n].type \in
            {"WORKFLOW_STARTED", "WORKFLOW_SUCCEEDED", "WORKFLOW_FAILED"}}

\* Transactional outbox: for each instance the outbox holds exactly the start,
\* success and failure events of its history, in that order.
OutboxMirrorsHistory ==
    \A i \in Instance : \E at \in [Sent(i) -> Told(i)] :
        /\ \A k, l \in Sent(i) : k < l => at[k] < at[l]
        /\ \A n \in Told(i) : \E k \in Sent(i) : at[k] = n
        /\ \A k \in Sent(i) : outbox[k].type = history[i][at[k]].type

\* The workflow context holds, for each step, the output of the last completion
\* the history records for it, and nothing else.
ContextMatchesHistory ==
    \A i \in Instance : Exists(inst[i]) => \A s \in StepId :
        LET done == {n \in DOMAIN history[i] : /\ history[i][n].type = "TASK_COMPLETED"
                                               /\ history[i][n].step = s}
        IN  IF done = {} THEN inst[i].context[s] = NoRef
            ELSE \E n \in done : /\ \A m \in done : m <= n
                                 /\ history[i][n].ref = inst[i].context[s]

\* An activity works on the outputs of every step completed before it: the
\* context does not change under an open task of the current visit.
PayloadIsCurrent ==
    \A t \in TaskId : \A i \in Instance :
        Open(t) /\ inst[i].status = "WAITING" /\ OfThisVisit(i, task[t])
            => task[t].payload = inst[i].context

-----------------------------------------------------------------------------
(* Tasks and retries.                                                      *)

\* The attempt number OnTaskFail read before its transaction is never stale
\* where it is used: a task's attempt is one more than the retries its history
\* records, and stays within the step's budget.
AttemptsMatchHistory ==
    \A t \in TaskId : Exists(task[t]) =>
        /\ task[t].attempt =
              1 + Cardinality(EventsOf(task[t].inst, "TASK_RETRY_SCHEDULED", t))
        /\ task[t].attempt <= EffectiveRetry(Def.steps[task[t].step])

\* Work is handed out only while it matters: an open task's instance is parked
\* on the task's step, and no instance has two open tasks.
OpenTaskIsAwaited ==
    \A t \in TaskId : Open(t) =>
        /\ inst[task[t].inst].status = "WAITING"
        /\ inst[task[t].inst].step = task[t].step
        /\ \A u \in TaskId : Open(u) /\ task[u].inst = task[t].inst => u = t

\* An instance leaves an activity only on the result of the task that visit
\* enqueued: a late or duplicate result of another visit changes nothing.
OwnTaskMovesInstance ==
    [][\A i \in Instance :
          /\ inst[i].status = "WAITING"
          /\ StepOf(i).type = "activity"
          /\ inst'[i] # inst[i]
          => \E t \in TaskId : /\ Open(t)
                               /\ OfThisVisit(i, task[t])
                               /\ task'[t].status \in {"DONE", "FAILED"}]_vars

\* FailTask is terminal: a FAILED task stays FAILED.
FailedIsFinal ==
    [][\A t \in TaskId : task[t].status = "FAILED"
          => task'[t].status = "FAILED"]_vars

\* A crashed worker's task is handed out again only within the step's budget.
DeliveriesWithinBudget ==
    \A t \in TaskId : Exists(task[t]) =>
        Cardinality({d \in held : d.task = t})
            <= EffectiveRetry(Def.steps[task[t].step])

-----------------------------------------------------------------------------
(* Signals, timers and ends.                                               *)

\* Every consumed signal is recorded exactly once in the history of its
\* instance, and a pending one not at all, whether the entering step or one of
\* several callers took it.
SignalsAccounted ==
    \A s \in SignalId : Exists(signal[s]) =>
        Cardinality(EventsOf(signal[s].inst, "SIGNAL_RECEIVED", s))
            = IF signal[s].status = "CONSUMED" THEN 1 ELSE 0

\* Signals are acted on in the order of the calls that sent them, as far as the
\* calls have one: a signal recorded before another call read the clock, at a later
\* instant, is used up before the one that call sends.  Calls that overlap read the
\* clock before they record, so theirs may be used in either order.  Within a process
\* a later call reads a later instant; replicas whose clocks differ promise nothing.
SignalsInCallOrder ==
    \A r, s \in SignalId :
        /\ Exists(signal[r]) /\ r < s /\ s \notin signal[r].seen
        /\ signal[s].status = "CONSUMED"
        /\ signal[s].inst = signal[r].inst /\ signal[s].name = signal[r].name
        => signal[r].status = "CONSUMED"

\* A wait or sleep is cut short only by the timer that visit armed; a timer
\* left over from an earlier visit is a no-op.
OwnTimerMovesInstance ==
    [][\A i \in Instance :
          /\ inst[i].status = "WAITING"
          /\ Len(history'[i]) > Len(history[i])
          /\ history'[i][Len(history'[i])].type = "TIMER_FIRED"
          => \E tm \in TimerId : /\ Armed(tm)
                                 /\ timer[tm].fireIn = 0
                                 /\ OfThisVisit(i, timer[tm])
                                 /\ timer'[tm].status = "FIRED"]_vars

\* A finished instance never changes again, and only the start event may still
\* join its history.
TerminalIsFinal ==
    [][\A i \in Instance : Terminal(inst[i].status) =>
          /\ inst'[i] = inst[i]
          /\ \/ history'[i] = history[i]
             \/ \E s \in StepId :
                   history'[i] = Append(history[i], Ev("WORKFLOW_STARTED", s, NoRef))]_vars

\* The first event of a history is WORKFLOW_STARTED.
StartedFirst ==
    \A i \in Instance : history[i] # <<>> =>
        history[i][1].type = "WORKFLOW_STARTED"

-----------------------------------------------------------------------------
(* Liveness.                                                               *)

\* The delivery's lease still stands.
Current(d) == task[d.task].status = "LEASED" /\ task[d.task].token = d.token

\* The loops tick for ever, and the clock with them.  A worker forgets a
\* delivery it lost, and a call in flight ends.  Workers are not cut down at
\* every delivery, nor the timer loop between every listing and firing: hence
\* strong fairness there.  Nothing is promised about starts, signals, aborts
\* and heartbeats.
Fairness ==
    /\ \A i \in Instance : WF_vars(Advance(i))
    /\ \A t \in TaskId : WF_vars(\E token \in Token : LeaseTask(t, token))
    /\ \A d \in Delivery :
              /\ SF_vars(Current(d) /\ OnTaskComplete(d))
              /\ WF_vars(~Current(d) /\ ForgetDelivery(d))
    /\ WF_vars(\E c \in calls : OnTaskFail(c) \/ AbortFail(c))
    /\ \A s \in SignalId : WF_vars(ApplyPendingSignal(s))
    /\ \A l \in Loop : /\ WF_vars(ListDueTimers(l))
                       /\ SF_vars(\E tm \in TimerId : OnTimerFired(l, tm))
    /\ WF_vars(ExpireLeases)
    /\ WF_vars(Tick)

FairSpec == Spec /\ Fairness

\* Whatever crashes, an instance that is started on a definition whose waits
\* all time out reaches SUCCEEDED or FAILED.
EventuallyFinishes ==
    \A i \in Instance :
        inst[i].status = "RUNNABLE" ~> Terminal(inst[i].status)

\* A signal recorded for an instance that waits for it is eventually applied.
PendingSignalApplied ==
    \A s \in SignalId :
        /\ signal[s].status = "PENDING"
        /\ inst[signal[s].inst].status = "WAITING"
        /\ StepOf(signal[s].inst).signal = signal[s].name
        ~> signal[s].status = "CONSUMED"

=============================================================================
