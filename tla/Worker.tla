------------------------------- MODULE Worker -------------------------------
(***************************************************************************)
(* The worker SDK (worker/runner.go over worker/client.go and the task     *)
(* handlers of api/tasks.go): one poll loop per activity type, handlers    *)
(* that share a pool of slots, a heartbeat goroutine beside each handler,  *)
(* and the shutdown of all of them.                                        *)
(*                                                                         *)
(* The engine's side is the task queue alone; what a result does to the    *)
(* workflow is in Kernel.  Time is relative, as there.  The worker is      *)
(* prompt: it takes a slot that is free and sends a heartbeat or a report  *)
(* that is due before the clock moves on; handlers take their time.        *)
(***************************************************************************)
EXTENDS Naturals, FiniteSets

CONSTANTS
    Task,
    ActivityOf,     \* the activity type of each task
    Token, NoToken, \* lease tokens, and the empty one
    Slots,          \* Concurrency
    LeaseFor,       \* LeaseSeconds, in ticks
    MaxAttempts,    \* the retry budget of the step
    MaxLost         \* bound: calls whose request or response is lost

ASSUME WorkerAssumption ==
    /\ IsFiniteSet(Task)
    /\ NoToken \notin Token
    /\ Slots \in Nat \ {0}
    /\ LeaseFor \in Nat \ {0}
    /\ MaxAttempts \in Nat \ {0}
    /\ MaxLost \in Nat

VARIABLES
    task,       \* the engine's tasks table
    poll,       \* the poll loops: polling, or with a task and no slot yet
    busy,       \* dispatched tasks; each holds a slot
    cancelled,  \* the worker's context
    lost        \* calls lost so far

workerVars == <<task, poll, busy, cancelled, lost>>

Activity == {ActivityOf[t] : t \in Task}

Delivery == [task : Task, token : Token]

Polling == [task |-> "polling", token |-> NoToken]
Stopped == [task |-> "stopped", token |-> NoToken]

\* Mutant: the lease is renewed when it runs out.
IntervalLate == LeaseFor

\* The heartbeat interval: one third of the lease.
Interval == LeaseFor \div 3

\* A heartbeat goroutine that has returned.
Silent == LeaseFor + 1

\* beat: ticks to the next heartbeat.
Dispatch ==
    [task : Task, token : Token, beat : 0..Silent,
     phase : {"running", "completing", "failing"}]

\* The delivery holds the task's lease.
Holds(d) == task[d.task].status = "LEASED" /\ task[d.task].token = d.token

Row(status, attempt, token, expiresIn) ==
    [status |-> status, attempt |-> attempt, token |-> token,
     expiresIn |-> expiresIn]

InUse(t) ==
    {d.token : d \in {e \in busy : e.task = t}}
        \cup {poll[a].token : a \in {b \in Activity : poll[b].task = t}}

Lose == lost < MaxLost /\ lost' = lost + 1

-----------------------------------------------------------------------------
(* The poll loops.                                                         *)

LeaseTasks(t, token) ==
    /\ task[t].status = "QUEUED"
    /\ token \notin InUse(t)
    /\ task' = [task EXCEPT ![t] = Row("LEASED", task[t].attempt, token, LeaseFor)]

Poll(t, token) ==
    LET a == ActivityOf[t]
    IN  /\ poll[a] = Polling
        /\ ~cancelled
        /\ LeaseTasks(t, token)
        /\ poll' = [poll EXCEPT ![a] = [task |-> t, token |-> token]]
        /\ UNCHANGED <<busy, cancelled, lost>>

\* The task is leased and the answer does not arrive.
PollLost(t, token) ==
    /\ poll[ActivityOf[t]] = Polling
    /\ ~cancelled
    /\ LeaseTasks(t, token)
    /\ Lose
    /\ UNCHANGED <<poll, busy, cancelled>>

\* A slot, then the goroutine that dispatches.
TakeSlot(a) ==
    /\ poll[a] \in Delivery
    /\ Cardinality(busy) < Slots
    /\ busy' = busy \cup {[task |-> poll[a].task, token |-> poll[a].token,
                           beat |-> Interval, phase |-> "running"]}
    /\ poll' = [poll EXCEPT ![a] = Polling]
    /\ UNCHANGED <<task, cancelled, lost>>

\* The loop ends: at its top, or where it waits for a slot.  The task it has
\* leased is left to expire.
StopPolling(a) ==
    /\ cancelled
    /\ poll[a] # Stopped
    /\ poll' = [poll EXCEPT ![a] = Stopped]
    /\ UNCHANGED <<task, busy, cancelled, lost>>

-----------------------------------------------------------------------------
(* Dispatch.                                                               *)

Replace(d, e) == busy' = (busy \ {d}) \cup {e}

\* The engine extends the lease.
Renew(d) == task' = [task EXCEPT ![d.task].expiresIn = LeaseFor]

\* The call renews the lease, or the goroutine returns.
Heartbeat(d) ==
    /\ d.phase = "running"
    /\ d.beat = 0
    /\ ~cancelled
    /\ IF Holds(d)
         THEN /\ Renew(d)
              /\ Replace(d, [d EXCEPT !.beat = Interval])
         ELSE /\ Replace(d, [d EXCEPT !.beat = Silent])
              /\ UNCHANGED task
    /\ UNCHANGED <<poll, cancelled, lost>>

\* One lost request, or the loss of its answer when the engine has extended the
\* lease, is enough for the goroutine to return.
HeartbeatLost(d) ==
    /\ d.phase = "running"
    /\ d.beat = 0
    /\ ~cancelled
    /\ Lose
    /\ UNCHANGED task \/ (Holds(d) /\ Renew(d))
    /\ Replace(d, [d EXCEPT !.beat = Silent])
    /\ UNCHANGED <<poll, cancelled>>

\* The goroutine sees that the context is cancelled.
HeartbeatStops(d) ==
    /\ d.phase = "running"
    /\ d.beat # Silent
    /\ cancelled
    /\ Replace(d, [d EXCEPT !.beat = Silent])
    /\ UNCHANGED <<task, poll, cancelled, lost>>

\* safeInvoke returns, with an error if the handler panicked, and stopHB.
HandlerReturns(d) ==
    /\ d.phase = "running"
    /\ \E phase \in {"completing", "failing"} :
          Replace(d, [d EXCEPT !.beat = Silent, !.phase = phase])
    /\ UNCHANGED <<task, poll, cancelled, lost>>

\* What the engine makes of a report by the holder of the lease: a failed task
\* given up, or retried within its budget.
Outcome(d) ==
    LET attempt == task[d.task].attempt
    IN  IF d.phase = "completing"
          THEN {Row("DONE", attempt, d.token, 0)}
          ELSE {Row("FAILED", attempt, d.token, 0)} \cup
               {Row("QUEUED", n, NoToken, 0) : n \in {attempt + 1} \cap (1..MaxAttempts)}

Recorded(d) == \E row \in Outcome(d) : task' = [task EXCEPT ![d.task] = row]

\* Mutant: a report that cannot be made is tried again.
ReportUntilAccepted(d) ==
    /\ d.phase # "running"
    /\ ~cancelled
    /\ IF Holds(d) THEN Recorded(d) ELSE UNCHANGED task
    /\ busy' = busy \ {d}
    /\ UNCHANGED <<poll, cancelled, lost>>

\* Complete or Fail.  With a cancelled context the request is not sent; from a
\* worker that lost the lease it is refused.  Either way the error is logged and
\* the slot is free.
Report(d) ==
    /\ d.phase # "running"
    /\ IF Holds(d) /\ ~cancelled THEN Recorded(d) ELSE UNCHANGED task
    /\ busy' = busy \ {d}
    /\ UNCHANGED <<poll, cancelled, lost>>

\* The request is lost, or the context is cancelled after it was sent.
ReportLost(d) ==
    /\ d.phase # "running"
    /\ ~cancelled
    /\ Lose
    /\ busy' = busy \ {d}
    /\ UNCHANGED <<task, poll, cancelled>>

-----------------------------------------------------------------------------
(* The engine's sweeper, the clock and the signal to stop.                 *)

\* Mutant: leases are not swept.
NeverSwept == FALSE /\ UNCHANGED workerVars

ExpireLeases ==
    LET expired == {t \in Task : task[t].status = "LEASED" /\ task[t].expiresIn = 0}
    IN  /\ expired # {}
        /\ task' = [t \in Task |->
                      IF t \in expired
                        THEN Row("QUEUED", task[t].attempt, NoToken, 0)
                        ELSE task[t]]
        /\ UNCHANGED <<poll, busy, cancelled, lost>>

Less(n) == IF n > 0 THEN n - 1 ELSE 0

Prompt ==
    /\ \A d \in busy : d.phase = "running" /\ d.beat > 0
    /\ \A a \in Activity : poll[a] \in Delivery => Cardinality(busy) = Slots

Tick ==
    /\ \E t \in Task : task[t].expiresIn > 0
    /\ Prompt
    /\ task' = [t \in Task |->
                  [task[t] EXCEPT !.expiresIn = Less(task[t].expiresIn)]]
    /\ busy' = {[d EXCEPT !.beat = IF d.beat = Silent THEN Silent ELSE d.beat - 1] :
                  d \in busy}
    /\ UNCHANGED <<poll, cancelled, lost>>

CancelWorker ==
    /\ ~cancelled
    /\ cancelled' = TRUE
    /\ UNCHANGED <<task, poll, busy, lost>>

-----------------------------------------------------------------------------
WorkerInit ==
    /\ task = [t \in Task |-> Row("QUEUED", 1, NoToken, 0)]
    /\ poll = [a \in Activity |-> Polling]
    /\ busy = {}
    /\ cancelled = FALSE
    /\ lost = 0

WorkerNext ==
    \/ \E t \in Task, token \in Token : Poll(t, token) \/ PollLost(t, token)
    \/ \E a \in Activity : TakeSlot(a) \/ StopPolling(a)
    \/ \E d \in busy :
          \/ Heartbeat(d)
          \/ HeartbeatLost(d)
          \/ HeartbeatStops(d)
          \/ HandlerReturns(d)
          \/ Report(d)
          \/ ReportLost(d)
    \/ ExpireLeases
    \/ Tick
    \/ CancelWorker

WorkerSpec == WorkerInit /\ [][WorkerNext]_workerVars

\* Loops, goroutines, sweeper and clock run on, and handlers return.
FairWorkerSpec ==
    /\ WorkerSpec
    /\ \A t \in Task : WF_workerVars(\E token \in Token : Poll(t, token))
    /\ \A a \in Activity : WF_workerVars(TakeSlot(a)) /\ WF_workerVars(StopPolling(a))
    /\ \A t \in Task :
          /\ WF_workerVars(\E d \in busy : d.task = t /\ (Heartbeat(d) \/ HeartbeatStops(d)))
          /\ WF_workerVars(\E d \in busy : d.task = t /\ HandlerReturns(d))
          /\ WF_workerVars(\E d \in busy : d.task = t /\ Report(d))
    /\ WF_workerVars(ExpireLeases)
    /\ WF_workerVars(Tick)

-----------------------------------------------------------------------------
(* What the worker promises.                                               *)

\* The queue's rows, the loops and the goroutines keep their shape, and no more
\* goroutines run than there are slots.
WorkerTypeOK ==
    /\ task \in [Task -> [status    : {"QUEUED", "LEASED", "DONE", "FAILED"},
                          attempt   : 1..MaxAttempts,
                          token     : Token \cup {NoToken},
                          expiresIn : 0..LeaseFor]]
    /\ poll \in [Activity -> Delivery \cup {Polling, Stopped}]
    /\ busy \subseteq Dispatch
    /\ Cardinality(busy) <= Slots
    /\ cancelled \in BOOLEAN
    /\ lost \in 0..MaxLost

\* The heartbeats keep the lease for as long as the handler runs: the sweeper
\* does not take the task from a worker that is alive, whose calls get through
\* and that has a slot for every task.  With fewer slots a task waits for one
\* with nobody renewing its lease.
KeptWhileRunning ==
    lost = 0 /\ ~cancelled /\ Cardinality(Task) <= Slots =>
        \A d \in busy : d.phase = "running" => Holds(d)

\* A worker that stops drains its tasks: the result of a handler that holds
\* the lease reaches the engine.
ResultsReported ==
    [][\A d \in busy : d.phase # "running" /\ Holds(d) /\ d \notin busy'
          => task'[d.task] # task[d.task]]_workerVars

\* Lost answers, lost heartbeats and lost reports only delay a task: unless the
\* worker is told to stop, it is done or given up in the end.
EveryTaskSettles ==
    \A t \in Task : <>(task[t].status \in {"DONE", "FAILED"} \/ cancelled)

\* A worker that is told to stop gets there: no poll loop and no goroutine
\* waits for ever for a slot or for an answer.
StopsWhenCancelled ==
    cancelled ~> busy = {} /\ \A a \in Activity : poll[a] = Stopped

=============================================================================
