---------------------------- MODULE AttemptProofs ---------------------------
(***************************************************************************)
(* Retries: the attempt number of a task against the retries its history   *)
(* records, for every definition without cycles and any number of failure  *)
(* reports that overlap.                                                   *)
(***************************************************************************)
EXTENDS TaskProofs, FiniteSetTheorems

\* A leaf is left to Zenon unless it names the SMT solver.
USE ZenonT(30)

-----------------------------------------------------------------------------
(* Attempts.                                                               *)

\* The attempt a failing call has read is that of its task, as long as the token it
\* will present is.
ReadIsCurrent ==
    \A c \in calls : task[c.task].token = c.token => task[c.task].attempt = c.attempt

\* Every step of the kernel keeps what a failing call has read current: a new
\* attempt has no token yet, and a new lease has a token no call holds.
LEMMA NextReadIsCurrent == Linked /\ ReadIsCurrent /\ [Next]_vars => ReadIsCurrent'
<1> SUFFICES ASSUME Linked, ReadIsCurrent, [Next]_vars, NEW c \in calls',
                    task'[c.task].token = c.token
             PROVE  task'[c.task].attempt = c.attempt
  BY DEF ReadIsCurrent
<1> DEFINE t == c.task
<1>1. TypeOK
  BY DEF Linked
<1>2. ASSUME c \in calls
      PROVE  /\ t \in TaskId /\ c.token \in Token /\ c.token # NoToken
             /\ Exists(task[t]) /\ task[t] \in TaskRow
             /\ task[t].token = c.token => task[t].attempt = c.attempt
  <2>1. c \in FailCall /\ Exists(task[t])
    BY <1>1, <1>2 DEF TypeOK, Linked, RowsLinked
  <2>2. t \in TaskId /\ c.token \in Token /\ c.token # NoToken
    BY <2>1, IdAssumption DEF FailCall
  <2>3. QED
    BY <1>1, <1>2, <2>1, <2>2, RowsExist DEF ReadIsCurrent, Exists
<1>3. ASSUME c \in calls, task'[t].token = task[t].token, task'[t].attempt = task[t].attempt
      PROVE  task'[t].attempt = c.attempt
  BY <1>2, <1>3
<1>4. ASSUME NEW d \in Delivery, ReadFailingTask(d)
      PROVE  task'[t].attempt = c.attempt
  <2>1. UNCHANGED task
    BY <1>4 DEF ReadFailingTask, stored
  <2> DEFINE new == [task |-> d.task, token |-> d.token, attempt |-> task[d.task].attempt]
  <2>2. new.task = d.task /\ new.attempt = task[d.task].attempt
    BY SMTT(30)
  <2>3. c \in calls \/ c = new
    BY <1>4 DEF ReadFailingTask
  <2> HIDE DEF new
  <2>4. QED
    BY <1>3, <2>1, <2>2, <2>3
<1>5. ASSUME NEW u \in TaskId, NEW token \in Token, LeaseTask(u, token)
      PROVE  task'[t].attempt = c.attempt
  <2>1. c \in calls
    BY <1>5 DEF LeaseTask
  <2>2. u = t => token # c.token
    BY <1>5, <2>1 DEF LeaseTask, TokensOut
  <2>3. u = t => task'[t].token = token
    BY <1>1, <1>2, <1>5, <2>1 DEF LeaseTask, TypeOK, TaskRow
  <2>4. u # t => task'[t] = task[t]
    BY <1>1, <1>2, <1>5, <2>1 DEF LeaseTask, TypeOK
  <2>5. QED
    BY <1>3, <2>1, <2>2, <2>3, <2>4
<1>6. ASSUME NEW d \in Delivery, HeartbeatTask(d)
      PROVE  task'[t].attempt = c.attempt
  <2>1. c \in calls /\ d.task \in TaskId
    BY <1>6 DEF HeartbeatTask, volatile, Delivery
  <2>2. task'[t].token = task[t].token /\ task'[t].attempt = task[t].attempt
    BY <1>1, <1>2, <1>6, <2>1 DEF HeartbeatTask, TypeOK, TaskRow
  <2>3. QED
    BY <1>3, <2>1, <2>2
<1>7. ASSUME ExpireLeases
      PROVE  task'[t].attempt = c.attempt
  <2>1. c \in calls
    BY <1>7 DEF ExpireLeases, volatile
  <2>2. task'[t] = IF Expired(t) THEN [task[t] EXCEPT !.status = "QUEUED",
                                                      !.token = NoToken,
                                                      !.expiresIn = 0]
                                 ELSE task[t]
    BY <1>2, <1>7, <2>1 DEF ExpireLeases
  <2>3. task'[t].token = NoToken \/ task'[t] = task[t]
    BY <1>2, <2>1, <2>2 DEF TaskRow
  <2>4. QED
    BY <1>2, <1>3, <2>1, <2>3
<1>8. ASSUME Tick
      PROVE  task'[t].attempt = c.attempt
  <2>1. c \in calls
    BY <1>8 DEF Tick, volatile
  <2>2. task'[t] = IF Open(t) THEN [task[t] EXCEPT !.visibleIn = Less(@),
                                                   !.expiresIn = Less(@)]
                              ELSE task[t]
    BY <1>2, <1>8, <2>1 DEF Tick
  <2>3. task'[t].token = task[t].token /\ task'[t].attempt = task[t].attempt
    BY <1>2, <2>1, <2>2 DEF TaskRow
  <2>4. QED
    BY <1>3, <2>1, <2>3
<1>9. ASSUME NEW u \in TaskId, NEW noop, NEW status, Settle(u, noop, status), c \in calls
      PROVE  task'[t].attempt = c.attempt
  <2>1. task'[t].token = task[t].token /\ task'[t].attempt = task[t].attempt
    BY <1>1, <1>2, <1>9 DEF Settle, TypeOK, TaskRow
  <2>2. QED
    BY <1>3, <1>9, <2>1
<1>10. ASSUME NEW d \in Delivery, OnTaskComplete(d)
       PROVE  task'[t].attempt = c.attempt
  BY <1>9, <1>10 DEF OnTaskComplete, Delivery, volatile
<1>11. ASSUME NEW b \in calls, OnTaskFail(b)
       PROVE  task'[t].attempt = c.attempt
  <2>1. c \in calls /\ b.task \in TaskId
    BY <1>1, <1>11 DEF OnTaskFail, FailStale, FailRetry, FailTerminal, Return, TypeOK, FailCall
  <2>2. CASE FailStale(b) \/ \E retryable \in BOOLEAN : FailTerminal(b, retryable)
    BY <1>9, <2>1, <2>2 DEF FailStale, FailTerminal
  <2>3. ASSUME NEW retryable \in BOOLEAN, NEW ticks \in Backoff, FailRetry(b, retryable, ticks)
        PROVE  task'[t].attempt = c.attempt
    <3>1. RequeueTask(b.task, b.attempt + 1, ticks)
      BY <2>3 DEF FailRetry
    <3>2. task'[t] = task[t] \/ task'[t].token = NoToken
      BY <1>1, <1>2, <2>1, <3>1 DEF RequeueTask, TypeOK, TaskRow
    <3>3. QED
      BY <1>2, <1>3, <2>1, <3>2
  <2>4. QED
    BY <1>11, <2>2, <2>3 DEF OnTaskFail
<1>12. ASSUME NEW i \in Instance, EnterActivity(i)
       PROVE  task'[t].attempt = c.attempt
  <2>1. c \in calls
    BY <1>12 DEF EnterActivity, volatile
  <2>2. task'[t] = task[t]
    BY <1>2, <1>12, <2>1, EnqueueFresh DEF FreshTask
  <2>3. QED
    BY <1>3, <2>1, <2>2
<1>13. ASSUME \/ \E i \in Instance :
                    \/ \E key \in Key : StartInstance(i, key)
                    \/ RecordStart(i) \/ AbortStart(i)
                    \/ EnterWaitEarlySignal(i) \/ EnterWait(i) \/ EnterSleep(i) \/ EnterEnd(i)
                    \/ \E name \in Name, s \in SignalId : AppendSignal(i, name, s)
              \/ \E d \in Delivery : ForgetDelivery(d)
              \/ \E b \in calls : AbortFail(b)
              \/ UNCHANGED vars
       PROVE  task'[t].attempt = c.attempt
  <2>1. UNCHANGED task /\ calls' \subseteq calls
    BY <1>13 DEF StartInstance, RecordStart, AbortStart, EnterWaitEarlySignal, EnterWait,
                 EnterSleep, EnterEnd, AppendSignal, ForgetDelivery, AbortFail, vars,
                 stored, volatile
  <2>2. QED
    BY <1>3, <2>1
<1>14. ASSUME \/ \E s \in SignalId : SignalInstance(s) \/ ApplyPendingSignal(s) \/ AbortSignal(s)
              \/ \E l \in Loop : \/ ListDueTimers(l) \/ AbortBatch(l)
                                 \/ \E tm \in TimerId : OnTimerFired(l, tm)
       PROVE  task'[t].attempt = c.attempt
  <2>1. UNCHANGED <<task, calls>>
    BY <1>14 DEF ApplyPendingSignal, SignalInstance, AbortSignal, ListDueTimers, AbortBatch, OnTimerFired,
                 stored
  <2>2. QED
    BY <1>3, <2>1
<1>15. QED
  BY <1>4, <1>5, <1>6, <1>7, <1>8, <1>10, <1>11, <1>12, <1>13, <1>14 DEF Next, Advance

\* Only a retry records that a task is retried.
LEMMA RetrySteps ==
    ASSUME Linked, [Next]_vars
    PROVE  \/ \E c \in calls, retryable \in BOOLEAN, ticks \in Backoff :
                 FailRetry(c, retryable, ticks)
           \/ \A i \in Instance : \A t :
                 EventsOf(i, "TASK_RETRY_SCHEDULED", t)' = EventsOf(i, "TASK_RETRY_SCHEDULED", t)
<1> DEFINE Retry == "TASK_RETRY_SCHEDULED"
           Same == \A i \in Instance : \A t : EventsOf(i, Retry, t)' = EventsOf(i, Retry, t)
<1>1. TypeOK
  BY DEF Linked
<1>2. ASSUME UNCHANGED history
      PROVE  Same
  BY <1>2 DEF EventsOf
<1>3. ASSUME NEW j \in Instance, NEW type \in EventType, type # Retry, NEW step \in StepId,
             NEW ref \in Nat, AppendEvents(j, <<Ev(type, step, ref)>>)
      PROVE  Same
  <2> DEFINE e == Ev(type, step, ref)
  <2>1. e \in Event /\ e.type = type
    BY EventTyped DEF Ev
  <2>2. AppendEvents(j, <<e>>)
    BY <1>3
  <2> HIDE DEF e
  <2>3. PICK n \in Nat : Logs(j, n, e)
    BY <1>1, <2>1, <2>2, EventLogged
  <2>4. LogsOnly(j, {type}) /\ Retry \notin {type}
    BY <1>3, <2>1, <2>3, LoggedOnly
  <2>5. ASSUME NEW i \in Instance, NEW t
        PROVE  EventsOf(i, Retry, t)' = EventsOf(i, Retry, t)
    <3>1. CASE i = j
      BY <2>4, <3>1, EventsKept
    <3>2. CASE i # j
      BY <2>3, <3>2 DEF Logs, EventsOf
    <3>3. QED
      BY <3>1, <3>2
  <2>6. QED
    BY <2>5
<1> HIDE DEF Same
<1>4. /\ {"WORKFLOW_STARTED", "TASK_SCHEDULED", "TASK_COMPLETED", "SIGNAL_RECEIVED",
           "TIMER_CREATED", "TIMER_FIRED", "WORKFLOW_SUCCEEDED"} \subseteq EventType
      /\ NoRef \in Nat /\ Def.initial \in StepId
  BY SMTT(30), SuccessorsExist DEF EventType, NoRef
<1>5. ASSUME NEW j \in Instance, RecordStart(j)
      PROVE  Same
  BY <1>3, <1>4, <1>5 DEF RecordStart
<1>6. ASSUME NEW j \in Instance, NEW s \in SignalId, inst[j].step \in StepId, ApplySignal(j, s)
      PROVE  Same
  <2>1. s \in Nat
    BY SMTT(30), IdAssumption
  <2>2. QED
    BY <1>3, <1>4, <1>6, <2>1 DEF ApplySignal
<1>7. ASSUME NEW j \in Instance, Advance(j)
      PROVE  Same
  <2>1. inst[j].step \in StepId
    BY <1>1, <1>7, RunnableAt
       DEF Advance, EnterActivity, EnterWaitEarlySignal, EnterWait, EnterSleep, EnterEnd
  <2>2. CASE EnterWaitEarlySignal(j)
    BY <1>6, <2>1, <2>2 DEF EnterWaitEarlySignal, Oldest, Pending
  <2>3. CASE EnterActivity(j) \/ EnterSleep(j) \/ EnterEnd(j) \/ EnterWait(j)
    BY <1>2, <1>3, <1>4, <2>1, <2>3 DEF EnterActivity, EnterSleep, EnterEnd, EnterWait
  <2>4. QED
    BY <1>7, <2>2, <2>3 DEF Advance
<1>8. ASSUME NEW d \in Delivery, OnTaskComplete(d)
      PROVE  Same
  <2>1. d.task \in TaskId /\ Exists(task[d.task])
    BY <1>8, CompleteSettles
  <2>2. task[d.task].inst \in Instance /\ task[d.task].step \in StepId /\ d.task \in Nat
    BY <2>1, TaskRefers
  <2>3. QED
    BY <1>2, <1>3, <1>4, <1>8, <2>2 DEF OnTaskComplete
<1>9. ASSUME NEW s \in SignalId, ApplyPendingSignal(s)
      PROVE  Same
  <2>1. signal[s].inst \in Instance /\ Exists(inst[signal[s].inst])
    BY <1>9, RowsExist DEF ApplyPendingSignal, Linked, RowsLinked, Exists, SignalRow
  <2>2. inst[signal[s].inst].step \in StepId
    BY <1>1, <2>1, RowsExist DEF Exists, InstanceRow
  <2>3. QED
    BY <1>2, <1>6, <1>9, <2>1, <2>2 DEF ApplyPendingSignal, Oldest, Pending
<1>10. ASSUME NEW l \in Loop, NEW tm \in TimerId, OnTimerFired(l, tm)
       PROVE  Same
  <2>1. Exists(timer[tm])
    BY <1>10 DEF OnTimerFired, Linked, RowsLinked
  <2>2. timer[tm].inst \in Instance /\ timer[tm].step \in StepId
    BY <2>1, TimerRefers
  <2>3. QED
    BY <1>2, <1>3, <1>4, <1>10, <2>2 DEF OnTimerFired
<1>11. ASSUME NEW c \in calls, NEW retryable \in BOOLEAN, FailTerminal(c, retryable)
       PROVE  Same
  <2>1. c.task \in TaskId /\ Exists(task[c.task])
    BY FailSettles
  <2> DEFINE j == task[c.task].inst
             e == Ev("TASK_FAILED", task[c.task].step, c.task)
             f == Ev("WORKFLOW_FAILED", task[c.task].step, NoRef)
  <2>2. j \in Instance /\ task[c.task].step \in StepId /\ c.task \in Nat
    BY <2>1, TaskRefers
  <2>3. /\ e \in Event /\ f \in Event
        /\ e.type = "TASK_FAILED" /\ f.type = "WORKFLOW_FAILED"
    BY <1>4, <2>2, EventTyped DEF Ev, EventType
  <2>4. AppendEvents(j, <<e, f>>)
    BY <1>11 DEF FailTerminal
  <2> HIDE DEF e, f, j
  <2>5. PICK n \in Nat : LogsTwo(j, n, e, f)
    BY <1>1, <2>2, <2>3, <2>4, EventsLogged
  <2>6. LogsOnly(j, {"TASK_FAILED", "WORKFLOW_FAILED"})
        /\ Retry \notin {"TASK_FAILED", "WORKFLOW_FAILED"}
    BY <2>2, <2>3, <2>5, LoggedOnly
  <2>7. ASSUME NEW i \in Instance, NEW t
        PROVE  EventsOf(i, Retry, t)' = EventsOf(i, Retry, t)
    <3>1. CASE i = j
      BY <2>6, <3>1, EventsKept
    <3>2. CASE i # j
      BY <2>5, <3>2 DEF LogsTwo, EventsOf
    <3>3. QED
      BY <3>1, <3>2
  <2>8. QED
    BY <2>7 DEF Same
<1>12. ASSUME \/ \E j \in Instance :
                    \/ \E key \in Key : StartInstance(j, key)
                    \/ AbortStart(j)
                    \/ \E name \in Name, s \in SignalId : AppendSignal(j, name, s)
              \/ \E t \in TaskId, token \in Token : LeaseTask(t, token)
              \/ \E d \in Delivery : HeartbeatTask(d) \/ ReadFailingTask(d) \/ ForgetDelivery(d)
              \/ \E c \in calls : AbortFail(c) \/ FailStale(c)
              \/ \E s \in SignalId : SignalInstance(s) \/ AbortSignal(s)
              \/ \E l \in Loop : ListDueTimers(l) \/ AbortBatch(l)
              \/ ExpireLeases \/ Tick \/ UNCHANGED vars
       PROVE  UNCHANGED history
  BY <1>12 DEF StartInstance, AbortStart, AppendSignal, LeaseTask, HeartbeatTask,
               ReadFailingTask, ForgetDelivery, AbortFail, FailStale, SignalInstance, AbortSignal,
               ListDueTimers, AbortBatch, ExpireLeases, Tick, vars, stored
<1>13. Same \/ \E c \in calls, retryable \in BOOLEAN, ticks \in Backoff :
                 FailRetry(c, retryable, ticks)
  BY <1>2, <1>5, <1>7, <1>8, <1>9, <1>10, <1>11, <1>12 DEF Next, OnTaskFail
<1>14. QED
  BY <1>13 DEF Same

\* A retry records that its own task is retried.
LEMMA RetryRecorded ==
    ASSUME Linked, NEW c \in calls, NEW retryable \in BOOLEAN, NEW ticks \in Backoff,
           FailRetry(c, retryable, ticks)
    PROVE  /\ \E n : /\ n \notin EventsOf(task[c.task].inst, "TASK_RETRY_SCHEDULED", c.task)
                     /\ EventsOf(task[c.task].inst, "TASK_RETRY_SCHEDULED", c.task)' =
                           EventsOf(task[c.task].inst, "TASK_RETRY_SCHEDULED", c.task) \cup {n}
           /\ \A i \in Instance : \A t :
                 i # task[c.task].inst \/ t # c.task =>
                    EventsOf(i, "TASK_RETRY_SCHEDULED", t)' =
                       EventsOf(i, "TASK_RETRY_SCHEDULED", t)
<1> DEFINE j == task[c.task].inst
           e == Ev("TASK_RETRY_SCHEDULED", task[c.task].step, c.task)
<1>1. TypeOK /\ c.task \in TaskId /\ Exists(task[c.task])
  BY FailSettles DEF Linked
<1>2. j \in Instance /\ task[c.task].step \in StepId /\ c.task \in Nat
  BY <1>1, TaskRefers
<1>3. e \in Event /\ e.type = "TASK_RETRY_SCHEDULED" /\ e.ref = c.task
  BY <1>2, EventTyped DEF Ev, EventType
<1>4. AppendEvents(j, <<e>>) /\ UNCHANGED inst
  BY DEF FailRetry
<1>5. SameTask(c.task)
  BY FailSettles
<1>6. task'[c.task].inst = j
  BY <1>1, <1>5 DEF SameTask
<1> HIDE DEF e
<1>7. PICK n \in Nat : Logs(j, n, e)
  BY <1>1, <1>2, <1>3, <1>4, EventLogged
<1>8. n \notin EventsOf(j, "TASK_RETRY_SCHEDULED", c.task)
  BY <1>7 DEF Logs, EventsOf
<1>9. EventsOf(j, "TASK_RETRY_SCHEDULED", c.task)' =
         EventsOf(j, "TASK_RETRY_SCHEDULED", c.task) \cup {n}
  BY <1>3, <1>6, <1>7 DEF Logs, EventsOf
<1>10. ASSUME NEW i \in Instance, NEW t, i # j \/ t # c.task
       PROVE  EventsOf(i, "TASK_RETRY_SCHEDULED", t)' = EventsOf(i, "TASK_RETRY_SCHEDULED", t)
  <2> HIDE DEF j
  <2>1. CASE i # j
    BY <1>7, <2>1 DEF Logs, EventsOf
  <2>2. CASE i = j /\ t # c.task
    BY <1>3, <1>7, <2>2 DEF Logs, EventsOf
  <2>3. QED
    BY <1>10, <2>1, <2>2
<1>11. QED
  BY <1>8, <1>9, <1>10

\* A history records the retries of no task but those of its instance.
RetriesOwned ==
    \A i \in Instance : \A t \in TaskId :
        EventsOf(i, "TASK_RETRY_SCHEDULED", t) # {} => Exists(task[t]) /\ task[t].inst = i

\* Every step of the kernel keeps retries with their instances.
LEMMA NextRetriesOwned == Linked /\ RetriesOwned /\ [Next]_vars => RetriesOwned'
<1> SUFFICES ASSUME Linked, RetriesOwned, [Next]_vars, NEW i \in Instance, NEW t \in TaskId,
                    EventsOf(i, "TASK_RETRY_SCHEDULED", t)' # {}
             PROVE  Exists(task'[t]) /\ task'[t].inst = i
  BY DEF RetriesOwned
<1>1. ASSUME EventsOf(i, "TASK_RETRY_SCHEDULED", t)' = EventsOf(i, "TASK_RETRY_SCHEDULED", t)
      PROVE  Exists(task'[t]) /\ task'[t].inst = i
  <2>1. Exists(task[t]) /\ task[t].inst = i
    BY <1>1 DEF RetriesOwned
  <2>2. QED
    BY <2>1, NextTasks DEF SameTask, FreshTask
<1>2. ASSUME NEW c \in calls, NEW retryable \in BOOLEAN, NEW ticks \in Backoff,
             FailRetry(c, retryable, ticks)
      PROVE  Exists(task'[t]) /\ task'[t].inst = i
  <2>1. CASE i # task[c.task].inst \/ t # c.task
    BY <1>1, <1>2, <2>1, RetryRecorded
  <2>2. CASE i = task[c.task].inst /\ t = c.task
    BY <1>2, <2>2, FailSettles DEF SameTask
  <2>3. QED
    BY <2>1, <2>2
<1>3. QED
  BY <1>1, <1>2, RetrySteps

\* The attempt of t is one more than the retries recorded, and within the budget.
Counted(t) ==
    /\ IsFiniteSet(EventsOf(task[t].inst, "TASK_RETRY_SCHEDULED", t))
    /\ task[t].attempt = 1 + Cardinality(EventsOf(task[t].inst, "TASK_RETRY_SCHEDULED", t))
    /\ task[t].attempt <= EffectiveRetry(Def.steps[task[t].step])

\* A new task has its first attempt, which every policy allows.
LEMMA FreshCounted ==
    ASSUME Linked, RetriesOwned, [Next]_vars, NEW i \in Instance, NEW t \in TaskId,
           EnterActivity(i), FreshTask(i, t)
    PROVE  Counted(t)'
<1> DEFINE E == EventsOf(i, "TASK_RETRY_SCHEDULED", t)
<1>1. /\ ~Exists(task[t]) /\ Exists(task'[t]) /\ task'[t].inst = i
      /\ task'[t].step = inst[i].step /\ task'[t].attempt = 1
  BY DEF FreshTask
<1>2. E = {}
  BY <1>1 DEF RetriesOwned
<1>3. ~\E c \in calls, retryable \in BOOLEAN, ticks \in Backoff : FailRetry(c, retryable, ticks)
  BY <1>1, FailSettles DEF HeldTask, SameTask
<1>4. E' = E
  BY <1>3, RetrySteps
<1>5. inst[i].step \in StepId /\ Def.steps[inst[i].step].type = "activity"
  BY RunnableAt DEF EnterActivity, Linked
<1> DEFINE step == Def.steps[inst[i].step]
<1>6. step \in Step(StepId, Name) /\ FieldsPresent(step)
  BY <1>5, DefinitionAssumption DEF WellFormed
<1>7. step.retry \in Int /\ (step.retry # NoRetry => step.retry >= 1)
  BY <1>5, <1>6 DEF Step, FieldsPresent
<1> HIDE DEF step
<1>8. 1 <= EffectiveRetry(step)
  BY SMTT(30), <1>7 DEF EffectiveRetry, DefaultMaxAttempts
<1>9. IsFiniteSet({}) /\ 1 + Cardinality({}) = 1
  <2>1. IsFiniteSet({}) /\ Cardinality({}) = 0
    BY FS_EmptySet
  <2>2. QED
    BY SMTT(30), <2>1
<1>10. EventsOf(task[t].inst, "TASK_RETRY_SCHEDULED", t)' = {}
  BY <1>1, <1>2, <1>4 DEF EventsOf
<1>11. QED
  BY <1>1, <1>8, <1>9, <1>10 DEF Counted, step

\* A task that is not retried keeps its count.
LEMMA CountKept ==
    ASSUME NEW t \in TaskId, Exists(task[t]), Counted(t), SameTask(t),
           task'[t].attempt = task[t].attempt,
           EventsOf(task[t].inst, "TASK_RETRY_SCHEDULED", t)' =
              EventsOf(task[t].inst, "TASK_RETRY_SCHEDULED", t)
    PROVE  Counted(t)'
  BY DEF Counted, SameTask

\* Without cycles, OnTaskFail retries the attempt it has read.
LEMMA RetryCounted ==
    ASSUME Acyclic, Working, ReadIsCurrent, NEW c \in calls, NEW retryable \in BOOLEAN,
           NEW ticks \in Backoff, FailRetry(c, retryable, ticks), Counted(c.task)
    PROVE  Counted(c.task)'
<1> DEFINE t == c.task
           j == task[t].inst
           E == EventsOf(j, "TASK_RETRY_SCHEDULED", t)
<1>1. Linked
  BY DEF Working, Woken
<1>2. t \in TaskId /\ Exists(task[t]) /\ c \in FailCall
  BY <1>1, FailSettles
<1>3. j \in Instance /\ task[t].step \in StepId /\ task[t].attempt \in Nat
  BY <1>1, <1>2, TaskRefers
<1>4. Open(t)
  BY <1>2, TaskAtWork DEF FailRetry
<1>5. task[t].token = c.token
  BY <1>4 DEF FailRetry, Accepted, RequeueNoop, Open
<1>6. task[t].attempt = c.attempt
  BY <1>5 DEF ReadIsCurrent
<1>7. /\ task'[t].inst = j /\ task'[t].step = task[t].step
      /\ task'[t].attempt = task[t].attempt + 1
  BY <1>1, <1>2, <1>4, <1>6, FailSettles DEF SameTask
<1>8. PICK n : n \notin E /\ E' = E \cup {n}
  BY <1>1, RetryRecorded
<1>9. IsFiniteSet(E) /\ task[t].attempt = 1 + Cardinality(E)
  BY DEF Counted
<1>10. EventsOf(task[t].inst, "TASK_RETRY_SCHEDULED", t)' = E \cup {n}
  BY <1>7, <1>8 DEF EventsOf
<1> HIDE DEF E
<1>11. IsFiniteSet(E \cup {n}) /\ Cardinality(E \cup {n}) = Cardinality(E) + 1
       /\ Cardinality(E) \in Nat
  BY <1>8, <1>9, FS_AddElement, FS_CardinalityType
<1>12. task'[t].attempt = 1 + Cardinality(E \cup {n})
  BY SMTT(30), <1>7, <1>9, <1>11
<1> DEFINE step == Def.steps[task[t].step]
<1>13. task[t].attempt < EffectiveRetry(step)
  BY <1>6 DEF FailRetry, DecideRetry
<1>14. step.retry \in Int
  BY <1>3, DefinitionAssumption DEF Step
<1> HIDE DEF step
<1>15. task[t].attempt + 1 <= EffectiveRetry(step)
  BY SMTT(30), <1>3, <1>13, <1>14 DEF EffectiveRetry, DefaultMaxAttempts
<1>16. QED
  BY <1>7, <1>10, <1>11, <1>12, <1>15 DEF Counted, step

\* Every attempt is counted.
Attempts == ReadIsCurrent /\ RetriesOwned /\ \A t \in TaskId : Exists(task[t]) => Counted(t)

\* Without cycles, every step of the kernel keeps the attempts counted.
LEMMA NextAttempts ==
    ASSUME Acyclic, Working, Attempts, [Next]_vars
    PROVE  Attempts'
<1>1. Linked
  BY DEF Working, Woken
<1>2. ReadIsCurrent' /\ RetriesOwned'
  BY <1>1, NextReadIsCurrent, NextRetriesOwned DEF Attempts
<1>3. ASSUME NEW t \in TaskId, Exists(task'[t])
      PROVE  Counted(t)'
  <2>1. ASSUME NEW i \in Instance, EnterActivity(i), FreshTask(i, t)
        PROVE  Counted(t)'
    BY <1>1, <2>1, FreshCounted DEF Attempts
  <2>2. CASE SameTask(t)
    <3>1. Exists(task[t]) /\ Counted(t) /\ task[t].inst \in Instance
      BY <1>1, <1>3, <2>2, TaskRefers DEF SameTask, Attempts
    <3>2. ASSUME NEW c \in calls, NEW retryable \in BOOLEAN, NEW ticks \in Backoff,
                 FailRetry(c, retryable, ticks)
          PROVE  Counted(t)'
      <4>1. CASE t = c.task
        BY <3>1, <3>2, <4>1, RetryCounted DEF Attempts
      <4>2. CASE t # c.task
        <5>1. HeldTask(t)
          BY <1>1, <3>2, <4>2, FailSettles
        <5>2. \A i \in Instance :
                 EventsOf(i, "TASK_RETRY_SCHEDULED", t)' = EventsOf(i, "TASK_RETRY_SCHEDULED", t)
          BY <1>1, <3>2, <4>2, RetryRecorded
        <5>3. task'[t].inst = task[t].inst
          BY <2>2, <3>1 DEF SameTask
        <5>4. EventsOf(task[t].inst, "TASK_RETRY_SCHEDULED", t)' =
                 EventsOf(task[t].inst, "TASK_RETRY_SCHEDULED", t)
          BY <3>1, <5>2, <5>3 DEF EventsOf
        <5>5. QED
          BY <2>2, <3>1, <5>1, <5>4, CountKept DEF HeldTask
      <4>3. QED
        BY <4>1, <4>2
    <3>3. ASSUME ~\E c \in calls, retryable \in BOOLEAN, ticks \in Backoff :
                     FailRetry(c, retryable, ticks)
          PROVE  Counted(t)'
      <4>1. EventsOf(task[t].inst, "TASK_RETRY_SCHEDULED", t)' =
               EventsOf(task[t].inst, "TASK_RETRY_SCHEDULED", t)
        <5>1. \A i \in Instance :
                 EventsOf(i, "TASK_RETRY_SCHEDULED", t)' = EventsOf(i, "TASK_RETRY_SCHEDULED", t)
          BY <1>1, <3>3, RetrySteps
        <5>2. task'[t].inst = task[t].inst
          BY <2>2, <3>1 DEF SameTask
        <5>3. QED
          BY <3>1, <5>1, <5>2 DEF EventsOf
      <4>2. ASSUME NEW i \in Instance, EnterActivity(i)
            PROVE  HeldTask(t)
        BY <1>1, <3>1, <4>2, EnqueueFresh DEF FreshTask
      <4>3. ASSUME NEW c \in calls, OnTaskFail(c)
            PROVE  HeldTask(t) \/ SettledTask(t)
        BY <1>1, <3>3, <4>3, FailSettles DEF OnTaskFail
      <4>4. HeldTask(t) \/ SettledTask(t)
        BY <1>1, <4>2, <4>3, TaskSteps, CompleteSettles
      <4>5. QED
        BY <2>2, <3>1, <4>1, <4>4, CountKept DEF HeldTask, SettledTask
    <3>4. QED
      BY <3>2, <3>3
  <2>3. QED
    BY <1>1, <2>1, <2>2, NextTasks
<1>4. QED
  BY <1>2, <1>3 DEF Attempts

\* On a definition without cycles a task's attempt is one more than the retries its
\* history records and never exceeds the step's budget (AttemptsMatchHistory),
\* though OnTaskFail reads the attempt before it opens its transaction.
THEOREM AttemptsAreExact == Acyclic /\ Spec => []AttemptsMatchHistory
<1> SUFFICES ASSUME Acyclic
             PROVE  Spec => []AttemptsMatchHistory
  OBVIOUS
<1>1. Init => Working /\ Attempts
  <2> SUFFICES ASSUME Init
               PROVE  Attempts
    BY InitWorking
  <2>1. calls = {} /\ \A t \in TaskId : ~Exists(task[t])
    BY DEF Init, Exists
  <2>2. ASSUME NEW i \in Instance, NEW t \in TaskId
        PROVE  EventsOf(i, "TASK_RETRY_SCHEDULED", t) = {}
    <3>1. history[i] = <<>>
      BY DEF Init
    <3>2. QED
      BY SMTT(30), <3>1 DEF EventsOf
  <2>3. QED
    BY <2>1, <2>2 DEF Attempts, ReadIsCurrent, RetriesOwned
<1>2. Working /\ Attempts /\ [Next]_vars => (Working /\ Attempts)'
  BY NextWorking, NextAttempts
<1>3. Working /\ Attempts => AttemptsMatchHistory
  BY DEF Attempts, Counted, AttemptsMatchHistory
<1>4. QED
  BY <1>1, <1>2, <1>3, PTL DEF Spec

=============================================================================
