----------------------------- MODULE TaskProofs -----------------------------
(***************************************************************************)
(* Tasks and timers: that the row which will wake an instance is there,    *)
(* and which other rows may still act on it.                               *)
(*                                                                         *)
(* A row left over from an earlier visit of a step is harmless as long as  *)
(* the instance cannot come back to that step.  What holds for every       *)
(* definition is that a row belongs to the current visit, or to a step the *)
(* instance has left for good or may come back to only along a cycle       *)
(* (Once); the theorems that need more assume a definition without cycles. *)
(***************************************************************************)
EXTENDS KernelProofs

\* A leaf is left to Zenon unless it names the SMT solver.
USE ZenonT(30)

-----------------------------------------------------------------------------
(* No lost wake-ups: a parked instance always still has the task or the    *)
(* timer that will move it on.  The inductive invariant is ParkedHasWakeup *)
(* itself together with types and references: the reference part is what   *)
(* shows that the task of a visit is never deduplicated away.              *)

Woken == Linked /\ ParkedHasWakeup

\* Moving leaves the instance runnable, finishing leaves it terminal; either
\* way the others keep their rows.
LEMMA Leaves ==
    ASSUME TypeOK, NEW i \in Instance, Exists(inst[i]),
           \/ \E to, context : Move(i, to, context)
           \/ \E status \in {"SUCCEEDED", "FAILED"} : Finish(i, status)
    PROVE  /\ inst'[i].status # "WAITING"
           /\ \A j \in Instance : j # i => inst'[j] = inst[j]
<1>1. inst[i] \in InstanceRow
  BY RowsExist DEF Exists
<1>2. ASSUME NEW to, NEW context, Move(i, to, context)
      PROVE  /\ inst'[i].status # "WAITING"
             /\ \A j \in Instance : j # i => inst'[j] = inst[j]
  BY <1>1, <1>2 DEF Move, UpdateInstance, TypeOK, InstanceRow
<1>3. ASSUME NEW status \in {"SUCCEEDED", "FAILED"}, Finish(i, status)
      PROVE  /\ inst'[i].status # "WAITING"
             /\ \A j \in Instance : j # i => inst'[j] = inst[j]
  BY <1>1, <1>3 DEF Finish, UpdateInstance, TypeOK, InstanceRow
<1>4. QED
  BY <1>2, <1>3

\* What one instance waits for outlives the step.
TasksStay(i) ==
    \A t \in TaskId : Open(t) /\ OfThisVisit(i, task[t]) =>
        /\ Open(t)'
        /\ task'[t].inst = task[t].inst
        /\ task'[t].step = task[t].step
        /\ task'[t].visit = task[t].visit

TimersStay(i) ==
    \A tm \in TimerId : Armed(tm) /\ OfThisVisit(i, timer[tm]) =>
        /\ Armed(tm)'
        /\ timer'[tm].inst = timer[tm].inst
        /\ timer'[tm].step = timer[tm].step
        /\ timer'[tm].kind = timer[tm].kind
        /\ timer'[tm].visit = timer[tm].visit

\* An instance that does not change, and whose own task and timers stay as they
\* are, can still be woken.
LEMMA StillWoken ==
    ASSUME NEW i \in Instance, CanWake(i), inst'[i] = inst[i], TasksStay(i), TimersStay(i)
    PROVE  CanWake(i)'
<1>1. StepOf(i)' = StepOf(i)
  BY DEF StepOf
<1>2. HasTask(i) => HasTask(i)'
  BY DEF HasTask, TasksStay, OfThisVisit
<1>3. ASSUME NEW kind, HasTimer(i, kind) PROVE HasTimer(i, kind)'
  BY <1>3 DEF HasTimer, TimersStay, OfThisVisit
<1>4. QED
  BY <1>1, <1>2, <1>3 DEF CanWake

\* A step in which every instance that is parked afterwards was parked before
\* on the same row, and keeps what it waits for.
LEMMA WakeupFrame ==
    ASSUME ParkedHasWakeup,
           \A i \in Instance : inst'[i].status = "WAITING" =>
              \/ CanWake(i)'
              \/ inst'[i] = inst[i] /\ TasksStay(i) /\ TimersStay(i)
    PROVE  ParkedHasWakeup'
<1> SUFFICES ASSUME NEW i \in Instance, inst'[i].status = "WAITING"
             PROVE  CanWake(i)'
  BY DEF ParkedHasWakeup
<1>1. CASE CanWake(i)'
  BY <1>1
<1>2. CASE inst'[i] = inst[i] /\ TasksStay(i) /\ TimersStay(i)
  BY <1>2, StillWoken DEF ParkedHasWakeup
<1>3. QED
  BY <1>1, <1>2

\* Tables in which open tasks and armed timers stay so keep every wake-up.
LEMMA RowsStayOpen ==
    ASSUME TypeOK, NEW i \in Instance
    PROVE  /\ UNCHANGED task => TasksStay(i)
           /\ TasksKept /\ (\A t \in TaskId : Open(t) => Open(t)') => TasksStay(i)
           /\ UNCHANGED timer => TimersStay(i)
           /\ TimersKept /\ (\A tm \in TimerId : Armed(tm) => Armed(tm)') => TimersStay(i)
<1>1. \A t \in TaskId : Open(t) => Exists(task[t])
  BY SMTT(30) DEF Open, Exists, NoRow
<1>2. \A tm \in TimerId : Armed(tm) => Exists(timer[tm])
  BY SMTT(30) DEF Armed, Exists, NoRow
<1>3. QED
  BY <1>1, <1>2 DEF TasksStay, TimersStay, TasksKept, TimersKept, Open, Armed

-----------------------------------------------------------------------------
(* Actions that leave instances, tasks and timers alone, or only start one. *)

\* A step that writes no instance, task or timer loses no wake-up.
LEMMA QuietWoken ==
    ASSUME Woken, UNCHANGED <<inst, task, timer>>
    PROVE  ParkedHasWakeup'
  BY RowsStayOpen, WakeupFrame DEF Woken, Linked

\* CreateInstance loses no wake-up.
LEMMA StartWoken ==
    ASSUME Woken, NEW i \in Instance, NEW key \in Key, StartInstance(i, key)
    PROVE  ParkedHasWakeup'
<1>1. inst'[i].status # "WAITING" /\ \A j \in Instance : j # i => inst'[j] = inst[j]
  BY DEF StartInstance, Woken, Linked, TypeOK
<1>2. \A j \in Instance : TasksStay(j) /\ TimersStay(j)
  BY RowsStayOpen DEF StartInstance, Woken, Linked
<1>3. QED
  BY <1>1, <1>2, WakeupFrame DEF Woken

-----------------------------------------------------------------------------
(* Entering a step.                                                        *)

\* enterStep on an activity parks the instance with a new task: the key it builds
\* is not taken, so the insert is not swallowed.
LEMMA ActivityWoken ==
    ASSUME Woken, NEW i \in Instance, EnterActivity(i)
    PROVE  ParkedHasWakeup'
<1>1. TypeOK /\ Linked /\ ParkedHasWakeup /\ Runnable(i, "activity") /\ Park(i)
  BY DEF Woken, Linked, EnterActivity
<1>2. /\ Exists(inst[i]) /\ inst[i].step \in StepId /\ inst[i].rowVersion \in Nat
      /\ Def.steps[inst[i].step].type = "activity"
  BY <1>1, RunnableAt
<1>3. /\ inst'[i].step = inst[i].step
      /\ inst'[i].rowVersion = inst[i].rowVersion + 1
      /\ \A j \in Instance : j # i => inst'[j] = inst[j]
  BY <1>1, <1>2, Parks
<1>4. PICK row \in TaskRow : /\ TaskAdded(row) /\ row.status = "QUEUED" /\ row.inst = i
                             /\ row.step = inst[i].step /\ row.visit = inst[i].rowVersion
  BY <1>1, EnqueueAdds
<1>5. PICK n \in TaskId : ~Exists(task[n]) /\ task' = [task EXCEPT ![n] = row]
  BY <1>4 DEF TaskAdded
<1>6. task'[n] = row /\ \A t \in TaskId : t # n => task'[t] = task[t]
  BY <1>1, <1>5 DEF TypeOK
<1>7. HasTask(i)'
  BY <1>3, <1>4, <1>6 DEF HasTask, Open, OfThisVisit
<1>8. StepOf(i)'.type = "activity"
  BY <1>2, <1>3 DEF StepOf
<1>9. CanWake(i)'
  BY <1>7, <1>8 DEF CanWake
<1>10. ASSUME NEW j \in Instance PROVE TasksStay(j) /\ TimersStay(j)
  <2>1. \A t \in TaskId : Open(t) => t # n
    BY SMTT(30), <1>5 DEF Open, Exists, NoRow
  <2>2. TasksStay(j)
    BY <1>6, <2>1 DEF TasksStay, Open
  <2>3. QED
    BY <1>1, <2>2, RowsStayOpen DEF EnterActivity
<1>11. QED
  BY <1>1, <1>3, <1>9, <1>10, WakeupFrame

\* Arming a timer and parking.
LEMMA ArmWoken ==
    ASSUME Woken, NEW i \in Instance, Exists(inst[i]), Park(i), UNCHANGED task,
           NEW kind, NEW ticks \in Nat, CreateTimer(i, kind, ticks),
           \/ kind = "sleep" /\ Def.steps[inst[i].step].type = "sleep_until"
           \/ /\ kind = "signal_timeout"
              /\ Def.steps[inst[i].step].type = "wait_signal"
              /\ Def.steps[inst[i].step].timeoutAfter > 0
    PROVE  ParkedHasWakeup'
<1>1. TypeOK /\ Linked /\ ParkedHasWakeup /\ inst[i].rowVersion \in Nat
  BY RowsExist DEF Woken, Linked, Exists, InstanceRow
<1>2. /\ inst'[i].step = inst[i].step
      /\ inst'[i].rowVersion = inst[i].rowVersion + 1
      /\ \A j \in Instance : j # i => inst'[j] = inst[j]
  BY SMTT(30), <1>1, Parks
<1>3. PICK row \in TimerRow : /\ TimerAdded(row) /\ row.status = "PENDING" /\ row.inst = i
                              /\ row.step = inst[i].step /\ row.kind = kind
                              /\ row.visit = inst[i].rowVersion
  BY SMTT(30), <1>1, CreateAdds
<1>4. PICK n \in TimerId : ~Exists(timer[n]) /\ timer' = [timer EXCEPT ![n] = row]
  BY <1>3 DEF TimerAdded
<1>5. timer'[n] = row /\ \A tm \in TimerId : tm # n => timer'[tm] = timer[tm]
  BY <1>1, <1>4 DEF TypeOK
<1>6. HasTimer(i, kind)'
  BY <1>2, <1>3, <1>5 DEF HasTimer, Armed, OfThisVisit
<1>7. StepOf(i)' = Def.steps[inst[i].step]
  BY <1>2 DEF StepOf
<1>8. CanWake(i)'
  BY <1>6, <1>7 DEF CanWake
<1>9. ASSUME NEW j \in Instance PROVE TasksStay(j) /\ TimersStay(j)
  <2>1. \A tm \in TimerId : Armed(tm) => tm # n
    BY SMTT(30), <1>4 DEF Armed, Exists, NoRow
  <2>2. TimersStay(j)
    BY <1>5, <2>1 DEF TimersStay, Armed
  <2>3. QED
    BY <1>1, <2>2, RowsStayOpen
<1>10. QED
  BY <1>1, <1>2, <1>8, <1>9, WakeupFrame

\* enterStep on a wait or a sleep parks the instance with the timer it needs.
LEMMA WaitAndSleepWoken ==
    ASSUME Woken, NEW i \in Instance, EnterWait(i) \/ EnterSleep(i)
    PROVE  ParkedHasWakeup'
<1>1. TypeOK /\ ParkedHasWakeup
  BY DEF Woken, Linked
<1>2. CASE EnterSleep(i)
  <2>1. /\ Runnable(i, "sleep_until") /\ Park(i) /\ UNCHANGED task
        /\ CreateTimer(i, "sleep", StepOf(i).sleepFor)
    BY <1>2 DEF EnterSleep
  <2>2. /\ Exists(inst[i]) /\ inst[i].step \in StepId
        /\ Def.steps[inst[i].step].type = "sleep_until"
    BY <1>1, <2>1, RunnableAt
  <2>3. StepOf(i).sleepFor \in Nat
    BY SMTT(30), <2>2, SuccessorsExist DEF StepOf
  <2>4. QED
    BY <2>1, <2>2, <2>3, ArmWoken
<1>3. CASE EnterWait(i)
  <2>1. /\ Exists(inst[i]) /\ Park(i) /\ UNCHANGED task /\ inst[i].step \in StepId
        /\ Def.steps[inst[i].step].type = "wait_signal"
    BY SMTT(30), <1>1, <1>3, RunnableAt DEF EnterWait
  <2>2. CASE StepOf(i).timeoutAfter > 0
             /\ CreateTimer(i, "signal_timeout", StepOf(i).timeoutAfter)
    <3>1. StepOf(i).timeoutAfter \in Nat
      BY SMTT(30), <2>1, <2>2, SuccessorsExist DEF StepOf
    <3>2. QED
      BY <2>1, <2>2, <3>1, ArmWoken DEF StepOf
  <2>3. CASE StepOf(i).timeoutAfter <= 0 /\ UNCHANGED timer
    <3>1. StepOf(i)' = StepOf(i) /\ \A j \in Instance : j # i => inst'[j] = inst[j]
      BY <1>1, <2>1, Parks DEF StepOf
    <3>2. ~(StepOf(i).timeoutAfter > 0)
      BY SMTT(30), <2>1, <2>3, SuccessorsExist DEF StepOf
    <3>3. CanWake(i)'
      BY <2>1, <3>1, <3>2 DEF CanWake, StepOf
    <3>4. \A j \in Instance : TasksStay(j) /\ TimersStay(j)
      BY <1>1, <2>1, <2>3, RowsStayOpen
    <3>5. QED
      BY <1>1, <3>1, <3>3, <3>4, WakeupFrame
  <2>4. QED
    BY <1>3, <2>2, <2>3 DEF EnterWait
<1>4. QED
  BY <1>2, <1>3

\* Steps that take one instance off its step and touch no task or timer.
LEMMA MoveOnWoken ==
    ASSUME Woken, NEW i \in Instance, Exists(inst[i]), UNCHANGED <<task, timer>>,
           \/ \E to, context : Move(i, to, context)
           \/ \E status \in {"SUCCEEDED", "FAILED"} : Finish(i, status)
    PROVE  ParkedHasWakeup'
<1>1. TypeOK /\ ParkedHasWakeup
  BY DEF Woken, Linked
<1>2. inst'[i].status # "WAITING" /\ \A j \in Instance : j # i => inst'[j] = inst[j]
  BY <1>1, Leaves
<1>3. \A j \in Instance : TasksStay(j) /\ TimersStay(j)
  BY <1>1, RowsStayOpen
<1>4. QED
  BY <1>1, <1>2, <1>3, WakeupFrame

\* A consumed signal, or an end step, leaves no instance parked without a wake-up.
LEMMA SignalWoken ==
    ASSUME Woken
    PROVE  /\ \A i \in Instance : EnterWaitEarlySignal(i) \/ EnterEnd(i) => ParkedHasWakeup'
           /\ \A s \in SignalId : ApplyPendingSignal(s) => ParkedHasWakeup'
<1>1. TypeOK /\ RowsLinked
  BY DEF Woken, Linked
<1>2. ASSUME NEW i \in Instance, EnterWaitEarlySignal(i) PROVE ParkedHasWakeup'
  BY <1>1, <1>2, RunnableAt, MoveOnWoken DEF EnterWaitEarlySignal, ApplySignal
<1>3. ASSUME NEW i \in Instance, EnterEnd(i) PROVE ParkedHasWakeup'
  BY <1>1, <1>3, RunnableAt, MoveOnWoken DEF EnterEnd
<1>4. ASSUME NEW s \in SignalId, ApplyPendingSignal(s) PROVE ParkedHasWakeup'
  <2> DEFINE i == signal[s].inst
  <2>1. i \in Instance /\ Exists(inst[i])
    BY SMTT(30), <1>1, <1>4, RowsExist DEF ApplyPendingSignal, RowsLinked, Exists, SignalRow
  <2>2. UNCHANGED <<task, timer>>
    BY <1>4 DEF ApplyPendingSignal
  <2>3. UNCHANGED inst \/ Move(i, StepOf(i).next, inst[i].context)
    BY <1>4 DEF ApplyPendingSignal, ApplySignal
  <2>4. QED
    BY SMTT(30), <2>1, <2>2, <2>3, QuietWoken, MoveOnWoken
<1>5. QED
  BY <1>2, <1>3, <1>4

-----------------------------------------------------------------------------
(* The queue: a task handed out, kept, taken back or aged stays open.      *)

\* Leases, heartbeats, the sweeper and the clock close no task and fire no timer.
LEMMA StaysOpen ==
    ASSUME TypeOK
    PROVE  /\ \A t \in TaskId, token \in Token :
                 LeaseTask(t, token) => \A u \in TaskId : Open(u) => Open(u)'
           /\ \A d \in Delivery : HeartbeatTask(d) => \A u \in TaskId : Open(u) => Open(u)'
           /\ ExpireLeases => \A u \in TaskId : Open(u) => Open(u)'
           /\ Tick => /\ \A u \in TaskId : Open(u) => Open(u)'
                      /\ \A tm \in TimerId : Armed(tm) => Armed(tm)'
<1>1. /\ \A t \in TaskId : task[t].status # "ABSENT" => task[t] \in TaskRow
      /\ \A tm \in TimerId : timer[tm].status # "ABSENT" => timer[tm] \in TimerRow
  BY RowsExist
<1>2. ASSUME NEW t \in TaskId, NEW token \in Token, LeaseTask(t, token),
             NEW u \in TaskId, Open(u)
      PROVE  Open(u)'
  BY <1>1, <1>2 DEF LeaseTask, Open, TypeOK, TaskRow
<1>3. ASSUME NEW d \in Delivery, HeartbeatTask(d), NEW u \in TaskId, Open(u)
      PROVE  Open(u)'
  BY <1>1, <1>3 DEF HeartbeatTask, Open, TypeOK, TaskRow, Delivery
<1>4. ASSUME ExpireLeases, NEW u \in TaskId, Open(u) PROVE Open(u)'
  BY <1>1, <1>4 DEF ExpireLeases, Expired, Open, TypeOK, TaskRow
<1>5. ASSUME Tick, NEW u \in TaskId, Open(u) PROVE Open(u)'
  <2>1. task'[u] = [task[u] EXCEPT !.visibleIn = Less(@), !.expiresIn = Less(@)]
    BY <1>5 DEF Tick
  <2>2. QED
    BY <1>1, <1>5, <2>1 DEF Open, TaskRow
<1>6. ASSUME Tick, NEW tm \in TimerId, Armed(tm) PROVE Armed(tm)'
  <2>1. timer'[tm] = [timer[tm] EXCEPT !.fireIn = Less(@)]
    BY <1>6 DEF Tick
  <2>2. QED
    BY <1>1, <1>6, <2>1 DEF Armed, TimerRow
<1>7. QED
  BY <1>2, <1>3, <1>4, <1>5, <1>6

\* Hence they lose no wake-up.
LEMMA QueueWoken ==
    ASSUME Woken,
           \/ \E t \in TaskId, token \in Token : LeaseTask(t, token)
           \/ \E d \in Delivery : HeartbeatTask(d)
           \/ ExpireLeases
           \/ Tick
    PROVE  ParkedHasWakeup'
<1>1. TypeOK /\ ParkedHasWakeup
  BY DEF Woken, Linked
<1>2. UNCHANGED inst /\ (UNCHANGED timer \/ Tick)
  BY DEF LeaseTask, HeartbeatTask, ExpireLeases, Tick
<1>3. TasksKept /\ \A t \in TaskId : Open(t) => Open(t)'
  BY <1>1, QueueKept, StaysOpen
<1>4. TimersKept /\ \A tm \in TimerId : Armed(tm) => Armed(tm)'
  BY <1>1, <1>2, UnchangedKept, TimerAndSignalKept, StaysOpen DEF Armed
<1>5. \A j \in Instance : TasksStay(j) /\ TimersStay(j)
  BY <1>1, <1>3, <1>4, RowsStayOpen
<1>6. QED
  BY <1>1, <1>2, <1>5, WakeupFrame

-----------------------------------------------------------------------------
(* Results and timers.                                                     *)

\* A step that settles task t, and takes t's instance off its step if it is
\* parked on t's step: nobody else waits for t.
LEMMA SettleWoken ==
    ASSUME Woken, NEW t \in TaskId, Exists(task[t]), UNCHANGED timer,
           NEW noop, NEW status \in {"DONE", "FAILED"}, Settle(t, noop, status),
           \/ ~Parked(task[t].inst, task[t].step) /\ UNCHANGED inst
           \/ \E to, context : Move(task[t].inst, to, context)
           \/ Finish(task[t].inst, "FAILED")
    PROVE  ParkedHasWakeup'
<1> DEFINE i == task[t].inst
<1>1. TypeOK /\ ParkedHasWakeup /\ i \in Instance /\ Exists(inst[i])
  BY TaskRefers DEF Woken
<1>2. \A u \in TaskId : u # t => task'[u] = task[u]
  BY <1>1 DEF Settle, TypeOK
<1>3. ASSUME NEW j \in Instance, inst'[j].status = "WAITING"
      PROVE  inst'[j] = inst[j] /\ ~OfThisVisit(j, task[t])
  <2>1. CASE ~Parked(i, task[t].step) /\ UNCHANGED inst
    BY <1>3, <2>1 DEF OfThisVisit, Parked
  <2>2. CASE inst'[i].status # "WAITING" /\ \A k \in Instance : k # i => inst'[k] = inst[k]
    BY SMTT(30), <1>3, <2>2 DEF OfThisVisit
  <2>3. QED
    BY <1>1, <2>1, <2>2, Leaves
<1>4. ASSUME NEW j \in Instance, inst'[j].status = "WAITING"
      PROVE  TasksStay(j) /\ TimersStay(j)
  BY <1>1, <1>2, <1>3, <1>4, RowsStayOpen DEF TasksStay, Open
<1>5. QED
  BY <1>1, <1>3, <1>4, WakeupFrame

\* A task is closed by a result only when its instance moves on, or was not parked
\* on it.
LEMMA ResultWoken ==
    ASSUME Woken
    PROVE  /\ \A d \in Delivery : OnTaskComplete(d) => ParkedHasWakeup'
           /\ \A c \in calls : OnTaskFail(c) => ParkedHasWakeup'
<1>1. TypeOK /\ RowsLinked /\ Linked /\ ParkedHasWakeup
  BY DEF Woken, Linked
<1>2. ASSUME NEW d \in Delivery, OnTaskComplete(d) PROVE ParkedHasWakeup'
  <2> DEFINE t == d.task
  <2>1. t \in TaskId /\ Exists(task[t])
    BY SMTT(30), <1>1, <1>2 DEF OnTaskComplete, RowsLinked, Delivery
  <2>2. /\ UNCHANGED timer /\ Settle(t, CompleteNoop, "DONE")
        /\ \/ ~Parked(task[t].inst, task[t].step) /\ UNCHANGED inst
           \/ \E to, context : Move(task[t].inst, to, context)
    BY <1>2 DEF OnTaskComplete
  <2> HIDE DEF t
  <2>3. QED
    BY SMTT(30), <2>1, <2>2, SettleWoken
<1>3. ASSUME NEW c \in calls, OnTaskFail(c) PROVE ParkedHasWakeup'
  <2> DEFINE t == c.task
  <2>1. t \in TaskId /\ Exists(task[t]) /\ c.attempt \in Nat
    BY <1>1 DEF TypeOK, RowsLinked, FailCall
  <2>2. CASE FailStale(c)
    <3>1. /\ UNCHANGED timer /\ Settle(t, FailNoop, "FAILED")
          /\ ~Parked(task[t].inst, task[t].step) /\ UNCHANGED inst
      BY <2>2 DEF FailStale
    <3> HIDE DEF t
    <3>2. QED
      BY <2>1, <3>1, SettleWoken
  <2>3. ASSUME NEW retryable \in BOOLEAN, NEW ticks \in Backoff,
               FailRetry(c, retryable, ticks)
        PROVE  ParkedHasWakeup'
    <3>1. RequeueTask(t, c.attempt + 1, ticks) /\ UNCHANGED <<inst, timer>>
      BY <2>3 DEF FailRetry
    <3>2. ticks \in Nat /\ c.attempt + 1 \in Nat \ {0}
      BY SMTT(30), <2>1, TimeAssumption
    <3> HIDE DEF t
    <3>3. TasksKept
      BY <1>1, <2>1, <3>1, <3>2, SettleKept
    <3>4. task[t] \in TaskRow
      BY <1>1, <2>1, RowsExist DEF Exists
    <3>5. \A u \in TaskId : Open(u) => Open(u)'
      BY <1>1, <2>1, <3>1, <3>4 DEF RequeueTask, Open, TypeOK, TaskRow
    <3>6. \A j \in Instance : TasksStay(j) /\ TimersStay(j)
      BY <1>1, <3>1, <3>3, <3>5, RowsStayOpen
    <3>7. QED
      BY <1>1, <3>1, <3>6, WakeupFrame
  <2>4. ASSUME NEW retryable \in BOOLEAN, FailTerminal(c, retryable)
        PROVE  ParkedHasWakeup'
    <3>1. /\ UNCHANGED timer /\ Settle(t, FailNoop, "FAILED")
          /\ Finish(task[t].inst, "FAILED")
      BY <2>4 DEF FailTerminal
    <3> HIDE DEF t
    <3>2. QED
      BY <2>1, <3>1, SettleWoken
  <2>5. QED
    BY SMTT(30), <1>3, <2>2, <2>3, <2>4 DEF OnTaskFail
<1>4. QED
  BY <1>2, <1>3

\* A timer that fires moves on the instance that is parked on it, and no other
\* wake-up is lost.
LEMMA TimerWoken ==
    ASSUME Woken, NEW l \in Loop, NEW tm \in TimerId, OnTimerFired(l, tm)
    PROVE  ParkedHasWakeup'
<1> DEFINE i == timer[tm].inst
           s == timer[tm].step
<1>1. TypeOK /\ RowsLinked /\ Linked /\ ParkedHasWakeup
  BY DEF Woken, Linked
<1>2. Exists(timer[tm])
  BY <1>1 DEF OnTimerFired, RowsLinked
<1>3. i \in Instance /\ Exists(inst[i])
  BY <1>1, <1>2, TimerRefers
<1>4. /\ UNCHANGED task
      /\ \A n \in TimerId : n # tm => timer'[n] = timer[n]
      /\ \/ ~Parked(i, s) /\ UNCHANGED inst
         \/ \E to, context : Move(i, to, context)
  BY <1>1 DEF OnTimerFired, TypeOK
<1>5. ASSUME NEW j \in Instance, inst'[j].status = "WAITING"
      PROVE  inst'[j] = inst[j] /\ ~OfThisVisit(j, timer[tm])
  <2>1. CASE ~Parked(i, s) /\ UNCHANGED inst
    BY <1>5, <2>1 DEF OfThisVisit, Parked
  <2>2. CASE inst'[i].status # "WAITING" /\ \A k \in Instance : k # i => inst'[k] = inst[k]
    BY SMTT(30), <1>5, <2>2 DEF OfThisVisit
  <2>3. QED
    BY <1>1, <1>3, <1>4, <2>1, <2>2, Leaves
<1>6. ASSUME NEW j \in Instance, inst'[j].status = "WAITING"
      PROVE  TasksStay(j) /\ TimersStay(j)
  BY <1>1, <1>4, <1>5, <1>6, RowsStayOpen DEF TimersStay, Armed
<1>7. QED
  BY <1>1, <1>5, <1>6, WakeupFrame

-----------------------------------------------------------------------------
\* In an empty database no instance is parked.
LEMMA InitWoken == Init => Woken
<1>1. Init => ParkedHasWakeup
  BY SMTT(30) DEF Init, ParkedHasWakeup, NoRow
<1>2. QED
  BY <1>1, InitLinked DEF Woken

\* No step of the kernel loses a wake-up.
LEMMA NextWoken == Woken /\ [Next]_vars => Woken'
<1> SUFFICES ASSUME Woken, [Next]_vars PROVE ParkedHasWakeup'
  BY NextLinked DEF Woken
<1>1. CASE UNCHANGED vars
  BY <1>1, QuietWoken DEF vars
<1>2. ASSUME NEW i \in Instance,
             \/ \E key \in Key : StartInstance(i, key)
             \/ RecordStart(i) \/ AbortStart(i) \/ Advance(i)
             \/ \E name \in Name, s \in SignalId : AppendSignal(i, name, s)
      PROVE  ParkedHasWakeup'
  <2>1. CASE RecordStart(i) \/ AbortStart(i)
             \/ \E name \in Name, s \in SignalId : AppendSignal(i, name, s)
    BY <2>1, QuietWoken DEF RecordStart, AbortStart, AppendSignal, stored
  <2>2. QED
    BY <1>2, <2>1, StartWoken, ActivityWoken, WaitAndSleepWoken, SignalWoken DEF Advance
<1>3. ASSUME NEW d \in Delivery,
             \/ HeartbeatTask(d) \/ OnTaskComplete(d)
             \/ ReadFailingTask(d) \/ ForgetDelivery(d)
      PROVE  ParkedHasWakeup'
  <2>1. CASE ReadFailingTask(d) \/ ForgetDelivery(d)
    BY <2>1, QuietWoken DEF ReadFailingTask, ForgetDelivery, stored
  <2>2. QED
    BY <1>3, <2>1, QueueWoken, ResultWoken
<1>4. ASSUME NEW c \in calls, OnTaskFail(c) \/ AbortFail(c) PROVE ParkedHasWakeup'
  <2>1. CASE AbortFail(c)
    BY <2>1, QuietWoken DEF AbortFail, stored
  <2>2. QED
    BY <1>4, <2>1, ResultWoken
<1>5. ASSUME NEW s \in SignalId, SignalInstance(s) \/ ApplyPendingSignal(s) \/ AbortSignal(s)
      PROVE  ParkedHasWakeup'
  <2>1. CASE SignalInstance(s) \/ AbortSignal(s)
    BY <2>1, QuietWoken DEF SignalInstance, AbortSignal, stored
  <2>2. QED
    BY <1>5, <2>1, SignalWoken
<1>6. ASSUME NEW l \in Loop,
             \/ ListDueTimers(l) \/ AbortBatch(l)
             \/ \E tm \in TimerId : OnTimerFired(l, tm)
      PROVE  ParkedHasWakeup'
  <2>1. CASE ListDueTimers(l) \/ AbortBatch(l)
    BY <2>1, QuietWoken DEF ListDueTimers, AbortBatch, stored
  <2>2. QED
    BY <1>6, <2>1, TimerWoken
<1>7. CASE \/ \E t \in TaskId, token \in Token : LeaseTask(t, token)
           \/ ExpireLeases \/ Tick
  BY <1>7, QueueWoken
<1>8. QED
  BY <1>1, <1>2, <1>3, <1>4, <1>5, <1>6, <1>7 DEF Next

\* No wake-up is ever lost (ParkedHasWakeup), whatever the definition, cycles
\* included, and however workers, timers, signals, the sweeper and crashes
\* interleave: a parked instance's own task is open, or its own timer armed.
THEOREM NoLostWakeup == Spec => []ParkedHasWakeup
<1>1. Init => Woken
  BY InitWoken
<1>2. Woken /\ [Next]_vars => Woken'
  BY NextWoken
<1>3. Woken => ParkedHasWakeup
  BY DEF Woken
<1>4. QED
  BY <1>1, <1>2, <1>3, PTL DEF Spec

-----------------------------------------------------------------------------
(* The graph of a definition.                                              *)

\* No step leads back to itself: in every set of steps some step leads out.
Acyclic ==
    \A S \in SUBSET StepId :
        S # {} => \E s \in S : Successors(Def.steps, s) \cap S = {}

\* The steps a run may be at after it has left s: those in every closed set that
\* holds the successors of s.
After(s) ==
    {u \in StepId : \A S \in SUBSET StepId :
                        Successors(Def.steps, s) \subseteq S /\ Closed(Def.steps, S)
                            => u \in S}

\* Every step a run may take from s, or from a step after s, leads to one after s.
LEMMA AfterSteps ==
    ASSUME NEW s \in StepId, NEW v \in StepId
    PROVE  /\ v \in Successors(Def.steps, s) => v \in After(s)
           /\ \A u \in After(s) : v \in Successors(Def.steps, u) => v \in After(s)
  BY DEF After, Closed

\* After(s) is itself closed.
LEMMA AfterClosed ==
    ASSUME NEW s \in StepId
    PROVE  /\ After(s) \in SUBSET StepId
           /\ \A u \in StepId : Successors(Def.steps, u) \subseteq StepId
           /\ Successors(Def.steps, s) \subseteq After(s)
           /\ Closed(Def.steps, After(s))
<1>1. After(s) \in SUBSET StepId
  BY DEF After
<1>2. ASSUME NEW u \in StepId
      PROVE  Successors(Def.steps, u) \subseteq StepId
  <2>1. Def.steps[u] \in Step(StepId, Name)
    BY DefinitionAssumption
  <2>2. QED
    BY <2>1 DEF Successors, Step
<1>3. QED
  BY <1>1, <1>2, AfterSteps DEF Closed

\* Without cycles a step is not after itself.
LEMMA NeverAgain ==
    ASSUME Acyclic, NEW s \in StepId
    PROVE  s \notin After(s)
<1> SUFFICES ASSUME s \in After(s)
             PROVE  FALSE
  OBVIOUS
<1> DEFINE C == {u \in After(s) : s \in After(u)}
<1>1. s \in C /\ C \in SUBSET StepId
  BY AfterClosed
<1>2. PICK u \in C : Successors(Def.steps, u) \cap C = {}
  BY <1>1 DEF Acyclic
<1>3. u \in StepId /\ u \in After(s) /\ s \in After(u)
  BY <1>1, <1>2
<1> DEFINE S == {x \in StepId : \E v \in Successors(Def.steps, u) : x = v \/ x \in After(v)}
<1>4. S \in SUBSET StepId
  OBVIOUS
<1>5. Successors(Def.steps, u) \subseteq S
  BY <1>3, AfterClosed
<1>6. Closed(Def.steps, S)
  <2> SUFFICES ASSUME NEW x \in S, NEW y \in Successors(Def.steps, x)
               PROVE  y \in S
    BY DEF Closed
  <2>1. PICK v \in Successors(Def.steps, u) : x = v \/ x \in After(v)
    OBVIOUS
  <2>2. v \in StepId /\ x \in StepId /\ y \in StepId
    BY <1>3, <1>4, <2>1, AfterClosed
  <2>3. y \in After(v)
    BY <2>1, <2>2, AfterSteps
  <2>4. QED
    BY <2>1, <2>2, <2>3
<1>7. s \in S
  BY <1>3, <1>4, <1>5, <1>6 DEF After
<1>8. PICK v \in Successors(Def.steps, u) : s = v \/ s \in After(v)
  BY <1>7
<1>9. v \in StepId /\ v \in After(s)
  BY <1>3, AfterClosed, AfterSteps
<1>10. s \in After(v)
  BY <1>8
<1>11. v \in C
  BY <1>9, <1>10
<1>12. QED
  BY <1>2, <1>11

-----------------------------------------------------------------------------
(* Where a step of the kernel takes an instance.                           *)

Walks(i) ==
    \/ inst'[i] = inst[i]
    \/ ~Exists(inst[i])
    \/ /\ inst[i].status = "RUNNABLE" /\ inst'[i].status = "WAITING"
       /\ inst'[i].step = inst[i].step
       /\ inst'[i].rowVersion = inst[i].rowVersion + 1
    \/ /\ inst'[i].status = "RUNNABLE"
       /\ inst'[i].step \in Successors(Def.steps, inst[i].step)
    \/ /\ inst[i].status = "RUNNABLE" /\ inst'[i].status = "SUCCEEDED"
       /\ inst'[i].step = inst[i].step
    \/ /\ inst[i].status = "WAITING" /\ inst'[i].status = "FAILED"
       /\ inst'[i].step = inst[i].step

\* An instance stays, parks, follows an edge of the definition, or ends.
LEMMA NextWalks ==
    ASSUME Linked, [Next]_vars, NEW i \in Instance
    PROVE  Walks(i)
<1>1. TypeOK
  BY DEF Linked
<1>2. CASE Quiet
  BY <1>2 DEF Quiet, Walks
<1>3. ASSUME NEW j \in Instance, NEW key \in Key, StartInstance(j, key)
      PROVE  Walks(i)
  BY <1>1, <1>3 DEF StartInstance, TypeOK, Walks
<1>4. ASSUME NEW j \in Instance, RecordStart(j)
      PROVE  Walks(i)
  BY <1>4 DEF RecordStart, Walks
<1>5. ASSUME NEW j \in Instance, NEW name \in Name, NEW s \in SignalId, AppendSignal(j, name, s)
      PROVE  Walks(i)
  BY <1>5 DEF AppendSignal, Walks
<1>6. ASSUME Exists(inst[i]), Shape(i)
      PROVE  Walks(i)
  <2>1. CASE EntersSilently(i) \/ \E e : EntersBy(i, e)
    BY <1>1, <1>6, <2>1, Parks DEF EntersSilently, EntersBy, Walks
  <2>2. ASSUME NEW e, MovesBy(i, e)
        PROVE  Walks(i)
    <3>1. PICK to \in StepId : SendsTo(e, to) /\ Move(i, to, ContextAfter(i, e))
      BY <2>2 DEF MovesBy
    <3>2. inst'[i].status = "RUNNABLE" /\ inst'[i].step = to
      BY <1>1, <1>6, <3>1, Moved
    <3>3. e.step = inst[i].step /\ to # NoStep
      BY <2>2, DefinitionAssumption DEF MovesBy
    <3>4. to \in Successors(Def.steps, inst[i].step)
      BY <3>1, <3>3 DEF SendsTo, Successors
    <3>5. QED
      BY <3>2, <3>4 DEF Walks
  <2>3. CASE EnterEnd(i)
    BY <1>1, <1>6, <2>3, Finished DEF EnterEnd, Runnable, Walks
  <2>4. ASSUME NEW t, FailsBy(i, t)
        PROVE  Walks(i)
    BY <1>1, <1>6, <2>4, Finished DEF FailsBy, Walks
  <2>5. ASSUME NEW t, RetriesBy(i, t)
        PROVE  Walks(i)
    BY <2>5 DEF RetriesBy, Walks
  <2>6. QED
    BY <1>6, <2>1, <2>2, <2>3, <2>4, <2>5 DEF Shape
<1>7. ASSUME NEW j \in Instance, j # i, Exists(inst[j]), Shape(j)
      PROVE  Walks(i)
  BY <1>7, ShapeFrame DEF Walks
<1>8. QED
  BY <1>2, <1>3, <1>4, <1>5, <1>6, <1>7, NextShapes

-----------------------------------------------------------------------------
(* What a step of the kernel does to a task.                               *)

\* The task keeps what it is for.
SameTask(t) ==
    /\ Exists(task'[t]) <=> Exists(task[t])
    /\ Exists(task[t]) => /\ task'[t].inst = task[t].inst
                          /\ task'[t].step = task[t].step
                          /\ task'[t].visit = task[t].visit
                          /\ task'[t].payload = task[t].payload

\* The task is only leased, kept or given back.
HeldTask(t) ==
    /\ SameTask(t)
    /\ task'[t].attempt = task[t].attempt
    /\ Open(t)' <=> Open(t)
    /\ ~Open(t) => task'[t] = task[t]

\* The task is settled, unless it was.
SettledTask(t) ==
    /\ SameTask(t)
    /\ task'[t].attempt = task[t].attempt
    /\ Open(t) => task'[t].status \in {"DONE", "FAILED"}
    /\ ~Open(t)'

\* A task that is not touched is held.
LEMMA UntouchedTask ==
    ASSUME NEW t \in TaskId, task'[t] = task[t]
    PROVE  HeldTask(t)
  BY DEF HeldTask, SameTask, Open

\* A row that is there is no absent one.
LEMMA TaskThere ==
    ASSUME TypeOK, NEW t \in TaskId
    PROVE  /\ task[t] \in TaskRow => Exists(task[t])
           /\ Open(t) => Exists(task[t])
           /\ Exists(task[t]) => task[t] \in TaskRow
           /\ Exists(task[t]) /\ ~Open(t) => task[t].status \in {"DONE", "FAILED"}
<1>1. task[t] \in TaskRow => Exists(task[t])
  BY SMTT(30) DEF TaskRow, Exists, NoRow
<1>2. Open(t) => Exists(task[t])
  BY SMTT(30) DEF Open, Exists, NoRow
<1>3. Exists(task[t]) => task[t] \in TaskRow
  BY RowsExist DEF Exists
<1>4. Exists(task[t]) /\ ~Open(t) => task[t].status \in {"DONE", "FAILED"}
  BY <1>3 DEF TaskRow, Open
<1>5. QED
  BY <1>1, <1>2, <1>3, <1>4

\* An open row that stays open, with the same key and attempt, is held.
LEMMA RowHeld ==
    ASSUME TypeOK, NEW t \in TaskId, Open(t), NEW row, task'[t] = row,
           row.status \in {"QUEUED", "LEASED"}, row.inst = task[t].inst,
           row.step = task[t].step, row.visit = task[t].visit,
           row.payload = task[t].payload, row.attempt = task[t].attempt
    PROVE  HeldTask(t)
<1>1. Exists(task[t]) /\ Exists(task'[t])
  <2>1. Exists(task[t])
    BY TaskThere
  <2>2. Exists(row)
    BY SMTT(30) DEF Exists, NoRow
  <2>3. QED
    BY <2>1, <2>2
<1>2. Open(t)'
  BY DEF Open
<1>3. QED
  BY <1>1, <1>2 DEF HeldTask, SameTask

\* Leases, heartbeats, the sweeper and the clock hold every task.
LEMMA QueueHolds ==
    ASSUME TypeOK, NEW u \in TaskId
    PROVE  /\ \A t \in TaskId, token \in Token : LeaseTask(t, token) => HeldTask(u)
           /\ \A d \in Delivery : HeartbeatTask(d) => HeldTask(u)
           /\ ExpireLeases => HeldTask(u)
           /\ Tick => HeldTask(u)
<1>1. Open(u) => task[u] \in TaskRow
  BY TaskThere
<1>2. ASSUME NEW t \in TaskId, NEW token \in Token, LeaseTask(t, token)
      PROVE  HeldTask(u)
  <2> DEFINE row == [task[t] EXCEPT !.status = "LEASED", !.token = token,
                                    !.expiresIn = LeaseFor]
  <2>1. CASE u = t
    <3>1. Open(u) /\ task'[u] = row
      BY <1>2, <2>1 DEF LeaseTask, Open, TypeOK
    <3>2. /\ row.status = "LEASED" /\ row.inst = task[u].inst
          /\ row.step = task[u].step /\ row.visit = task[u].visit
          /\ row.payload = task[u].payload /\ row.attempt = task[u].attempt
      BY <1>1, <2>1, <3>1 DEF TaskRow
    <3> HIDE DEF row
    <3>3. QED
      BY <3>1, <3>2, RowHeld
  <2>2. CASE u # t
    BY <1>2, <2>2, UntouchedTask DEF LeaseTask, TypeOK
  <2>3. QED
    BY <2>1, <2>2
<1>3. ASSUME NEW d \in Delivery, HeartbeatTask(d)
      PROVE  HeldTask(u)
  <2> DEFINE row == [task[d.task] EXCEPT !.expiresIn = LeaseFor]
  <2>1. CASE u = d.task
    <3>1. Open(u) /\ task[u].status = "LEASED" /\ task'[u] = row
      BY <1>3, <2>1 DEF HeartbeatTask, Open, TypeOK
    <3>2. /\ row.status = "LEASED" /\ row.inst = task[u].inst
          /\ row.step = task[u].step /\ row.visit = task[u].visit
          /\ row.payload = task[u].payload /\ row.attempt = task[u].attempt
      BY <1>1, <2>1, <3>1 DEF TaskRow
    <3> HIDE DEF row
    <3>3. QED
      BY <3>1, <3>2, RowHeld
  <2>2. CASE u # d.task
    BY <1>3, <2>2, UntouchedTask DEF HeartbeatTask, TypeOK
  <2>3. QED
    BY <2>1, <2>2
<1>4. ASSUME ExpireLeases
      PROVE  HeldTask(u)
  <2> DEFINE row == [task[u] EXCEPT !.status = "QUEUED", !.token = NoToken, !.expiresIn = 0]
  <2>1. CASE Expired(u)
    <3>1. Open(u) /\ task'[u] = row
      BY <1>4, <2>1 DEF ExpireLeases, Expired, Open
    <3>2. /\ row.status = "QUEUED" /\ row.inst = task[u].inst
          /\ row.step = task[u].step /\ row.visit = task[u].visit
          /\ row.payload = task[u].payload /\ row.attempt = task[u].attempt
      BY <1>1, <3>1 DEF TaskRow
    <3> HIDE DEF row
    <3>3. QED
      BY <3>1, <3>2, RowHeld
  <2>2. CASE ~Expired(u)
    BY <1>4, <2>2, UntouchedTask DEF ExpireLeases
  <2>3. QED
    BY <2>1, <2>2
<1>5. ASSUME Tick
      PROVE  HeldTask(u)
  <2> DEFINE row == [task[u] EXCEPT !.visibleIn = Less(@), !.expiresIn = Less(@)]
  <2>1. CASE Open(u)
    <3>1. task'[u] = row
      BY <1>5, <2>1 DEF Tick
    <3>2. /\ row.status \in {"QUEUED", "LEASED"} /\ row.inst = task[u].inst
          /\ row.step = task[u].step /\ row.visit = task[u].visit
          /\ row.payload = task[u].payload /\ row.attempt = task[u].attempt
      BY <1>1, <2>1 DEF TaskRow, Open
    <3> HIDE DEF row
    <3>3. QED
      BY <2>1, <3>1, <3>2, RowHeld
  <2>2. CASE ~Open(u)
    BY <1>5, <2>2, UntouchedTask DEF Tick
  <2>3. QED
    BY <2>1, <2>2
<1>6. QED
  BY <1>2, <1>3, <1>4, <1>5

\* CompleteTask and FailTask settle one task and hold the others.
LEMMA SettleHolds ==
    ASSUME TypeOK, NEW t \in TaskId, Exists(task[t]), NEW noop,
           noop \subseteq {"DONE", "FAILED"}, NEW status \in {"DONE", "FAILED"},
           Settle(t, noop, status)
    PROVE  /\ SettledTask(t)
           /\ \A u \in TaskId : u # t => HeldTask(u)
<1>1. task[t] \in TaskRow
  BY TaskThere
<1>2. CASE task[t].status \in noop
  <2>1. task' = task /\ ~Open(t)
    BY <1>2 DEF Settle, Open
  <2>2. QED
    BY <2>1, UntouchedTask DEF SettledTask, HeldTask
<1>3. CASE task[t].status \notin noop
  <2> DEFINE row == [task[t] EXCEPT !.status = status]
  <2>1. task'[t] = row /\ \A u \in TaskId : u # t => task'[u] = task[u]
    BY <1>3 DEF Settle, TypeOK
  <2>2. /\ row.status = status /\ row.inst = task[t].inst /\ row.step = task[t].step
        /\ row.visit = task[t].visit /\ row.payload = task[t].payload
        /\ row.attempt = task[t].attempt
    BY <1>1 DEF TaskRow
  <2> HIDE DEF row
  <2>3. Exists(row)
    BY SMTT(30), <2>2 DEF Exists, NoRow
  <2>4. SettledTask(t)
    BY <2>1, <2>2, <2>3 DEF SettledTask, SameTask, Open
  <2>5. QED
    BY <2>1, <2>4, UntouchedTask
<1>4. QED
  BY <1>2, <1>3

\* RequeueTask puts an open task back in the queue and holds the others.
LEMMA RequeueHolds ==
    ASSUME TypeOK, NEW t \in TaskId, Exists(task[t]), NEW attempt, NEW ticks,
           RequeueTask(t, attempt, ticks)
    PROVE  /\ SameTask(t)
           /\ Open(t) => /\ task'[t].status = "QUEUED"
                         /\ task'[t].attempt = attempt
                         /\ task'[t].token = NoToken
           /\ \A u \in TaskId : u # t => HeldTask(u)
<1>1. task[t] \in TaskRow
  BY TaskThere
<1>2. CASE task[t].status \in RequeueNoop
  <2>1. task' = task /\ ~Open(t)
    BY <1>2 DEF RequeueTask, RequeueNoop, Open
  <2>2. QED
    BY <2>1, UntouchedTask DEF HeldTask
<1>3. CASE task[t].status \notin RequeueNoop
  <2> DEFINE row == [task[t] EXCEPT !.status = "QUEUED", !.attempt = attempt,
                                    !.visibleIn = ticks, !.token = NoToken, !.expiresIn = 0]
  <2>1. task'[t] = row /\ \A u \in TaskId : u # t => task'[u] = task[u]
    BY <1>3 DEF RequeueTask, TypeOK
  <2>2. /\ row.status = "QUEUED" /\ row.inst = task[t].inst /\ row.step = task[t].step
        /\ row.visit = task[t].visit /\ row.payload = task[t].payload
        /\ row.attempt = attempt /\ row.token = NoToken
    BY <1>1 DEF TaskRow
  <2> HIDE DEF row
  <2>3. Exists(row)
    BY SMTT(30), <2>2 DEF Exists, NoRow
  <2>4. QED
    BY <2>1, <2>2, <2>3, UntouchedTask DEF SameTask
<1>4. QED
  BY <1>2, <1>3

\* A task that enterStep has just enqueued for i.
FreshTask(i, t) ==
    /\ Exists(inst[i]) /\ inst[i].status = "RUNNABLE" /\ Park(i)
    /\ ~Exists(task[t])
    /\ Exists(task'[t])
    /\ task'[t].status = "QUEUED"
    /\ task'[t].inst = i
    /\ task'[t].step = inst[i].step
    /\ task'[t].visit = inst[i].rowVersion
    /\ task'[t].payload = inst[i].context
    /\ task'[t].attempt = 1
    /\ task'[t].token = NoToken

\* enterStep on an activity enqueues one task: the key is never taken.
LEMMA EnqueueFresh ==
    ASSUME Linked, NEW i \in Instance, EnterActivity(i)
    PROVE  \E t \in TaskId :
              /\ FreshTask(i, t)
              /\ \A u \in TaskId : u # t => task'[u] = task[u] /\ HeldTask(u)
<1>1. PICK row \in TaskRow : /\ TaskAdded(row)
                             /\ row.status = "QUEUED"
                             /\ row.inst = i
                             /\ row.step = inst[i].step
                             /\ row.visit = inst[i].rowVersion
                             /\ row.payload = inst[i].context
                             /\ row.attempt = 1
                             /\ row.token = NoToken
  BY EnqueueAdds
<1>2. PICK t \in TaskId : ~Exists(task[t]) /\ task' = [task EXCEPT ![t] = row]
  BY <1>1 DEF TaskAdded
<1>3. task'[t] = row /\ \A u \in TaskId : u # t => task'[u] = task[u]
  BY <1>2 DEF Linked, TypeOK
<1>4. Exists(row)
  BY SMTT(30), <1>1 DEF Exists, NoRow
<1>5. Exists(inst[i]) /\ inst[i].status = "RUNNABLE" /\ Park(i)
  BY DEF EnterActivity, Runnable
<1>6. FreshTask(i, t)
  BY <1>1, <1>2, <1>3, <1>4, <1>5 DEF FreshTask
<1>7. QED
  BY <1>3, <1>6, UntouchedTask

\* The handlers that do more to a task than to lease it, keep it or give it back.
LEMMA TaskSteps ==
    ASSUME Linked, [Next]_vars
    PROVE  \/ \A u \in TaskId : HeldTask(u)
           \/ \E i \in Instance : EnterActivity(i)
           \/ \E d \in Delivery : OnTaskComplete(d)
           \/ \E c \in calls : OnTaskFail(c)
<1>1. TypeOK
  BY DEF Linked
<1>2. ASSUME UNCHANGED task, NEW u \in TaskId
      PROVE  HeldTask(u)
  BY <1>2, UntouchedTask
<1>3. ASSUME NEW i \in Instance,
             \/ \E key \in Key : StartInstance(i, key)
             \/ RecordStart(i) \/ AbortStart(i)
             \/ EnterWaitEarlySignal(i) \/ EnterWait(i) \/ EnterSleep(i) \/ EnterEnd(i)
             \/ \E name \in Name, s \in SignalId : AppendSignal(i, name, s)
      PROVE  UNCHANGED task
  BY <1>3 DEF StartInstance, RecordStart, AbortStart, EnterWaitEarlySignal, EnterWait,
              EnterSleep, EnterEnd, AppendSignal, stored
<1>4. ASSUME NEW d \in Delivery, ReadFailingTask(d) \/ ForgetDelivery(d)
      PROVE  UNCHANGED task
  BY <1>4 DEF ReadFailingTask, ForgetDelivery, stored
<1>5. ASSUME NEW c \in calls, AbortFail(c)
      PROVE  UNCHANGED task
  BY <1>5 DEF AbortFail, stored
<1>6. ASSUME NEW s \in SignalId, SignalInstance(s) \/ ApplyPendingSignal(s) \/ AbortSignal(s)
      PROVE  UNCHANGED task
  BY <1>6 DEF ApplyPendingSignal, SignalInstance, AbortSignal, stored
<1>7. ASSUME NEW l \in Loop,
             ListDueTimers(l) \/ (\E tm \in TimerId : OnTimerFired(l, tm)) \/ AbortBatch(l)
      PROVE  UNCHANGED task
  BY <1>7 DEF ListDueTimers, OnTimerFired, AbortBatch, stored
<1>8. ASSUME UNCHANGED vars
      PROVE  UNCHANGED task
  BY <1>8 DEF vars
<1>9. QED
  BY <1>1, <1>2, <1>3, <1>4, <1>5, <1>6, <1>7, <1>8, QueueHolds DEF Next, Advance

\* What OnTaskComplete does to its task.
LEMMA CompleteSettles ==
    ASSUME Linked, NEW d \in Delivery, OnTaskComplete(d)
    PROVE  /\ d.task \in TaskId /\ Exists(task[d.task])
           /\ SettledTask(d.task)
           /\ \A u \in TaskId : u # d.task => HeldTask(u)
<1>1. d.task \in TaskId /\ Exists(task[d.task]) /\ Settle(d.task, CompleteNoop, "DONE") /\ TypeOK
  BY DEF OnTaskComplete, Delivery, Linked, RowsLinked
<1>2. CompleteNoop \subseteq {"DONE", "FAILED"}
  BY DEF CompleteNoop
<1>3. QED
  BY <1>1, <1>2, SettleHolds

\* What OnTaskFail does to its task.
LEMMA FailSettles ==
    ASSUME Linked, NEW c \in calls
    PROVE  /\ c.task \in TaskId /\ Exists(task[c.task]) /\ c \in FailCall
           /\ FailStale(c) \/ (\E retryable \in BOOLEAN : FailTerminal(c, retryable)) =>
                 /\ SettledTask(c.task)
                 /\ \A u \in TaskId : u # c.task => HeldTask(u)
           /\ \A retryable \in BOOLEAN, ticks \in Backoff : FailRetry(c, retryable, ticks) =>
                 /\ SameTask(c.task)
                 /\ Open(c.task) => /\ task'[c.task].status = "QUEUED"
                                    /\ task'[c.task].attempt = c.attempt + 1
                                    /\ task'[c.task].token = NoToken
                 /\ \A u \in TaskId : u # c.task => HeldTask(u)
<1>1. c.task \in TaskId /\ Exists(task[c.task]) /\ TypeOK /\ c \in FailCall
  BY DEF FailCall, Linked, TypeOK, RowsLinked
<1>2. FailNoop \subseteq {"DONE", "FAILED"}
  BY DEF FailNoop
<1>3. ASSUME FailStale(c) \/ \E retryable \in BOOLEAN : FailTerminal(c, retryable)
      PROVE  Settle(c.task, FailNoop, "FAILED")
  BY <1>3 DEF FailStale, FailTerminal
<1>4. ASSUME NEW retryable \in BOOLEAN, NEW ticks \in Backoff, FailRetry(c, retryable, ticks)
      PROVE  RequeueTask(c.task, c.attempt + 1, ticks)
  BY <1>4 DEF FailRetry
<1>5. QED
  BY <1>1, <1>2, <1>3, <1>4, SettleHolds, RequeueHolds

\* A task keeps what it is for, or has just been enqueued.
LEMMA NextTasks ==
    ASSUME Linked, [Next]_vars, NEW t \in TaskId
    PROVE  SameTask(t) \/ \E i \in Instance : EnterActivity(i) /\ FreshTask(i, t)
<1>1. CASE \A u \in TaskId : HeldTask(u)
  BY <1>1 DEF HeldTask
<1>2. ASSUME NEW i \in Instance, EnterActivity(i)
      PROVE  SameTask(t) \/ FreshTask(i, t)
  BY <1>2, EnqueueFresh DEF HeldTask
<1>3. ASSUME NEW d \in Delivery, OnTaskComplete(d)
      PROVE  SameTask(t)
  BY <1>3, CompleteSettles DEF HeldTask, SettledTask
<1>4. ASSUME NEW c \in calls, OnTaskFail(c)
      PROVE  SameTask(t)
  BY <1>4, FailSettles DEF OnTaskFail, HeldTask, SettledTask
<1>5. QED
  BY <1>1, <1>2, <1>3, <1>4, TaskSteps

-----------------------------------------------------------------------------
(* What a step of the kernel does to a timer.                              *)

SameTimer(tm) ==
    /\ Exists(timer'[tm]) <=> Exists(timer[tm])
    /\ Exists(timer[tm]) => /\ timer'[tm].inst = timer[tm].inst
                            /\ timer'[tm].step = timer[tm].step
                            /\ timer'[tm].visit = timer[tm].visit

\* A timer that enterStep has just created for i.
FreshTimer(i, tm) ==
    /\ Exists(inst[i]) /\ inst[i].status = "RUNNABLE" /\ Park(i)
    /\ ~Exists(timer[tm])
    /\ timer'[tm].inst = i
    /\ timer'[tm].step = inst[i].step
    /\ timer'[tm].visit = inst[i].rowVersion

\* enterStep on a sleep or a wait with a timeout creates one timer.
LEMMA CreateFresh ==
    ASSUME Linked, NEW i \in Instance, Exists(inst[i]), inst[i].status = "RUNNABLE", Park(i),
           NEW kind, NEW ticks, CreateTimer(i, kind, ticks)
    PROVE  \E tm \in TimerId : /\ FreshTimer(i, tm)
                               /\ \A x \in TimerId : x # tm => timer'[x] = timer[x]
<1> DEFINE row == [status |-> "PENDING", inst |-> i, step |-> inst[i].step,
                   kind |-> kind, visit |-> inst[i].rowVersion, fireIn |-> ticks]
<1>1. PICK tm \in TimerId : ~Exists(timer[tm]) /\ timer' = [timer EXCEPT ![tm] = row]
  BY DEF CreateTimer
<1>2. row.inst = i /\ row.step = inst[i].step /\ row.visit = inst[i].rowVersion
  OBVIOUS
<1> HIDE DEF row
<1>3. timer'[tm] = row /\ \A x \in TimerId : x # tm => timer'[x] = timer[x]
  BY <1>1 DEF Linked, TypeOK
<1>4. QED
  BY <1>1, <1>2, <1>3 DEF FreshTimer

\* A timer keeps what it is for, or is the only one just created.
LEMMA NextTimers ==
    ASSUME Linked, [Next]_vars
    PROVE  \/ \A tm \in TimerId : SameTimer(tm)
           \/ \E i \in Instance : \E tm \in TimerId :
                 /\ FreshTimer(i, tm)
                 /\ \A x \in TimerId : x # tm => SameTimer(x)
<1>1. TypeOK
  BY DEF Linked
<1>2. ASSUME NEW x \in TimerId, timer'[x] = timer[x]
      PROVE  SameTimer(x)
  BY <1>2 DEF SameTimer
<1>3. ASSUME TimersKept
      PROVE  \A tm \in TimerId : SameTimer(tm)
  BY <1>3 DEF TimersKept, SameTimer
<1>4. ASSUME NEW i \in Instance, EnterWait(i) \/ EnterSleep(i)
      PROVE  \/ UNCHANGED timer
             \/ \E tm \in TimerId : /\ FreshTimer(i, tm)
                                    /\ \A x \in TimerId : x # tm => timer'[x] = timer[x]
  <2>1. Exists(inst[i]) /\ inst[i].status = "RUNNABLE" /\ Park(i)
    BY <1>4 DEF EnterWait, EnterSleep, Runnable
  <2>2. UNCHANGED timer \/ \E kind, ticks : CreateTimer(i, kind, ticks)
    BY <1>4 DEF EnterWait, EnterSleep
  <2>3. QED
    BY <2>1, <2>2, CreateFresh
<1>5. ASSUME NEW i \in Instance,
             \/ \E key \in Key : StartInstance(i, key)
             \/ RecordStart(i) \/ AbortStart(i)
             \/ EnterActivity(i) \/ EnterWaitEarlySignal(i) \/ EnterEnd(i)
             \/ \E name \in Name, s \in SignalId : AppendSignal(i, name, s)
      PROVE  UNCHANGED timer
  BY <1>5 DEF StartInstance, RecordStart, AbortStart, EnterActivity, EnterWaitEarlySignal,
              EnterEnd, AppendSignal, stored
<1>6. ASSUME NEW t \in TaskId, NEW token \in Token, LeaseTask(t, token)
      PROVE  UNCHANGED timer
  BY <1>6 DEF LeaseTask
<1>7. ASSUME NEW d \in Delivery,
             HeartbeatTask(d) \/ OnTaskComplete(d) \/ ReadFailingTask(d) \/ ForgetDelivery(d)
      PROVE  UNCHANGED timer
  BY <1>7 DEF HeartbeatTask, OnTaskComplete, ReadFailingTask, ForgetDelivery, stored
<1>8. ASSUME NEW c \in calls, OnTaskFail(c) \/ AbortFail(c)
      PROVE  UNCHANGED timer
  BY <1>8 DEF OnTaskFail, FailStale, FailRetry, FailTerminal, AbortFail, stored
<1>9. ASSUME NEW s \in SignalId, SignalInstance(s) \/ ApplyPendingSignal(s) \/ AbortSignal(s)
      PROVE  UNCHANGED timer
  BY <1>9 DEF ApplyPendingSignal, SignalInstance, AbortSignal, stored
<1>10. ASSUME NEW l \in Loop, ListDueTimers(l) \/ AbortBatch(l)
       PROVE  UNCHANGED timer
  BY <1>10 DEF ListDueTimers, AbortBatch, stored
<1>11. ASSUME ExpireLeases \/ UNCHANGED vars
       PROVE  UNCHANGED timer
  BY <1>11 DEF ExpireLeases, vars
<1>12. ASSUME NEW l \in Loop, NEW tm \in TimerId, OnTimerFired(l, tm)
       PROVE  TimersKept
  BY <1>1, <1>12, TimerAndSignalKept DEF OnTimerFired, Linked, RowsLinked
<1>13. Tick => TimersKept
  BY <1>1, TimerAndSignalKept
<1>14. QED
  BY <1>2, <1>3, <1>4, <1>5, <1>6, <1>7, <1>8, <1>9, <1>10, <1>11, <1>12, <1>13
     DEF Next, Advance

-----------------------------------------------------------------------------
(* Each visit has its own task and timer, and is left for good or by a cycle. *)

\* The row belongs to the visit its instance is on, or its instance failed at its
\* step, or went on from there.
Seen(row) ==
    LET i == row.inst
    IN  \/ inst[i].step \in After(row.step)
        \/ inst[i].status = "WAITING" /\ OfThisVisit(i, row)
        \/ inst[i].status = "FAILED" /\ row.step = inst[i].step

Once ==
    /\ \A t \in TaskId : Exists(task[t]) => Seen(task[t])
    /\ \A tm \in TimerId : Exists(timer[tm]) => Seen(timer[tm])

\* A step of the kernel keeps what was seen.
LEMMA SeenKept ==
    ASSUME Linked, [Next]_vars, NEW row, NEW new, row.inst \in Instance, row.step \in StepId,
           Exists(inst[row.inst]), Seen(row),
           new.inst = row.inst, new.step = row.step, new.visit = row.visit
    PROVE  Seen(new)'
<1> DEFINE i == row.inst
<1>1. inst[i].step \in StepId
  BY RowsExist DEF Linked, Exists, InstanceRow
<1>2. CASE inst'[i] = inst[i]
  BY <1>2 DEF Seen, OfThisVisit
<1>3. CASE inst[i].status = "RUNNABLE" /\ inst'[i].step = inst[i].step
  BY <1>3 DEF Seen
<1>4. CASE inst'[i].step \in Successors(Def.steps, inst[i].step)
  <2>1. inst'[i].step \in StepId
    BY <1>1, <1>4, AfterClosed
  <2>2. inst[i].step \in After(row.step) \/ inst[i].step = row.step
    BY DEF Seen, OfThisVisit
  <2>3. inst'[i].step \in After(row.step)
    BY <1>1, <1>4, <2>1, <2>2, AfterSteps
  <2>4. QED
    BY <2>3 DEF Seen
<1>5. CASE inst'[i].status = "FAILED" /\ inst'[i].step = inst[i].step
  BY <1>5 DEF Seen, OfThisVisit
<1>6. QED
  BY <1>2, <1>3, <1>4, <1>5, NextWalks DEF Walks

\* A row made by enterStep belongs to the visit it parks.
LEMMA FreshSeen ==
    ASSUME Linked, NEW i \in Instance, Exists(inst[i]), Park(i), NEW new,
           new.inst = i, new.step = inst[i].step, new.visit = inst[i].rowVersion
    PROVE  Seen(new)' /\ inst'[i].status = "WAITING" /\ OfThisVisit(i, new)'
  BY Parks DEF Linked, Seen, OfThisVisit

\* Every step of the kernel keeps Once.
LEMMA NextOnce == Linked /\ Once /\ [Next]_vars => Once'
<1> SUFFICES ASSUME Linked, Once, [Next]_vars
             PROVE  Once'
  OBVIOUS
<1>1. ASSUME NEW t \in TaskId, Exists(task'[t])
      PROVE  Seen(task[t])'
  <2>1. CASE SameTask(t)
    <3>1. Exists(task[t]) /\ Seen(task[t])
      BY <1>1, <2>1 DEF SameTask, Once
    <3>2. /\ task[t].inst \in Instance /\ task[t].step \in StepId
          /\ Exists(inst[task[t].inst])
      BY <3>1, TaskRefers
    <3>3. QED
      BY <2>1, <3>1, <3>2, SeenKept DEF SameTask
  <2>2. ASSUME NEW i \in Instance, FreshTask(i, t)
        PROVE  Seen(task[t])'
    BY <2>2, FreshSeen DEF FreshTask
  <2>3. QED
    BY <2>1, <2>2, NextTasks
<1>2. ASSUME NEW tm \in TimerId, Exists(timer'[tm])
      PROVE  Seen(timer[tm])'
  <2>1. CASE SameTimer(tm)
    <3>1. Exists(timer[tm]) /\ Seen(timer[tm])
      BY <1>2, <2>1 DEF SameTimer, Once
    <3>2. /\ timer[tm].inst \in Instance /\ timer[tm].step \in StepId
          /\ Exists(inst[timer[tm].inst])
      BY <3>1, TimerRefers
    <3>3. QED
      BY <2>1, <3>1, <3>2, SeenKept DEF SameTimer
  <2>2. ASSUME NEW i \in Instance, FreshTimer(i, tm)
        PROVE  Seen(timer[tm])'
    BY <2>2, FreshSeen DEF FreshTimer
  <2>3. QED
    BY <2>1, <2>2, NextTimers
<1>3. QED
  BY <1>1, <1>2 DEF Once

\* UpdateInstance only ever raises row_version.
LEMMA NextVersion ==
    ASSUME Linked, [Next]_vars, NEW i \in Instance, Exists(inst[i])
    PROVE  /\ inst[i].rowVersion \in Nat /\ inst'[i].rowVersion \in Nat
           /\ inst'[i].rowVersion >= inst[i].rowVersion
<1>1. TypeOK /\ inst[i].rowVersion \in Nat
  BY RowsExist DEF Linked, Exists, InstanceRow
<1>2. CASE inst'[i] = inst[i] \/ inst'[i].rowVersion = inst[i].rowVersion + 1
  BY SMTT(30), <1>1, <1>2
<1>3. CASE Quiet
  BY <1>2, <1>3 DEF Quiet
<1>4. ASSUME NEW j \in Instance, NEW key \in Key, StartInstance(j, key)
      PROVE  inst'[i] = inst[i]
  BY <1>1, <1>4 DEF StartInstance, TypeOK
<1>5. ASSUME NEW j \in Instance,
             RecordStart(j) \/ \E name \in Name, s \in SignalId : AppendSignal(j, name, s)
      PROVE  inst'[i] = inst[i]
  BY <1>5 DEF RecordStart, AppendSignal
<1>6. ASSUME NEW j \in Instance, j # i, Exists(inst[j]), Shape(j)
      PROVE  inst'[i] = inst[i]
  BY <1>6, ShapeFrame
<1>7. ASSUME Shape(i)
      PROVE  inst'[i] = inst[i] \/ inst'[i].rowVersion = inst[i].rowVersion + 1
  <2>1. Park(i) => inst'[i].rowVersion = inst[i].rowVersion + 1
    BY <1>1, Parks
  <2>2. \A to \in StepId : \A context :
           Move(i, to, context) => inst'[i].rowVersion = inst[i].rowVersion + 1
    BY <1>1, Moved
  <2>3. \A status \in {"SUCCEEDED", "FAILED"} :
           Finish(i, status) => inst'[i].rowVersion = inst[i].rowVersion + 1
    BY <1>1, Finished
  <2>4. QED
    BY <1>7, <2>1, <2>2, <2>3
       DEF Shape, EntersBy, EntersSilently, MovesBy, EnterEnd, RetriesBy, FailsBy
<1>8. QED
  BY <1>2, <1>3, <1>4, <1>5, <1>6, <1>7, NextShapes

\* A visit has at most one task and at most one timer, and is over for every row
\* version but the last.
OnePerVisit ==
    /\ \A t, u \in TaskId :
          /\ Exists(task[t]) /\ Exists(task[u])
          /\ task[t].inst = task[u].inst /\ task[t].visit = task[u].visit
          => t = u
    /\ \A tm, x \in TimerId :
          /\ Exists(timer[tm]) /\ Exists(timer[x])
          /\ timer[tm].inst = timer[x].inst /\ timer[tm].visit = timer[x].visit
          => tm = x
    /\ \A tm \in TimerId : Exists(timer[tm]) =>
          timer[tm].visit \in Nat /\ timer[tm].visit < inst[timer[tm].inst].rowVersion

\* Every step of the kernel keeps one task and one timer per visit.
LEMMA NextOnePerVisit == Linked /\ OnePerVisit /\ [Next]_vars => OnePerVisit'
<1> SUFFICES ASSUME Linked, OnePerVisit, [Next]_vars
             PROVE  OnePerVisit'
  OBVIOUS
<1>1. TypeOK
  BY DEF Linked
<1>2. \A t \in TaskId : Exists(task[t]) =>
          task[t].visit \in Nat /\ task[t].visit < inst[task[t].inst].rowVersion
  BY TaskThere DEF Linked, RowsLinked, TaskRow
<1>3. ASSUME NEW n \in Nat, NEW m, n < m
      PROVE  n # m
  BY SMTT(30), <1>3
<1>4. ASSUME NEW t \in TaskId, NEW u \in TaskId, Exists(task'[t]), Exists(task'[u]),
             task'[t].inst = task'[u].inst, task'[t].visit = task'[u].visit
      PROVE  t = u
  <2>1. ASSUME \A x \in TaskId : SameTask(x)
        PROVE  t = u
    BY <1>4, <2>1 DEF SameTask, OnePerVisit
  <2>2. ASSUME NEW i \in Instance, EnterActivity(i)
        PROVE  t = u
    <3>1. PICK x \in TaskId : FreshTask(i, x) /\ \A y \in TaskId : y # x => SameTask(y)
      BY <2>2, EnqueueFresh DEF HeldTask
    <3>2. \A y \in TaskId : y # x /\ Exists(task'[y]) /\ task'[y].inst = i =>
             task'[y].visit # inst[i].rowVersion
      BY <1>2, <1>3, <3>1 DEF SameTask
    <3>3. task'[x].inst = i /\ task'[x].visit = inst[i].rowVersion
      BY <3>1 DEF FreshTask
    <3>4. CASE t = x \/ u = x
      BY <1>4, <3>2, <3>3, <3>4
    <3>5. CASE t # x /\ u # x
      BY <1>4, <3>1, <3>5 DEF SameTask, OnePerVisit
    <3>6. QED
      BY <3>4, <3>5
  <2>3. QED
    BY <2>1, <2>2, NextTasks
<1>5. \/ \A x \in TimerId : SameTimer(x)
      \/ \E i \in Instance : \E tm \in TimerId :
            FreshTimer(i, tm) /\ \A x \in TimerId : x # tm => SameTimer(x)
  BY NextTimers
<1>6. ASSUME NEW tm \in TimerId, NEW x \in TimerId, Exists(timer'[tm]), Exists(timer'[x]),
             timer'[tm].inst = timer'[x].inst, timer'[tm].visit = timer'[x].visit
      PROVE  tm = x
  <2>1. ASSUME \A y \in TimerId : SameTimer(y)
        PROVE  tm = x
    BY <1>6, <2>1 DEF SameTimer, OnePerVisit
  <2>2. ASSUME NEW i \in Instance, NEW z \in TimerId, FreshTimer(i, z),
               \A y \in TimerId : y # z => SameTimer(y)
        PROVE  tm = x
    <3>1. ASSUME NEW y \in TimerId, y # z, Exists(timer'[y]), timer'[y].inst = i
          PROVE  timer'[y].visit # inst[i].rowVersion
      <4>1. Exists(timer[y]) /\ timer[y].inst = i /\ timer'[y].visit = timer[y].visit
        BY <2>2, <3>1 DEF SameTimer
      <4>2. timer[y].visit \in Nat /\ timer[y].visit < inst[i].rowVersion
        BY <4>1 DEF OnePerVisit
      <4>3. QED
        BY <1>3, <4>1, <4>2
    <3>2. timer'[z].inst = i /\ timer'[z].visit = inst[i].rowVersion
      BY <2>2 DEF FreshTimer
    <3>3. CASE tm = z \/ x = z
      BY <1>6, <3>1, <3>2, <3>3
    <3>4. CASE tm # z /\ x # z
      BY <1>6, <2>2, <3>4 DEF SameTimer, OnePerVisit
    <3>5. QED
      BY <3>3, <3>4
  <2>3. QED
    BY <1>5, <2>1, <2>2
<1>7. ASSUME NEW tm \in TimerId, Exists(timer'[tm])
      PROVE  timer'[tm].visit \in Nat /\ timer'[tm].visit < inst'[timer'[tm].inst].rowVersion
  <2>1. CASE SameTimer(tm)
    <3> DEFINE i == timer[tm].inst
    <3>1. /\ timer'[tm].visit = timer[tm].visit /\ timer'[tm].inst = i
          /\ timer[tm].visit \in Nat /\ timer[tm].visit < inst[i].rowVersion
          /\ Exists(timer[tm])
      BY <1>7, <2>1 DEF SameTimer, OnePerVisit
    <3>2. /\ inst[i].rowVersion \in Nat /\ inst'[i].rowVersion \in Nat
          /\ inst'[i].rowVersion >= inst[i].rowVersion
      BY <3>1, TimerRefers, NextVersion
    <3>3. QED
      BY SMTT(30), <3>1, <3>2
  <2>2. ASSUME NEW i \in Instance, FreshTimer(i, tm)
        PROVE  timer'[tm].visit \in Nat /\ timer'[tm].visit < inst'[timer'[tm].inst].rowVersion
    <3>1. timer'[tm].inst = i /\ timer'[tm].visit = inst[i].rowVersion
          /\ Exists(inst[i]) /\ Park(i)
      BY <2>2 DEF FreshTimer
    <3>2. inst'[i].rowVersion = inst[i].rowVersion + 1 /\ inst[i].rowVersion \in Nat
      BY <1>1, <3>1, Parks, NextVersion
    <3>3. QED
      BY SMTT(30), <3>1, <3>2
  <2>3. QED
    BY <1>5, <2>1, <2>2
<1>8. QED
  BY <1>4, <1>6, <1>7 DEF OnePerVisit

-----------------------------------------------------------------------------
(* The payload of a task.                                                  *)

\* What a task of the current visit was given is the context of its instance.
Supplied ==
    \A t \in TaskId :
        /\ Exists(task[t])
        /\ inst[task[t].inst].status = "WAITING"
        /\ OfThisVisit(task[t].inst, task[t])
        => task[t].payload = inst[task[t].inst].context

\* Every step of the kernel keeps the payloads current.
LEMMA NextSupplied == Linked /\ Supplied /\ [Next]_vars => Supplied'
<1> SUFFICES ASSUME Linked, Supplied, [Next]_vars, NEW t \in TaskId, Exists(task'[t]),
                    inst'[task'[t].inst].status = "WAITING",
                    OfThisVisit(task[t].inst, task[t])'
             PROVE  task'[t].payload = inst'[task'[t].inst].context
  BY DEF Supplied
<1>1. CASE SameTask(t)
  <2> DEFINE i == task[t].inst
  <2>1. /\ Exists(task[t]) /\ task'[t].inst = i /\ task'[t].step = task[t].step
        /\ task'[t].visit = task[t].visit /\ task'[t].payload = task[t].payload
    BY <1>1 DEF SameTask
  <2>2. i \in Instance /\ Exists(inst[i])
    BY <2>1, TaskRefers
  <2>3. CASE inst'[i] = inst[i]
    BY <2>1, <2>2, <2>3 DEF Supplied, OfThisVisit
  <2>4. CASE inst'[i].rowVersion = inst[i].rowVersion + 1
    <3>1. task[t].visit \in Nat /\ task[t].visit < inst[i].rowVersion
      BY <2>1, RowsExist DEF Linked, RowsLinked, TaskRow, Exists
    <3>2. task[t].visit + 1 = inst[i].rowVersion + 1 /\ inst[i].rowVersion \in Nat
      BY <2>1, <2>2, <2>4, NextVersion DEF OfThisVisit
    <3>3. QED
      BY SMTT(30), <3>1, <3>2
  <2>5. QED
    BY <2>1, <2>2, <2>3, <2>4, NextWalks DEF Walks
<1>2. ASSUME NEW i \in Instance, FreshTask(i, t)
      PROVE  task'[t].payload = inst'[task'[t].inst].context
  <2>1. inst'[i].context = inst[i].context
    BY <1>2, Parks DEF FreshTask, Linked
  <2>2. QED
    BY <1>2, <2>1 DEF FreshTask
<1>3. QED
  BY <1>1, <1>2, NextTasks

-----------------------------------------------------------------------------
(* Which task and which timer may move an instance.                        *)

\* Every parked instance can wake, and each row is of its own visit.
Working == Woken /\ Once /\ OnePerVisit /\ Supplied

\* Before the first step there are no rows.
LEMMA InitWorking == Init => Working
<1> SUFFICES ASSUME Init
             PROVE  Working
  OBVIOUS
<1>1. /\ \A t \in TaskId : ~Exists(task[t])
      /\ \A tm \in TimerId : ~Exists(timer[tm])
  BY DEF Init, Exists
<1>2. Once /\ OnePerVisit /\ Supplied
  BY <1>1 DEF Once, OnePerVisit, Supplied
<1>3. QED
  BY <1>2, InitWoken DEF Working

\* Every step keeps all four.
LEMMA NextWorking == Working /\ [Next]_vars => Working'
  BY NextWoken, NextOnce, NextOnePerVisit, NextSupplied DEF Working, Woken

\* Two rows of the visit an instance is on are of one visit.
LEMMA SameVisit ==
    ASSUME TypeOK, NEW i \in Instance, Exists(inst[i]), NEW row, NEW other,
           row.visit \in Nat, other.visit \in Nat,
           OfThisVisit(i, row), OfThisVisit(i, other)
    PROVE  row.inst = other.inst /\ row.visit = other.visit
<1>1. row.inst = other.inst /\ row.visit + 1 = other.visit + 1
  BY DEF OfThisVisit
<1>2. QED
  BY SMTT(30), <1>1

\* Without cycles, a task whose step its instance is parked on is that visit's only
\* task, and open: what engine.go takes a matching step for.
LEMMA TaskAtWork ==
    ASSUME Acyclic, Working, NEW t \in TaskId, Exists(task[t]),
           Parked(task[t].inst, task[t].step)
    PROVE  /\ Open(t)
           /\ OfThisVisit(task[t].inst, task[t])
           /\ \A u \in TaskId : Exists(task[u]) /\ OfThisVisit(task[t].inst, task[u]) => u = t
<1> DEFINE i == task[t].inst
<1>1. Linked /\ TypeOK /\ ParkedHasWakeup
  BY DEF Working, Woken, Linked
<1>2. i \in Instance /\ task[t].step \in StepId /\ Exists(inst[i])
  BY <1>1, TaskRefers
<1>3. inst[i].status = "WAITING" /\ inst[i].step = task[t].step
  BY DEF Parked
<1>4. OfThisVisit(i, task[t])
  BY <1>2, <1>3, NeverAgain DEF Working, Once, Seen
<1>5. ASSUME NEW u \in TaskId, Exists(task[u]), OfThisVisit(i, task[u])
      PROVE  u = t
  <2>1. task[t].visit \in Nat /\ task[u].visit \in Nat
    BY <1>1, <1>5, RowsExist DEF TaskRow, Exists
  <2>2. task[u].inst = task[t].inst /\ task[u].visit = task[t].visit
    BY <1>1, <1>2, <1>4, <1>5, <2>1, SameVisit
  <2>3. QED
    BY <1>5, <2>2 DEF Working, OnePerVisit
<1>6. StepOf(i).type = "activity"
  BY <1>1, <1>3 DEF Linked, RowsLinked, StepOf
<1>7. PICK u \in TaskId : Open(u) /\ OfThisVisit(i, task[u])
  BY <1>1, <1>2, <1>3, <1>6 DEF ParkedHasWakeup, CanWake, HasTask
<1>8. u = t
  BY <1>1, <1>5, <1>7, TaskThere
<1>9. QED
  BY <1>4, <1>5, <1>7, <1>8

\* The same of a timer: it is armed, and of the visit its instance is on.
LEMMA TimerAtWork ==
    ASSUME Acyclic, Working, NEW tm \in TimerId, Exists(timer[tm]),
           Parked(timer[tm].inst, timer[tm].step)
    PROVE  Armed(tm) /\ OfThisVisit(timer[tm].inst, timer[tm])
<1> DEFINE i == timer[tm].inst
<1>1. Linked /\ TypeOK /\ ParkedHasWakeup
  BY DEF Working, Woken, Linked
<1>2. i \in Instance /\ timer[tm].step \in StepId /\ Exists(inst[i])
  BY <1>1, TimerRefers
<1>3. inst[i].status = "WAITING" /\ inst[i].step = timer[tm].step
  BY DEF Parked
<1>4. OfThisVisit(i, timer[tm])
  BY <1>2, <1>3, NeverAgain DEF Working, Once, Seen
<1>5. \/ StepOf(i).type = "sleep_until"
      \/ StepOf(i).type = "wait_signal" /\ StepOf(i).timeoutAfter > 0
  BY <1>1, <1>3 DEF Linked, RowsLinked, StepOf
<1>6. PICK x \in TimerId : Armed(x) /\ OfThisVisit(i, timer[x])
  BY <1>1, <1>2, <1>3, <1>5 DEF ParkedHasWakeup, CanWake, HasTimer
<1>7. Exists(timer[x])
  BY SMTT(30), <1>6 DEF Armed, Exists, NoRow
<1>8. timer[tm].visit \in Nat /\ timer[x].visit \in Nat
  BY <1>7 DEF Working, OnePerVisit
<1>9. timer[x].inst = timer[tm].inst /\ timer[x].visit = timer[tm].visit
  BY <1>1, <1>2, <1>4, <1>6, <1>8, SameVisit
<1>10. x = tm
  BY <1>7, <1>9 DEF Working, OnePerVisit
<1>11. QED
  BY <1>4, <1>6, <1>10

\* The task is of the instance, which is parked on its step.
MovedByTask(i, t) ==
    t \in TaskId /\ Exists(task[t]) /\ task[t].inst = i /\ Parked(i, task[t].step)

\* The steps that move a parked instance, or add to its history.
LEMMA ParkedSteps ==
    ASSUME Linked, [Next]_vars, NEW i \in Instance, inst[i].status = "WAITING"
    PROVE  \/ inst'[i] = inst[i] /\ history'[i] = history[i]
           \/ /\ inst'[i] = inst[i]
              /\ \E e \in Event : /\ AppendEvents(i, <<e>>)
                                  /\ e.type \in {"WORKFLOW_STARTED", "TASK_RETRY_SCHEDULED"}
           \/ /\ StepOf(i).type = "wait_signal"
              /\ \E e \in Event : AppendEvents(i, <<e>>) /\ e.type = "SIGNAL_RECEIVED"
           \/ \E d \in Delivery : OnTaskComplete(d) /\ MovedByTask(i, d.task)
           \/ \E c \in calls, retryable \in BOOLEAN :
                 FailTerminal(c, retryable) /\ MovedByTask(i, c.task)
           \/ \E l \in Loop, tm \in TimerId :
                 /\ OnTimerFired(l, tm) /\ Exists(timer[tm])
                 /\ timer[tm].inst = i /\ Parked(i, timer[tm].step)
<1> DEFINE Still == inst'[i] = inst[i] /\ history'[i] = history[i]
           Adds(types) == \E e \in Event : AppendEvents(i, <<e>>) /\ e.type \in types
<1>1. TypeOK /\ Exists(inst[i]) /\ inst[i].step \in StepId
  <2>1. TypeOK
    BY DEF Linked
  <2>2. Exists(inst[i])
    BY SMTT(30) DEF Exists, NoRow
  <2>3. QED
    BY <2>1, <2>2, RowsExist DEF Exists, InstanceRow
<1>2. CASE UNCHANGED <<inst, history>>
  BY <1>2
<1>3. ASSUME NEW j \in Instance, NEW key \in Key, StartInstance(j, key)
      PROVE  Still
  BY <1>1, <1>3 DEF StartInstance, TypeOK
<1>4. ASSUME NEW j \in Instance, NEW new, inst' = [inst EXCEPT ![j] = new], j # i
      PROVE  inst'[i] = inst[i]
  BY <1>1, <1>4 DEF TypeOK
<1>5. ASSUME NEW j \in Instance, NEW new, AppendEvents(j, new), j # i
      PROVE  history'[i] = history[i]
  BY <1>1, <1>5 DEF TypeOK, AppendEvents
<1>6. ASSUME NEW j \in Instance, RecordStart(j)
      PROVE  Still \/ (inst'[i] = inst[i] /\ Adds({"WORKFLOW_STARTED"}))
  <2> DEFINE e == Ev("WORKFLOW_STARTED", Def.initial, NoRef)
  <2>1. e \in Event /\ e.type = "WORKFLOW_STARTED"
    BY SMTT(30), DefinitionAssumption DEF Ev, Event, EventType, NoRef
  <2>2. UNCHANGED inst /\ AppendEvents(j, <<e>>)
    BY <1>6 DEF RecordStart
  <2> HIDE DEF e
  <2>3. QED
    BY <1>5, <2>1, <2>2
<1>7. ASSUME NEW j \in Instance, Advance(j)
      PROVE  Still
  <2>1. Exists(inst[j]) /\ Shape(j) /\ inst[j].status = "RUNNABLE"
    BY <1>7, EnterShapes DEF Advance, EnterActivity, EnterWaitEarlySignal, EnterWait,
                             EnterSleep, EnterEnd, Runnable
  <2>2. QED
    BY <2>1, ShapeFrame
<1>8. ASSUME NEW d \in Delivery, OnTaskComplete(d)
      PROVE  Still \/ MovedByTask(i, d.task)
  <2>1. d.task \in TaskId /\ Exists(task[d.task])
    BY <1>8 DEF OnTaskComplete, Delivery, Linked, RowsLinked
  <2>2. task[d.task].inst \in Instance
    BY <2>1, TaskRefers
  <2>3. CASE ~Parked(task[d.task].inst, task[d.task].step)
    BY <1>8, <2>3 DEF OnTaskComplete
  <2>4. CASE Parked(task[d.task].inst, task[d.task].step) /\ task[d.task].inst # i
    BY <1>4, <1>5, <1>8, <2>2, <2>4 DEF OnTaskComplete, Move, UpdateInstance
  <2>5. QED
    BY <2>1, <2>3, <2>4 DEF MovedByTask
<1>9. ASSUME NEW c \in calls, OnTaskFail(c)
      PROVE  \/ Still
             \/ inst'[i] = inst[i] /\ Adds({"TASK_RETRY_SCHEDULED"})
             \/ /\ MovedByTask(i, c.task)
                /\ \E retryable \in BOOLEAN : FailTerminal(c, retryable)
  <2>1. c.task \in TaskId /\ Exists(task[c.task])
    BY DEF FailCall, Linked, TypeOK, RowsLinked
  <2>2. /\ task[c.task].inst \in Instance /\ task[c.task].step \in StepId /\ c.task \in Nat
    BY <2>1, TaskRefers
  <2>3. CASE FailStale(c)
    BY <2>3 DEF FailStale
  <2>4. ASSUME NEW retryable \in BOOLEAN, NEW ticks \in Backoff, FailRetry(c, retryable, ticks)
        PROVE  Still \/ (inst'[i] = inst[i] /\ Adds({"TASK_RETRY_SCHEDULED"}))
    <3> DEFINE e == Ev("TASK_RETRY_SCHEDULED", task[c.task].step, c.task)
    <3>1. e \in Event /\ e.type = "TASK_RETRY_SCHEDULED"
      BY SMTT(30), <2>2 DEF Ev, Event, EventType
    <3>2. UNCHANGED inst /\ AppendEvents(task[c.task].inst, <<e>>)
      BY <2>4 DEF FailRetry
    <3> HIDE DEF e
    <3>3. QED
      BY <1>5, <2>2, <3>1, <3>2
  <2>5. ASSUME NEW retryable \in BOOLEAN, FailTerminal(c, retryable)
        PROVE  Still \/ MovedByTask(i, c.task)
    BY <1>4, <1>5, <2>1, <2>2, <2>5
       DEF FailTerminal, Finish, UpdateInstance, MovedByTask
  <2>6. QED
    BY <1>9, <2>3, <2>4, <2>5 DEF OnTaskFail
<1>10. ASSUME NEW s \in SignalId, ApplyPendingSignal(s)
       PROVE  Still \/ (StepOf(i).type = "wait_signal" /\ Adds({"SIGNAL_RECEIVED"}))
  <2>1. signal[s].inst \in Instance
    BY <1>10, RowsExist DEF ApplyPendingSignal, Linked, RowsLinked, Exists, SignalRow
  <2>2. CASE UNCHANGED <<inst, history>>
    BY <2>2
  <2>3. ASSUME NEW o \in Oldest(signal[s].inst, signal[s].name), ApplySignal(signal[s].inst, o),
               StepOf(signal[s].inst).type = "wait_signal"
        PROVE  Still \/ (StepOf(i).type = "wait_signal" /\ Adds({"SIGNAL_RECEIVED"}))
    <3>1. CASE signal[s].inst # i
      BY <1>4, <1>5, <2>1, <2>3, <3>1 DEF ApplySignal, Move, UpdateInstance
    <3>2. CASE signal[s].inst = i
      <4> DEFINE e == Ev("SIGNAL_RECEIVED", inst[i].step, o)
      <4>1. o \in Nat
        BY SMTT(30), <2>3, IdAssumption DEF Oldest, Pending
      <4>2. e \in Event /\ e.type = "SIGNAL_RECEIVED"
        BY SMTT(30), <1>1, <4>1 DEF Ev, Event, EventType
      <4>3. AppendEvents(i, <<e>>)
        BY <2>3, <3>2 DEF ApplySignal
      <4> HIDE DEF e
      <4>4. QED
        BY <2>3, <3>2, <4>2, <4>3
    <3>3. QED
      BY <3>1, <3>2
  <2>4. QED
    BY <1>10, <2>2, <2>3 DEF ApplyPendingSignal
<1>11. ASSUME NEW l \in Loop, NEW tm \in TimerId, OnTimerFired(l, tm)
       PROVE  \/ Still
              \/ Exists(timer[tm]) /\ timer[tm].inst = i /\ Parked(i, timer[tm].step)
  <2>1. Exists(timer[tm])
    BY <1>11 DEF OnTimerFired, Linked, RowsLinked
  <2>2. timer[tm].inst \in Instance
    BY <2>1, TimerRefers
  <2>3. CASE ~Parked(timer[tm].inst, timer[tm].step)
    BY <1>11, <2>3 DEF OnTimerFired
  <2>4. CASE Parked(timer[tm].inst, timer[tm].step) /\ timer[tm].inst # i
    BY <1>4, <1>5, <1>11, <2>2, <2>4 DEF OnTimerFired, Move, UpdateInstance
  <2>5. QED
    BY <2>1, <2>3, <2>4
<1>12. ASSUME \/ \E j \in Instance :
                    \/ AbortStart(j)
                    \/ \E name \in Name, s \in SignalId : AppendSignal(j, name, s)
              \/ \E t \in TaskId, token \in Token : LeaseTask(t, token)
              \/ \E d \in Delivery : HeartbeatTask(d) \/ ReadFailingTask(d) \/ ForgetDelivery(d)
              \/ \E c \in calls : AbortFail(c)
              \/ \E s \in SignalId : SignalInstance(s) \/ AbortSignal(s)
              \/ \E l \in Loop : ListDueTimers(l) \/ AbortBatch(l)
              \/ ExpireLeases \/ Tick \/ UNCHANGED vars
       PROVE  UNCHANGED <<inst, history>>
  BY <1>12 DEF AbortStart, AppendSignal, LeaseTask, HeartbeatTask, ReadFailingTask,
               ForgetDelivery, AbortFail, SignalInstance, AbortSignal, ListDueTimers, AbortBatch,
               ExpireLeases, Tick, vars, stored
<1> HIDE DEF Still, Adds
<1>13. \/ Still
       \/ inst'[i] = inst[i] /\ (Adds({"WORKFLOW_STARTED"}) \/ Adds({"TASK_RETRY_SCHEDULED"}))
       \/ StepOf(i).type = "wait_signal" /\ Adds({"SIGNAL_RECEIVED"})
       \/ \E d \in Delivery : OnTaskComplete(d) /\ MovedByTask(i, d.task)
       \/ \E c \in calls, retryable \in BOOLEAN :
             FailTerminal(c, retryable) /\ MovedByTask(i, c.task)
       \/ \E l \in Loop, tm \in TimerId :
             /\ OnTimerFired(l, tm) /\ Exists(timer[tm])
             /\ timer[tm].inst = i /\ Parked(i, timer[tm].step)
  <2>1. UNCHANGED <<inst, history>> => Still
    BY <1>2 DEF Still
  <2>2. QED
    BY <1>3, <1>6, <1>7, <1>8, <1>9, <1>10, <1>11, <1>12, <2>1 DEF Next
<1>14. QED
  BY <1>13 DEF Still, Adds

-----------------------------------------------------------------------------
(* What holds without cycles.                                              *)

\* One step of OwnTaskMovesInstance.
LEMMA OwnTask ==
    ASSUME Acyclic, Working, [Next]_vars, NEW i \in Instance,
           inst[i].status = "WAITING", StepOf(i).type = "activity", inst'[i] # inst[i]
    PROVE  \E t \in TaskId : /\ Open(t)
                             /\ OfThisVisit(i, task[t])
                             /\ task'[t].status \in {"DONE", "FAILED"}
<1>1. Linked
  BY DEF Working, Woken
<1>2. ASSUME NEW t, MovedByTask(i, t), SettledTask(t)
      PROVE  \E u \in TaskId : /\ Open(u)
                               /\ OfThisVisit(i, task[u])
                               /\ task'[u].status \in {"DONE", "FAILED"}
  BY <1>2, TaskAtWork DEF MovedByTask, SettledTask
<1>3. ASSUME NEW d \in Delivery, OnTaskComplete(d)
      PROVE  SettledTask(d.task)
  BY <1>1, <1>3, CompleteSettles
<1>4. ASSUME NEW c \in calls, NEW retryable \in BOOLEAN, FailTerminal(c, retryable)
      PROVE  SettledTask(c.task)
  BY <1>1, <1>4, FailSettles
<1>5. ASSUME NEW tm \in TimerId, Exists(timer[tm]), Parked(i, timer[tm].step)
      PROVE  FALSE
  BY <1>1, <1>5 DEF Linked, RowsLinked, Parked, StepOf
<1>6. QED
  BY <1>1, <1>2, <1>3, <1>4, <1>5, ParkedSteps

\* An open task belongs to the visit its instance is parked on.
Awaited ==
    \A t \in TaskId : Open(t) =>
        inst[task[t].inst].status = "WAITING" /\ OfThisVisit(task[t].inst, task[t])

\* Without cycles, no step leaves an open task behind.
LEMMA NextAwaited ==
    ASSUME Acyclic, Working, Awaited, [Next]_vars
    PROVE  Awaited'
<1> SUFFICES ASSUME NEW t \in TaskId, Open(t)'
             PROVE  /\ inst'[task'[t].inst].status = "WAITING"
                    /\ OfThisVisit(task[t].inst, task[t])'
  BY DEF Awaited
<1>1. Linked /\ TypeOK /\ TypeOK'
  BY NextLinked DEF Working, Woken, Linked
<1>2. Exists(task'[t])
  <2>1. task'[t].status # "ABSENT"
    BY DEF Open
  <2>2. QED
    BY SMTT(30), <2>1 DEF Exists, NoRow
<1>3. ASSUME NEW i \in Instance, FreshTask(i, t)
      PROVE  /\ inst'[task'[t].inst].status = "WAITING"
             /\ OfThisVisit(task[t].inst, task[t])'
  BY <1>1, <1>3, FreshSeen DEF FreshTask
<1>4. CASE SameTask(t)
  <2> DEFINE i == task[t].inst
  <2>1. /\ Exists(task[t]) /\ task'[t].inst = i /\ task'[t].step = task[t].step
        /\ task'[t].visit = task[t].visit
    BY <1>2, <1>4 DEF SameTask
  <2>2. i \in Instance /\ Exists(inst[i]) /\ Def.steps[task[t].step].type = "activity"
    BY <1>1, <2>1, TaskRefers
  <2>3. Open(t)
    <3>1. ASSUME HeldTask(t)
          PROVE  Open(t)
      BY <3>1 DEF HeldTask
    <3>2. ASSUME SettledTask(t)
          PROVE  FALSE
      BY <3>2 DEF SettledTask
    <3>3. ASSUME NEW d \in Delivery, OnTaskComplete(d)
          PROVE  HeldTask(t) \/ SettledTask(t)
      BY <1>1, <3>3, CompleteSettles
    <3>4. ASSUME NEW c \in calls, OnTaskFail(c)
          PROVE  HeldTask(t) \/ SettledTask(t) \/ Open(t)
      <4>1. CASE FailStale(c) \/ \E retryable \in BOOLEAN : FailTerminal(c, retryable)
        BY <1>1, <4>1, FailSettles
      <4>2. ASSUME NEW retryable \in BOOLEAN, NEW ticks \in Backoff,
                   FailRetry(c, retryable, ticks)
            PROVE  HeldTask(t) \/ Open(t)
        BY <1>1, <4>2, FailSettles, TaskAtWork DEF FailRetry
      <4>3. QED
        BY <3>4, <4>1, <4>2 DEF OnTaskFail
    <3>5. ASSUME NEW j \in Instance, EnterActivity(j)
          PROVE  HeldTask(t)
      BY <1>1, <2>1, <3>5, EnqueueFresh DEF FreshTask
    <3>6. QED
      BY <1>1, <3>1, <3>2, <3>3, <3>4, <3>5, TaskSteps
  <2>4. inst[i].status = "WAITING" /\ OfThisVisit(i, task[t])
    BY <2>3 DEF Awaited
  <2>5. StepOf(i).type = "activity"
    BY <2>2, <2>4 DEF OfThisVisit, StepOf
  <2>6. inst'[i] = inst[i]
    <3> SUFFICES ASSUME inst'[i] # inst[i]
                 PROVE  FALSE
      OBVIOUS
    <3>1. PICK u \in TaskId : /\ Open(u)
                              /\ OfThisVisit(i, task[u])
                              /\ task'[u].status \in {"DONE", "FAILED"}
      BY <2>2, <2>4, <2>5, OwnTask
    <3>2. Parked(i, task[t].step) /\ Exists(task[u])
      BY <1>1, <2>4, <3>1, TaskThere DEF Parked, OfThisVisit
    <3>3. u = t
      BY <2>1, <3>1, <3>2, TaskAtWork
    <3>4. QED
      BY <3>1, <3>3 DEF Open
  <2>7. QED
    BY <2>1, <2>4, <2>6 DEF OfThisVisit
<1>5. QED
  BY <1>1, <1>3, <1>4, NextTasks

\* Two open tasks of one instance are one.
LEMMA AwaitedOnce ==
    ASSUME Acyclic, Working, Awaited
    PROVE  OpenTaskIsAwaited
<1>1. TypeOK
  BY DEF Working, Woken, Linked
<1>2. ASSUME NEW t \in TaskId, Open(t)
      PROVE  /\ inst[task[t].inst].status = "WAITING"
             /\ inst[task[t].inst].step = task[t].step
             /\ OfThisVisit(task[t].inst, task[t])
             /\ Parked(task[t].inst, task[t].step)
             /\ Exists(task[t])
  BY <1>1, <1>2, TaskThere DEF Awaited, OfThisVisit, Parked
<1>3. ASSUME NEW t \in TaskId, Open(t), NEW u \in TaskId, Open(u),
             task[u].inst = task[t].inst
      PROVE  u = t
  BY <1>2, <1>3, TaskAtWork
<1>4. QED
  BY <1>2, <1>3 DEF OpenTaskIsAwaited

\* One step of FailedIsFinal: only a retry reopens a failed task, and without cycles
\* the task of a retry is open.
LEMMA FailedStays ==
    ASSUME Acyclic, Backend = "pg", Working, [Next]_vars,
           NEW t \in TaskId, task[t].status = "FAILED"
    PROVE  task'[t].status = "FAILED"
<1>1. Linked /\ TypeOK /\ Exists(task[t])
  <2>1. Exists(task[t])
    BY SMTT(30) DEF Exists, NoRow
  <2>2. QED
    BY <2>1 DEF Working, Woken, Linked
<1>2. ASSUME HeldTask(t)
      PROVE  task'[t].status = "FAILED"
  BY <1>2 DEF HeldTask, Open
<1>3. ASSUME NEW j \in Instance, EnterActivity(j)
      PROVE  HeldTask(t)
  BY <1>1, <1>3, EnqueueFresh DEF FreshTask
<1>4. ASSUME NEW d \in Delivery, OnTaskComplete(d)
      PROVE  HeldTask(t) \/ task'[t].status = "FAILED"
  BY <1>1, <1>4, CompleteSettles DEF OnTaskComplete, Settle, CompleteNoop
<1>5. ASSUME NEW c \in calls, OnTaskFail(c)
      PROVE  HeldTask(t) \/ task'[t].status = "FAILED"
  <2>1. CASE FailStale(c)
    BY <1>1, <2>1, FailSettles DEF FailStale, Settle, FailNoop
  <2>2. ASSUME NEW retryable \in BOOLEAN, FailTerminal(c, retryable)
        PROVE  HeldTask(t) \/ task'[t].status = "FAILED"
    BY <1>1, <2>2, FailSettles DEF FailTerminal, Settle, FailNoop
  <2>3. ASSUME NEW retryable \in BOOLEAN, NEW ticks \in Backoff, FailRetry(c, retryable, ticks)
        PROVE  HeldTask(t)
    <3>1. c.task = t => Open(t)
      BY <1>1, <2>3, TaskAtWork DEF FailRetry
    <3>2. c.task # t
      BY <3>1 DEF Open
    <3>3. QED
      BY <1>1, <2>3, <3>2, FailSettles
  <2>4. QED
    BY <1>5, <2>1, <2>2, <2>3 DEF OnTaskFail
<1>6. QED
  BY <1>1, <1>2, <1>3, <1>4, <1>5, TaskSteps

-----------------------------------------------------------------------------
(* Timers.                                                                 *)

\* A timer the loop has listed is due, and stays due.
Listed == \A l \in Loop : \A tm \in batch[l] : timer[tm].fireIn = 0

\* Every step of the kernel keeps the listed timers due.
LEMMA NextListed == Linked /\ Listed /\ [Next]_vars => Listed'
<1> SUFFICES ASSUME Linked, Listed, [Next]_vars
             PROVE  Listed'
  OBVIOUS
<1>1. TypeOK /\ \A l \in Loop : \A tm \in batch[l] : tm \in TimerId /\ Exists(timer[tm])
  BY DEF Linked, RowsLinked, TypeOK
<1>2. CASE UNCHANGED <<timer, batch>>
  BY <1>2 DEF Listed
<1>3. ASSUME NEW i \in Instance, EnterWait(i) \/ EnterSleep(i)
      PROVE  Listed'
  <2>1. Exists(inst[i]) /\ inst[i].status = "RUNNABLE" /\ Park(i) /\ UNCHANGED batch
    BY <1>3 DEF EnterWait, EnterSleep, Runnable, volatile
  <2>2. UNCHANGED timer \/ \E kind, ticks : CreateTimer(i, kind, ticks)
    BY <1>3 DEF EnterWait, EnterSleep
  <2>3. \A x \in TimerId : Exists(timer[x]) => timer'[x] = timer[x]
    BY <2>1, <2>2, CreateFresh DEF FreshTimer
  <2>4. QED
    BY <1>1, <2>1, <2>3 DEF Listed
<1>4. ASSUME NEW l \in Loop, ListDueTimers(l)
      PROVE  Listed'
  BY <1>1, <1>4 DEF ListDueTimers, Listed, Due, TypeOK, stored
<1>5. ASSUME NEW l \in Loop, AbortBatch(l)
      PROVE  Listed'
  BY <1>1, <1>5 DEF AbortBatch, Listed, TypeOK, stored
<1>6. ASSUME NEW l \in Loop, NEW tm \in TimerId, OnTimerFired(l, tm)
      PROVE  Listed'
  <2>1. timer[tm] \in TimerRow
    BY <1>1, <1>6, RowsExist DEF OnTimerFired, Exists
  <2>2. \A x \in TimerId : timer'[x].fireIn = timer[x].fireIn
    BY <1>1, <1>6, <2>1 DEF OnTimerFired, TypeOK, TimerRow
  <2>3. \A k \in Loop : batch'[k] \subseteq batch[k]
    BY <1>1, <1>6 DEF OnTimerFired, TypeOK
  <2>4. QED
    BY <1>1, <2>2, <2>3 DEF Listed
<1>7. CASE Tick
  <2>1. UNCHANGED batch
    BY <1>7 DEF Tick, volatile
  <2>2. ASSUME NEW x \in TimerId, Exists(timer[x]), timer[x].fireIn = 0
        PROVE  timer'[x].fireIn = 0
    <3>1. timer'[x] = IF Armed(x) THEN [timer[x] EXCEPT !.fireIn = Less(@)] ELSE timer[x]
      BY <1>7 DEF Tick
    <3>2. Less(0) = 0
      BY SMTT(30) DEF Less
    <3>3. timer[x] \in TimerRow
      BY <1>1, <2>2, RowsExist DEF Exists
    <3>4. QED
      BY <2>2, <3>1, <3>2, <3>3 DEF TimerRow
  <2>3. QED
    BY <1>1, <2>1, <2>2 DEF Listed
<1>8. ASSUME \/ \E i \in Instance :
                   \/ \E key \in Key : StartInstance(i, key)
                   \/ RecordStart(i) \/ AbortStart(i)
                   \/ EnterActivity(i) \/ EnterWaitEarlySignal(i) \/ EnterEnd(i)
                   \/ \E name \in Name, s \in SignalId : AppendSignal(i, name, s)
             \/ \E t \in TaskId, token \in Token : LeaseTask(t, token)
             \/ \E d \in Delivery : \/ HeartbeatTask(d) \/ OnTaskComplete(d)
                                   \/ ReadFailingTask(d) \/ ForgetDelivery(d)
             \/ ExpireLeases \/ UNCHANGED vars
      PROVE  UNCHANGED <<timer, batch>>
  BY <1>8 DEF StartInstance, RecordStart, AbortStart, EnterActivity, EnterWaitEarlySignal,
              EnterEnd, AppendSignal, LeaseTask, HeartbeatTask, OnTaskComplete,
              ReadFailingTask, ForgetDelivery, ExpireLeases, vars, stored, volatile
<1>9. ASSUME \/ \E c \in calls : OnTaskFail(c) \/ AbortFail(c)
             \/ \E s \in SignalId : SignalInstance(s) \/ ApplyPendingSignal(s) \/ AbortSignal(s)
      PROVE  UNCHANGED <<timer, batch>>
  BY <1>9 DEF OnTaskFail, FailStale, FailRetry, FailTerminal, AbortFail,
              ApplyPendingSignal, SignalInstance, AbortSignal, stored
<1>10. QED
  BY <1>2, <1>3, <1>4, <1>5, <1>6, <1>7, <1>8, <1>9 DEF Next, Advance

\* The event a handler appends is the last one.
LEMMA LastAppended ==
    ASSUME TypeOK, NEW i \in Instance, NEW e \in Event, AppendEvents(i, <<e>>)
    PROVE  history'[i][Len(history'[i])] = e
<1>1. history[i] \in Seq(Event) /\ history'[i] = history[i] \o <<e>>
  BY DEF AppendEvents, TypeOK
<1>2. QED
  BY SMTT(30), <1>1

\* One step of OwnTimerMovesInstance.
LEMMA OwnTimer ==
    ASSUME Acyclic, Working, Listed, [Next]_vars, NEW i \in Instance,
           inst[i].status = "WAITING", Len(history'[i]) > Len(history[i]),
           history'[i][Len(history'[i])].type = "TIMER_FIRED"
    PROVE  \E tm \in TimerId : /\ Armed(tm)
                               /\ timer[tm].fireIn = 0
                               /\ OfThisVisit(i, timer[tm])
                               /\ timer'[tm].status = "FIRED"
<1>1. Linked /\ TypeOK
  BY DEF Working, Woken, Linked
<1>2. ASSUME history'[i] = history[i]
      PROVE  FALSE
  <2>1. Len(history[i]) \in Nat
    BY SMTT(30), <1>1 DEF TypeOK
  <2>2. QED
    BY SMTT(30), <1>2, <2>1
<1>3. ASSUME NEW e \in Event, AppendEvents(i, <<e>>), e.type # "TIMER_FIRED"
      PROVE  FALSE
  BY <1>1, <1>3, LastAppended
<1>4. ASSUME NEW d \in Delivery, OnTaskComplete(d), MovedByTask(i, d.task)
      PROVE  FALSE
  <2> DEFINE e == Ev("TASK_COMPLETED", task[d.task].step, d.task)
  <2>1. task[d.task].step \in StepId /\ d.task \in Nat
    BY <1>1, <1>4, TaskRefers DEF MovedByTask
  <2>2. e \in Event /\ e.type = "TASK_COMPLETED"
    BY SMTT(30), <2>1 DEF Ev, Event, EventType
  <2>3. AppendEvents(i, <<e>>)
    BY <1>4 DEF OnTaskComplete, MovedByTask
  <2> HIDE DEF e
  <2>4. QED
    BY <1>3, <2>2, <2>3
<1>5. ASSUME NEW c \in calls, NEW retryable \in BOOLEAN, FailTerminal(c, retryable),
             MovedByTask(i, c.task)
      PROVE  FALSE
  <2> DEFINE f == Ev("WORKFLOW_FAILED", task[c.task].step, NoRef)
             e == Ev("TASK_FAILED", task[c.task].step, c.task)
  <2>1. history[i] \in Seq(Event) /\ history'[i] = history[i] \o <<e, f>>
    BY <1>1, <1>5 DEF FailTerminal, MovedByTask, AppendEvents, TypeOK
  <2>2. f.type # "TIMER_FIRED"
    BY SMTT(30) DEF Ev
  <2> HIDE DEF e, f
  <2>3. history'[i][Len(history'[i])] = f
    BY SMTT(30), <2>1
  <2>4. QED
    BY <2>2, <2>3
<1>6. ASSUME NEW l \in Loop, NEW tm \in TimerId, OnTimerFired(l, tm), Exists(timer[tm]),
             timer[tm].inst = i, Parked(i, timer[tm].step)
      PROVE  /\ Armed(tm) /\ timer[tm].fireIn = 0 /\ OfThisVisit(i, timer[tm])
             /\ timer'[tm].status = "FIRED"
  <2>1. Armed(tm) /\ OfThisVisit(i, timer[tm])
    BY <1>6, TimerAtWork
  <2>2. timer[tm].fireIn = 0
    BY <1>6 DEF OnTimerFired, Listed
  <2>3. timer[tm] \in TimerRow
    BY <1>1, <1>6, RowsExist DEF Exists
  <2>4. timer'[tm].status = "FIRED"
    BY <1>1, <1>6, <2>3 DEF OnTimerFired, TypeOK, TimerRow
  <2>5. QED
    BY <2>1, <2>2, <2>4
<1>7. ASSUME NEW e \in Event, AppendEvents(i, <<e>>),
             e.type \in {"WORKFLOW_STARTED", "TASK_RETRY_SCHEDULED"} \/ e.type = "SIGNAL_RECEIVED"
      PROVE  FALSE
  BY <1>3, <1>7
<1>8. \E l \in Loop, tm \in TimerId : /\ OnTimerFired(l, tm) /\ Exists(timer[tm])
                                      /\ timer[tm].inst = i /\ Parked(i, timer[tm].step)
  BY <1>1, <1>2, <1>4, <1>5, <1>7, ParkedSteps
<1>9. QED
  BY <1>6, <1>8

-----------------------------------------------------------------------------
(* The theorems.  Those that assume Acyclic are false with a cycle: the    *)
(* row of an earlier visit then acts on a later visit of its step.         *)

\* An activity is always given the outputs of every step completed before it
\* (PayloadIsCurrent): whatever the definition, cycles included, the context
\* EnqueueTask copied into the payload is still the context of the instance that
\* waits for the task.
THEOREM PayloadStaysCurrent == Spec => []PayloadIsCurrent
<1>1. Init => Working
  BY InitWorking
<1>2. Working /\ [Next]_vars => Working'
  BY NextWorking
<1>3. Working => PayloadIsCurrent
  BY TaskThere DEF Working, Woken, Linked, Supplied, PayloadIsCurrent, OfThisVisit
<1>4. QED
  BY <1>1, <1>2, <1>3, PTL DEF Spec

\* On a definition without cycles no work is handed out for a step the instance
\* has left, and no instance has two open tasks (OpenTaskIsAwaited).
THEOREM NoOrphanTask == Acyclic /\ Spec => []OpenTaskIsAwaited
<1> SUFFICES ASSUME Acyclic
             PROVE  Spec => []OpenTaskIsAwaited
  OBVIOUS
<1>1. Init => Working /\ Awaited
  <2>1. ASSUME Init, NEW t \in TaskId
        PROVE  ~Open(t)
    BY SMTT(30), <2>1 DEF Init, Open, NoRow
  <2>2. QED
    BY <2>1, InitWorking DEF Awaited
<1>2. Working /\ Awaited /\ [Next]_vars => (Working /\ Awaited)'
  BY NextWorking, NextAwaited
<1>3. Working /\ Awaited => OpenTaskIsAwaited
  BY AwaitedOnce
<1>4. QED
  BY <1>1, <1>2, <1>3, PTL DEF Spec

\* On a definition without cycles an instance leaves an activity only on the result
\* of the task that visit enqueued, whatever late or duplicate results arrive
\* (OwnTaskMovesInstance).
THEOREM LateResultsAreNoops == Acyclic /\ Spec => OwnTaskMovesInstance
<1> SUFFICES ASSUME Acyclic
             PROVE  Spec => OwnTaskMovesInstance
  OBVIOUS
<1>1. Init => Working
  BY InitWorking
<1>2. Working /\ [Next]_vars => Working'
  BY NextWorking
<1>3. Working /\ [Next]_vars =>
        [\A i \in Instance :
            /\ inst[i].status = "WAITING"
            /\ StepOf(i).type = "activity"
            /\ inst'[i] # inst[i]
            => \E t \in TaskId : /\ Open(t)
                                 /\ OfThisVisit(i, task[t])
                                 /\ task'[t].status \in {"DONE", "FAILED"}]_vars
  BY OwnTask
<1>4. QED
  BY <1>1, <1>2, <1>3, PTL DEF Spec, OwnTaskMovesInstance

\* On a definition without cycles a wait or a sleep is cut short only by the timer
\* that visit armed, once it is due, whatever other loop has fired it or another
\* timer before (OwnTimerMovesInstance).
THEOREM LateTimersAreNoops == Acyclic /\ Spec => OwnTimerMovesInstance
<1> SUFFICES ASSUME Acyclic
             PROVE  Spec => OwnTimerMovesInstance
  OBVIOUS
<1>1. Init => Working /\ Listed
  BY InitWorking DEF Init, Listed
<1>2. Working /\ Listed /\ [Next]_vars => (Working /\ Listed)'
  BY NextWorking, NextListed DEF Working, Woken
<1>3. Working /\ Listed /\ [Next]_vars =>
        [\A i \in Instance :
            /\ inst[i].status = "WAITING"
            /\ Len(history'[i]) > Len(history[i])
            /\ history'[i][Len(history'[i])].type = "TIMER_FIRED"
            => \E tm \in TimerId : /\ Armed(tm)
                                   /\ timer[tm].fireIn = 0
                                   /\ OfThisVisit(i, timer[tm])
                                   /\ timer'[tm].status = "FIRED"]_vars
  BY OwnTimer
<1>4. QED
  BY <1>1, <1>2, <1>3, PTL DEF Spec, OwnTimerMovesInstance

\* On a definition without cycles a task the Postgres store has marked FAILED stays
\* FAILED (FailedIsFinal): the retry, the one settling call that does not stop at
\* FAILED, finds the instance gone from the task's step.
THEOREM FailureIsFinal == Acyclic /\ Backend = "pg" /\ Spec => FailedIsFinal
<1> SUFFICES ASSUME Acyclic, Backend = "pg"
             PROVE  Spec => FailedIsFinal
  OBVIOUS
<1>1. Init => Working
  BY InitWorking
<1>2. Working /\ [Next]_vars => Working'
  BY NextWorking
<1>3. Working /\ [Next]_vars =>
        [\A t \in TaskId : task[t].status = "FAILED" => task'[t].status = "FAILED"]_vars
  BY FailedStays
<1>4. QED
  BY <1>1, <1>2, <1>3, PTL DEF Spec, FailedIsFinal

=============================================================================
