---------------------------- MODULE KernelProofs ----------------------------
(***************************************************************************)
(* Proofs about the kernel, for every definition Validate accepts (cycles  *)
(* included), any number of instances, tasks, timers, signals, workers and *)
(* timer loops, and both stores: types and references, and the few shapes  *)
(* a step has as far as instances and their logs go (NextShapes), on which *)
(* the other proofs about the kernel rest.                                 *)
(***************************************************************************)
EXTENDS KernelProperties, TLAPS

\* A leaf is left to Zenon unless it names the SMT solver.
USE ZenonT(30)

-----------------------------------------------------------------------------
(* What Validate guarantees about successors.                              *)

\* Every step but an end step has a successor that exists, and so has every
\* wait with a timeout on its timeout branch (the checks of Validate).
LEMMA SuccessorsExist ==
    /\ Def.initial \in StepId
    /\ \A id \in StepId :
          /\ Def.steps[id].type \in StepType
          /\ Def.steps[id].type # "end" => Def.steps[id].next \in StepId
          /\ Def.steps[id].type = "wait_signal" /\ Def.steps[id].timeoutAfter > 0
                => Def.steps[id].timeoutNext \in StepId
          /\ Def.steps[id].sleepFor \in Int
          /\ Def.steps[id].timeoutAfter \in Int
          /\ Def.steps[id].type = "sleep_until" => Def.steps[id].sleepFor > 0
<1>1. /\ Def.initial \in StepId
      /\ Def.steps \in [StepId -> Step(StepId, Name)]
  BY DefinitionAssumption
<1>2. SUFFICES ASSUME NEW id \in StepId
               PROVE  /\ Def.steps[id].type \in StepType
                      /\ Def.steps[id].type # "end" => Def.steps[id].next \in StepId
                      /\ Def.steps[id].type = "wait_signal" /\ Def.steps[id].timeoutAfter > 0
                            => Def.steps[id].timeoutNext \in StepId
                      /\ Def.steps[id].sleepFor \in Int
                      /\ Def.steps[id].timeoutAfter \in Int
                      /\ Def.steps[id].type = "sleep_until" => Def.steps[id].sleepFor > 0
  BY <1>1
<1> DEFINE s == Def.steps[id]
<1>3. s \in Step(StepId, Name)
  BY <1>1
<1>4. FieldsPresent(s)
  BY <1>1, DefinitionAssumption DEF WellFormed
<1>5. s.type \in StepType /\ s.next \in StepId \cup {NoStep}
      /\ s.timeoutNext \in StepId \cup {NoStep} /\ s.timeoutAfter \in Int
      /\ s.sleepFor \in Int
  BY <1>3 DEF Step
<1>6. QED
  BY <1>4, <1>5 DEF FieldsPresent, StepType

-----------------------------------------------------------------------------
(* Types and references.                                                   *)

Linked == TypeOK /\ RowsLinked

\* A row with any other status than ABSENT is there.
LEMMA RowsExist ==
    ASSUME TypeOK
    PROVE  /\ \A i \in Instance : inst[i] # NoRow => inst[i] \in InstanceRow
           /\ \A t \in TaskId : task[t] # NoRow => task[t] \in TaskRow
           /\ \A tm \in TimerId : timer[tm] # NoRow => timer[tm] \in TimerRow
           /\ \A s \in SignalId : signal[s] # NoRow => signal[s] \in SignalRow
           /\ NoRow.status = "ABSENT"
  BY DEF TypeOK, NoRow

\* An empty database is linked.
LEMMA InitLinked == Init => Linked
  BY SMTT(30) DEF Init, Linked, TypeOK, RowsLinked, Exists, NoRow

\* CreateInstance in StartInstance keeps the rows typed and linked.
LEMMA StartLinked ==
    ASSUME Linked, NEW i \in Instance, NEW key \in Key, StartInstance(i, key)
    PROVE  Linked'
<1> USE DEF Exists
<1>1. inst[i] = NoRow
  BY DEF StartInstance
<1>2. inst'[i] \in InstanceRow /\ inst'[i] # NoRow
  BY SuccessorsExist DEF StartInstance, InstanceRow, Context, Linked, TypeOK, NoRow
<1>3. TypeOK'
  BY <1>2 DEF StartInstance, Linked, TypeOK
<1>4. \A j \in Instance : j # i => inst'[j] = inst[j]
  BY DEF StartInstance, Linked, TypeOK
<1>5. RowsLinked'
  BY SMTT(30), <1>1, <1>2, <1>4, RowsExist DEF StartInstance, Linked, RowsLinked, TaskRow, TimerRow, SignalRow
<1>6. QED
  BY <1>3, <1>5 DEF Linked

-----------------------------------------------------------------------------
(* What the store operations keep.                                         *)

InstGrows ==
    /\ inst' \in [Instance -> InstanceRow \cup {NoRow}]
    /\ \A j \in Instance : Exists(inst[j]) =>
          Exists(inst'[j]) /\ inst'[j].rowVersion >= inst[j].rowVersion

TasksKept ==
    /\ task' \in [TaskId -> TaskRow \cup {NoRow}]
    /\ \A t \in TaskId :
          /\ Exists(task'[t]) <=> Exists(task[t])
          /\ Exists(task[t]) => /\ task'[t].inst = task[t].inst
                                /\ task'[t].step = task[t].step
                                /\ task'[t].visit = task[t].visit

TimersKept ==
    /\ timer' \in [TimerId -> TimerRow \cup {NoRow}]
    /\ \A tm \in TimerId :
          /\ Exists(timer'[tm]) <=> Exists(timer[tm])
          /\ Exists(timer[tm]) => /\ timer'[tm].inst = timer[tm].inst
                                  /\ timer'[tm].step = timer[tm].step
                                  /\ timer'[tm].kind = timer[tm].kind
                                  /\ timer'[tm].visit = timer[tm].visit

SignalsKept ==
    /\ signal' \in [SignalId -> SignalRow \cup {NoRow}]
    /\ \A s \in SignalId :
          /\ Exists(signal'[s]) <=> Exists(signal[s])
          /\ Exists(signal[s]) => signal'[s].inst = signal[s].inst

\* At most one row is added; everything else about the table is kept.
TaskAdded(row) ==
    /\ row \in TaskRow
    /\ Exists(inst'[row.inst])
    /\ Def.steps[row.step].type = "activity"
    /\ row.visit < inst'[row.inst].rowVersion
    /\ \E t \in TaskId : ~Exists(task[t]) /\ task' = [task EXCEPT ![t] = row]

TimerAdded(row) ==
    /\ row \in TimerRow
    /\ Exists(inst'[row.inst])
    /\ \/ row.kind = "sleep" /\ Def.steps[row.step].type = "sleep_until"
       \/ /\ row.kind = "signal_timeout"
          /\ Def.steps[row.step].type = "wait_signal"
          /\ Def.steps[row.step].timeoutAfter > 0
    /\ \E tm \in TimerId : ~Exists(timer[tm]) /\ timer' = [timer EXCEPT ![tm] = row]

SignalAdded(row) ==
    /\ row \in SignalRow
    /\ Exists(inst'[row.inst])
    /\ \E s \in SignalId : ~Exists(signal[s]) /\ signal' = [signal EXCEPT ![s] = row]

\* A table that a transaction leaves alone keeps its rows.
LEMMA UnchangedKept ==
    ASSUME TypeOK
    PROVE  /\ UNCHANGED inst => InstGrows
           /\ UNCHANGED task => TasksKept
           /\ UNCHANGED timer => TimersKept
           /\ UNCHANGED signal => SignalsKept
<1>1. \A j \in Instance : Exists(inst[j]) => inst[j].rowVersion \in Nat
  BY RowsExist DEF Exists, InstanceRow
<1>2. QED
  BY SMTT(30), <1>1 DEF TypeOK, InstGrows, TasksKept, TimersKept, SignalsKept

\* UpdateInstance, in its three uses, replaces one row by one of a higher version.
LEMMA UpdateGrows ==
    ASSUME TypeOK, NEW i \in Instance, Exists(inst[i])
    PROVE  /\ Park(i) => InstGrows
           /\ \A to \in StepId, context \in Context : Move(i, to, context) => InstGrows
           /\ \A status \in {"SUCCEEDED", "FAILED"} : Finish(i, status) => InstGrows
<1> USE DEF Exists
<1>1. inst[i] \in InstanceRow
  BY RowsExist
<1>2. \A j \in Instance : inst[j] # NoRow => inst[j].rowVersion \in Nat
  BY RowsExist DEF InstanceRow
<1>3. ASSUME NEW row \in InstanceRow, row.rowVersion = inst[i].rowVersion,
             UpdateInstance(i, row)
      PROVE  InstGrows
  <2> DEFINE new == [row EXCEPT !.rowVersion = row.rowVersion + 1]
  <2>1. new \in InstanceRow /\ new.rowVersion = inst[i].rowVersion + 1
    BY SMTT(30), <1>3 DEF InstanceRow
  <2>2. new # NoRow
    BY <2>1 DEF InstanceRow, NoRow
  <2>3. inst' = [inst EXCEPT ![i] = new]
    BY <1>3 DEF UpdateInstance
  <2> HIDE DEF new
  <2>4. QED
    BY SMTT(30), <1>2, <2>1, <2>2, <2>3 DEF TypeOK, InstGrows
<1>4. ASSUME Park(i) PROVE InstGrows
  <2>1. /\ [inst[i] EXCEPT !.status = "WAITING"] \in InstanceRow
        /\ [inst[i] EXCEPT !.status = "WAITING"].rowVersion = inst[i].rowVersion
    BY <1>1 DEF InstanceRow
  <2>2. QED
    BY <1>3, <1>4, <2>1 DEF Park
<1>5. ASSUME NEW to \in StepId, NEW context \in Context, Move(i, to, context)
      PROVE InstGrows
  <2> DEFINE row == [inst[i] EXCEPT !.status = "RUNNABLE", !.step = to,
                                    !.context = context]
  <2>1. row \in InstanceRow /\ row.rowVersion = inst[i].rowVersion
    BY <1>1 DEF InstanceRow
  <2>2. QED
    BY <1>3, <1>5, <2>1 DEF Move
<1>6. ASSUME NEW status \in {"SUCCEEDED", "FAILED"}, Finish(i, status)
      PROVE InstGrows
  <2>1. /\ [inst[i] EXCEPT !.status = status] \in InstanceRow
        /\ [inst[i] EXCEPT !.status = status].rowVersion = inst[i].rowVersion
    BY <1>1 DEF InstanceRow
  <2>2. QED
    BY <1>3, <1>6, <2>1 DEF Finish
<1>7. QED
  BY <1>4, <1>5, <1>6

\* Changing one task row and none of its identity.
LEMMA TaskRowKept ==
    ASSUME TypeOK, NEW t \in TaskId, NEW row \in TaskRow, Exists(task[t]),
           row.inst = task[t].inst, row.step = task[t].step, row.visit = task[t].visit,
           task' = [task EXCEPT ![t] = row]
    PROVE  TasksKept
<1>1. row # NoRow
  BY SMTT(30) DEF TaskRow, NoRow
<1>2. QED
  BY <1>1 DEF TypeOK, TasksKept, Exists

\* CompleteTask, FailTask and RequeueTask keep what a task row refers to.
LEMMA SettleKept ==
    ASSUME TypeOK, NEW t \in TaskId, Exists(task[t])
    PROVE  /\ \A noop : \A status \in {"DONE", "FAILED"} :
                 Settle(t, noop, status) => TasksKept
           /\ \A attempt \in Nat \ {0}, ticks \in Nat :
                 RequeueTask(t, attempt, ticks) => TasksKept
<1>1. task[t] \in TaskRow
  BY RowsExist DEF Exists
<1>2. ASSUME NEW noop, NEW status \in {"DONE", "FAILED"}, Settle(t, noop, status)
      PROVE  TasksKept
  <2>1. CASE UNCHANGED task
    BY <2>1, UnchangedKept
  <2>2. CASE task' = [task EXCEPT ![t].status = status]
    BY <1>1, <2>2, TaskRowKept DEF TaskRow
  <2>3. QED
    BY <1>2, <2>1, <2>2 DEF Settle
<1>3. ASSUME NEW attempt \in Nat \ {0}, NEW ticks \in Nat, RequeueTask(t, attempt, ticks)
      PROVE  TasksKept
  <2>1. CASE UNCHANGED task
    BY <2>1, UnchangedKept
  <2>2. CASE ~UNCHANGED task
    <3> DEFINE row == [task[t] EXCEPT !.status = "QUEUED", !.attempt = attempt,
                                      !.visibleIn = ticks, !.token = NoToken,
                                      !.expiresIn = 0]
    <3>1. row \in TaskRow /\ row.inst = task[t].inst /\ row.step = task[t].step
          /\ row.visit = task[t].visit
      BY <1>1 DEF TaskRow
    <3>2. task' = [task EXCEPT ![t] = row]
      BY <1>3, <2>2 DEF RequeueTask
    <3>3. QED
      BY <3>1, <3>2, TaskRowKept
  <2>3. QED
    BY <2>1, <2>2
<1>4. QED
  BY <1>2, <1>3

\* A countdown stays a natural number.
LEMMA LessNat == \A n \in Nat : Less(n) \in Nat
  BY SMTT(30) DEF Less

\* Leasing, heartbeats, the sweeper and the clock.
LEMMA QueueKept ==
    ASSUME TypeOK
    PROVE  /\ \A t \in TaskId, token \in Token : LeaseTask(t, token) => TasksKept
           /\ \A d \in Delivery : HeartbeatTask(d) => TasksKept
           /\ ExpireLeases => TasksKept
           /\ Tick => TasksKept
<1> USE DEF Exists
<1>1. \A t \in TaskId : task[t].status # "ABSENT" => task[t] # NoRow /\ task[t] \in TaskRow
  BY RowsExist
<1>2. ASSUME NEW t \in TaskId, NEW token \in Token, LeaseTask(t, token)
      PROVE  TasksKept
  <2> DEFINE row == [task[t] EXCEPT !.status = "LEASED", !.token = token,
                                    !.expiresIn = LeaseFor]
  <2>1. task[t] # NoRow /\ task[t] \in TaskRow /\ task' = [task EXCEPT ![t] = row]
    BY <1>1, <1>2 DEF LeaseTask
  <2>2. row \in TaskRow /\ row.inst = task[t].inst /\ row.step = task[t].step
        /\ row.visit = task[t].visit
    BY <2>1, TimeAssumption DEF TaskRow
  <2>3. QED
    BY <2>1, <2>2, TaskRowKept
<1>3. ASSUME NEW d \in Delivery, HeartbeatTask(d)
      PROVE  TasksKept
  <2> DEFINE t == d.task
             row == [task[t] EXCEPT !.expiresIn = LeaseFor]
  <2>1. t \in TaskId /\ task[t] # NoRow /\ task[t] \in TaskRow
        /\ task' = [task EXCEPT ![t] = row]
    BY <1>1, <1>3 DEF HeartbeatTask, Delivery
  <2>2. row \in TaskRow /\ row.inst = task[t].inst /\ row.step = task[t].step
        /\ row.visit = task[t].visit
    BY <2>1, TimeAssumption DEF TaskRow
  <2>3. QED
    BY <2>1, <2>2, TaskRowKept
<1>4. ASSUME ExpireLeases PROVE TasksKept
  <2>1. \A t \in TaskId :
           LET row == [task[t] EXCEPT !.status = "QUEUED", !.token = NoToken,
                                      !.expiresIn = 0]
           IN  Expired(t) => /\ task[t] # NoRow
                             /\ row \in TaskRow /\ row # NoRow
                             /\ row.inst = task[t].inst /\ row.step = task[t].step
                             /\ row.visit = task[t].visit
    BY <1>1 DEF Expired, TaskRow, NoRow
  <2>2. QED
    BY <1>4, <2>1 DEF ExpireLeases, TasksKept, TypeOK
<1>5. ASSUME Tick PROVE TasksKept
  <2>1. \A t \in TaskId :
           LET row == [task[t] EXCEPT !.visibleIn = Less(@), !.expiresIn = Less(@)]
           IN  Open(t) => /\ task[t] # NoRow
                          /\ row \in TaskRow /\ row # NoRow
                          /\ row.inst = task[t].inst /\ row.step = task[t].step
                          /\ row.visit = task[t].visit
    BY <1>1, LessNat DEF Open, TaskRow, NoRow
  <2>2. QED
    BY <1>5, <2>1 DEF Tick, TasksKept, TypeOK
<1>6. QED
  BY <1>2, <1>3, <1>4, <1>5

\* MarkTimerFired, the clock and ConsumeSignal keep what a row refers to.
LEMMA TimerAndSignalKept ==
    ASSUME TypeOK
    PROVE  /\ \A l \in Loop, tm \in TimerId :
                 Exists(timer[tm]) /\ OnTimerFired(l, tm) => TimersKept
           /\ Tick => TimersKept
           /\ \A s \in SignalId : Exists(signal[s]) /\ ConsumeSignal(s) => SignalsKept
<1> USE DEF Exists
<1>1. \A tm \in TimerId : timer[tm] # NoRow => timer[tm] \in TimerRow
  BY RowsExist
<1>2. ASSUME NEW l \in Loop, NEW tm \in TimerId, timer[tm] # NoRow, OnTimerFired(l, tm)
      PROVE  TimersKept
  <2> DEFINE row == [timer[tm] EXCEPT !.status = "FIRED"]
  <2>1. row \in TimerRow /\ row # NoRow /\ row.inst = timer[tm].inst
        /\ row.step = timer[tm].step /\ row.kind = timer[tm].kind
        /\ row.visit = timer[tm].visit
    BY <1>1, <1>2 DEF TimerRow, NoRow
  <2>2. timer' = [timer EXCEPT ![tm] = row]
    BY <1>2 DEF OnTimerFired
  <2> HIDE DEF row
  <2>3. QED
    BY <1>2, <2>1, <2>2 DEF TimersKept, TypeOK
<1>3. ASSUME Tick PROVE TimersKept
  <2>1. \A tm \in TimerId :
           LET row == [timer[tm] EXCEPT !.fireIn = Less(@)]
           IN  Armed(tm) => /\ timer[tm] # NoRow
                            /\ row \in TimerRow /\ row # NoRow
                            /\ row.inst = timer[tm].inst /\ row.step = timer[tm].step
                            /\ row.kind = timer[tm].kind /\ row.visit = timer[tm].visit
    BY <1>1, RowsExist, LessNat DEF Armed, TimerRow, NoRow
  <2>2. QED
    BY <1>3, <2>1 DEF Tick, TimersKept, TypeOK
<1>4. ASSUME NEW s \in SignalId, signal[s] # NoRow, ConsumeSignal(s)
      PROVE  SignalsKept
  <2> DEFINE row == [signal[s] EXCEPT !.status = "CONSUMED"]
  <2>1. row \in SignalRow /\ row # NoRow /\ row.inst = signal[s].inst
    BY <1>4, RowsExist DEF SignalRow, NoRow
  <2>2. signal' = [signal EXCEPT ![s] = row]
    BY <1>4 DEF ConsumeSignal
  <2> HIDE DEF row
  <2>3. QED
    BY <1>4, <2>1, <2>2 DEF SignalsKept, TypeOK
<1>5. QED
  BY <1>2, <1>3, <1>4

\* Ev builds an event, and a history of one event.
LEMMA EventTyped ==
    ASSUME NEW type \in EventType, NEW step \in StepId, NEW ref \in Nat
    PROVE  /\ Ev(type, step, ref) \in Event
           /\ <<Ev(type, step, ref)>> \in Seq(Event)
<1>1. Ev(type, step, ref) \in Event
  BY DEF Ev, Event
<1>2. QED
  BY SMTT(30), <1>1

\* AppendEvent keeps the histories typed.
LEMMA AppendTyped ==
    ASSUME TypeOK, NEW i \in Instance, NEW events \in Seq(Event),
           AppendEvents(i, events)
    PROVE  history' \in [Instance -> Seq(Event)]
<1>1. history[i] \o events \in Seq(Event)
  BY SMTT(30) DEF TypeOK
<1>2. QED
  BY <1>1 DEF AppendEvents, TypeOK

\* EnqueueOutbox keeps the outbox typed.
LEMMA OutboxTyped ==
    ASSUME TypeOK, NEW i \in Instance, NEW type \in EventType,
           EnqueueOutbox(i, type)
    PROVE  outbox' \in Seq([inst : Instance, type : EventType])
<1>1. [inst |-> i, type |-> type] \in [inst : Instance, type : EventType]
  OBVIOUS
<1>2. QED
  BY SMTT(30), <1>1 DEF EnqueueOutbox, TypeOK

LogsTyped ==
    /\ history' \in [Instance -> Seq(Event)]
    /\ outbox' \in Seq([inst : Instance, type : EventType])

\* No call in flight refers to a row that is not there.
CallsLinked ==
    /\ held' \subseteq Delivery /\ \A d \in held' : Exists(task'[d.task])
    /\ starting' \subseteq Instance
    /\ calls' \subseteq FailCall /\ \A c \in calls' : Exists(task'[c.task])
    /\ signalling' \subseteq SignalId
    /\ batch' \in [Loop -> SUBSET TimerId]
    /\ \A l \in Loop : \A tm \in batch'[l] : Exists(timer'[tm])

\* Rows once there stay there.
RowsStay ==
    /\ \A t \in TaskId : Exists(task[t]) => Exists(task'[t])
    /\ \A tm \in TimerId : Exists(timer[tm]) => Exists(timer'[tm])
    /\ \A s \in SignalId : Exists(signal[s]) => Exists(signal'[s])

\* When row versions only grow, a tasks table that is kept, or gains a task of the
\* step its instance is parked on, stays typed and linked.
LEMMA TaskTable ==
    ASSUME Linked, InstGrows, TasksKept \/ \E row : TaskAdded(row)
    PROVE  /\ task' \in [TaskId -> TaskRow \cup {NoRow}]
           /\ \A t \in TaskId : Exists(task[t]) => Exists(task'[t])
           /\ \A t \in TaskId : Exists(task'[t]) =>
                 /\ Exists(inst'[task'[t].inst])
                 /\ Def.steps[task'[t].step].type = "activity"
                 /\ task'[t].visit < inst'[task'[t].inst].rowVersion
<1>1. TypeOK /\ RowsLinked
  BY DEF Linked
<1>2. ASSUME NEW t \in TaskId, Exists(task[t]), Exists(task'[t]),
             task'[t].inst = task[t].inst, task'[t].step = task[t].step,
             task'[t].visit = task[t].visit
      PROVE  /\ Exists(inst'[task'[t].inst])
             /\ Def.steps[task'[t].step].type = "activity"
             /\ task'[t].visit < inst'[task'[t].inst].rowVersion
  <2>1. /\ Exists(inst[task[t].inst]) /\ task[t].visit < inst[task[t].inst].rowVersion
        /\ Def.steps[task[t].step].type = "activity"
    BY <1>1, <1>2 DEF RowsLinked
  <2>2. task[t].inst \in Instance /\ task[t].visit \in Nat
        /\ inst[task[t].inst].rowVersion \in Nat
    BY <1>1, <1>2, <2>1, RowsExist DEF Exists, TaskRow, InstanceRow
  <2>3. /\ Exists(inst'[task[t].inst])
        /\ inst'[task[t].inst].rowVersion >= inst[task[t].inst].rowVersion
        /\ inst'[task[t].inst].rowVersion \in Nat
    BY <2>1, <2>2 DEF InstGrows, InstanceRow, Exists
  <2>4. QED
    BY SMTT(30), <1>2, <2>1, <2>2, <2>3
<1>3. CASE TasksKept
  BY SMTT(30), <1>2, <1>3 DEF TasksKept
<1>4. CASE \E row : TaskAdded(row)
  <2>1. PICK row : TaskAdded(row)
    BY <1>4
  <2>2. PICK n \in TaskId : ~Exists(task[n]) /\ task' = [task EXCEPT ![n] = row]
    BY <2>1 DEF TaskAdded
  <2>3. row \in TaskRow /\ Exists(row)
    BY SMTT(30), <2>1 DEF TaskAdded, TaskRow, Exists, NoRow
  <2>4. /\ task' \in [TaskId -> TaskRow \cup {NoRow}]
        /\ task'[n] = row /\ \A t \in TaskId : t # n => task'[t] = task[t]
    BY <1>1, <2>2, <2>3 DEF TypeOK
  <2>5. QED
    BY <1>2, <2>1, <2>2, <2>3, <2>4 DEF TaskAdded
<1>5. QED
  BY <1>3, <1>4

\* The same of the timers table, with the kind of step a timer belongs to.
LEMMA TimerTable ==
    ASSUME Linked, InstGrows, TimersKept \/ \E row : TimerAdded(row)
    PROVE  /\ timer' \in [TimerId -> TimerRow \cup {NoRow}]
           /\ \A tm \in TimerId : Exists(timer[tm]) => Exists(timer'[tm])
           /\ \A tm \in TimerId : Exists(timer'[tm]) =>
                 /\ Exists(inst'[timer'[tm].inst])
                 /\ \/ /\ timer'[tm].kind = "sleep"
                       /\ Def.steps[timer'[tm].step].type = "sleep_until"
                    \/ /\ timer'[tm].kind = "signal_timeout"
                       /\ Def.steps[timer'[tm].step].type = "wait_signal"
                       /\ Def.steps[timer'[tm].step].timeoutAfter > 0
<1>1. TypeOK /\ RowsLinked
  BY DEF Linked
<1>2. \A tm \in TimerId : Exists(timer[tm]) =>
         timer[tm].inst \in Instance /\ Exists(inst'[timer[tm].inst])
  BY SMTT(30), <1>1, RowsExist DEF Exists, TimerRow, RowsLinked, InstGrows
<1>3. CASE TimersKept
  BY SMTT(30), <1>1, <1>2, <1>3 DEF TimersKept, RowsLinked
<1>4. CASE \E row : TimerAdded(row)
  <2>1. PICK row : TimerAdded(row)
    BY <1>4
  <2>2. PICK n \in TimerId : ~Exists(timer[n]) /\ timer' = [timer EXCEPT ![n] = row]
    BY <2>1 DEF TimerAdded
  <2>3. row \in TimerRow /\ Exists(row)
    BY SMTT(30), <2>1 DEF TimerAdded, TimerRow, Exists, NoRow
  <2>4. /\ timer' \in [TimerId -> TimerRow \cup {NoRow}]
        /\ timer'[n] = row /\ \A tm \in TimerId : tm # n => timer'[tm] = timer[tm]
    BY <1>1, <2>2, <2>3 DEF TypeOK
  <2>5. QED
    BY <1>1, <1>2, <2>1, <2>2, <2>3, <2>4 DEF TimerAdded, RowsLinked
<1>5. QED
  BY <1>3, <1>4

\* The same of the signals table.
LEMMA SignalTable ==
    ASSUME Linked, InstGrows, SignalsKept \/ \E row : SignalAdded(row)
    PROVE  /\ signal' \in [SignalId -> SignalRow \cup {NoRow}]
           /\ \A s \in SignalId : Exists(signal[s]) => Exists(signal'[s])
           /\ \A s \in SignalId : Exists(signal'[s]) => Exists(inst'[signal'[s].inst])
<1>1. TypeOK /\ RowsLinked
  BY DEF Linked
<1>2. \A s \in SignalId : Exists(signal[s]) => Exists(inst'[signal[s].inst])
  BY <1>1, RowsExist DEF Exists, SignalRow, RowsLinked, InstGrows
<1>3. CASE SignalsKept
  BY <1>2, <1>3 DEF SignalsKept
<1>4. CASE \E row : SignalAdded(row)
  <2>1. PICK row : SignalAdded(row)
    BY <1>4
  <2>2. row \in SignalRow /\ Exists(row)
    BY SMTT(30), <2>1 DEF SignalAdded, SignalRow, Exists, NoRow
  <2>3. QED
    BY SMTT(30), <1>1, <1>2, <2>1, <2>2 DEF SignalAdded, TypeOK
<1>5. QED
  BY <1>3, <1>4

\* A step keeps every reference when it updates instances upwards, keeps rows
\* or adds linked ones, and leaves no call that refers to nothing.
LEMMA LinkedFrame ==
    ASSUME Linked, InstGrows, LogsTyped,
           TasksKept \/ \E row : TaskAdded(row),
           TimersKept \/ \E row : TimerAdded(row),
           SignalsKept \/ \E row : SignalAdded(row),
           RowsStay => CallsLinked
    PROVE  Linked'
<1>1. RowsStay
  BY TaskTable, TimerTable, SignalTable DEF RowsStay
<1>2. CallsLinked
  BY SMTT(30), <1>1
<1>3. TypeOK'
  BY SMTT(30), <1>2, TaskTable, TimerTable, SignalTable DEF TypeOK, CallsLinked, LogsTyped, InstGrows
<1>4. RowsLinked'
  BY <1>2, TaskTable, TimerTable, SignalTable DEF RowsLinked, CallsLinked, Exists
<1>5. QED
  BY <1>3, <1>4 DEF Linked

\* Calls in flight stay linked while rows are never deleted.
LEMMA VolatileKept ==
    ASSUME Linked
    PROVE  /\ UNCHANGED volatile => (RowsStay => CallsLinked)
           /\ UNCHANGED <<history, outbox>> => LogsTyped
  BY DEF Linked, TypeOK, RowsLinked, volatile, CallsLinked, RowsStay, LogsTyped,
         Delivery, FailCall

-----------------------------------------------------------------------------
(* Each action keeps types and references.                                 *)

\* The start event of StartInstance keeps the rows typed and linked.
LEMMA RecordStartLinked ==
    ASSUME Linked, NEW i \in Instance, RecordStart(i)
    PROVE  Linked'
<1>1. TypeOK
  BY DEF Linked
<1>2. InstGrows /\ TasksKept /\ TimersKept /\ SignalsKept
  BY <1>1, UnchangedKept DEF RecordStart
<1>3. /\ Def.initial \in StepId /\ NoRef \in Nat
      /\ "WORKFLOW_STARTED" \in EventType
  BY SuccessorsExist DEF EventType, NoRef
<1>4. <<Ev("WORKFLOW_STARTED", Def.initial, NoRef)>> \in Seq(Event)
  BY <1>3, EventTyped
<1>5. LogsTyped
  BY <1>1, <1>3, <1>4, AppendTyped, OutboxTyped DEF RecordStart, LogsTyped
<1>6. RowsStay => CallsLinked
  BY DEF RecordStart, RowsStay, CallsLinked, Linked, TypeOK, RowsLinked
<1>7. QED
  BY <1>2, <1>5, <1>6, LinkedFrame

\* Calls that end, or are cut short, without a trace in the store.
LEMMA AbortLinked ==
    ASSUME Linked
    PROVE  /\ \A i \in Instance : AbortStart(i) => Linked'
           /\ \A d \in Delivery : ForgetDelivery(d) \/ ReadFailingTask(d) => Linked'
           /\ \A c \in calls : AbortFail(c) => Linked'
           /\ \A s \in SignalId : SignalInstance(s) \/ AbortSignal(s) => Linked'
           /\ \A l \in Loop : ListDueTimers(l) \/ AbortBatch(l) => Linked'
<1>1. TypeOK
  BY DEF Linked
<1>2. ASSUME UNCHANGED stored, RowsStay => CallsLinked PROVE Linked'
  <2>1. InstGrows /\ TasksKept /\ TimersKept /\ SignalsKept /\ LogsTyped
    BY SMTT(30), <1>1, <1>2, UnchangedKept, VolatileKept DEF stored
  <2>2. QED
    BY <1>2, <2>1, LinkedFrame
<1> USE DEF CallsLinked, RowsStay, Linked, TypeOK, RowsLinked, Delivery, FailCall
<1>3. ASSUME NEW i \in Instance, AbortStart(i) PROVE (RowsStay => CallsLinked) /\ UNCHANGED stored
  BY SMTT(30), <1>3 DEF AbortStart
<1>4. ASSUME NEW d \in Delivery, ForgetDelivery(d) PROVE (RowsStay => CallsLinked) /\ UNCHANGED stored
  BY SMTT(30), <1>4 DEF ForgetDelivery
<1>5. ASSUME NEW d \in Delivery, ReadFailingTask(d) PROVE (RowsStay => CallsLinked) /\ UNCHANGED stored
  <2>1. task[d.task] \in TaskRow /\ Exists(task[d.task]) /\ d.task \in TaskId /\ d.token \in Token
    BY <1>1, <1>5, RowsExist DEF ReadFailingTask, Delivery, Exists
  <2>2. [task |-> d.task, token |-> d.token, attempt |-> task[d.task].attempt] \in FailCall
    BY <2>1 DEF FailCall, TaskRow
  <2>3. QED
    BY <1>5, <2>1, <2>2 DEF ReadFailingTask
<1>6. ASSUME NEW c \in calls, AbortFail(c) PROVE (RowsStay => CallsLinked) /\ UNCHANGED stored
  BY SMTT(30), <1>6 DEF AbortFail
<1>7. ASSUME NEW s \in SignalId, SignalInstance(s) \/ AbortSignal(s)
      PROVE  (RowsStay => CallsLinked) /\ UNCHANGED stored
  BY SMTT(30), <1>7 DEF SignalInstance, AbortSignal
<1>8. ASSUME NEW l \in Loop, ListDueTimers(l) PROVE (RowsStay => CallsLinked) /\ UNCHANGED stored
  <2>1. Due \subseteq TimerId /\ \A tm \in Due : Exists(timer[tm])
    BY SMTT(30), RowsExist DEF Due, Exists
  <2>2. QED
    BY SMTT(30), <1>8, <2>1 DEF ListDueTimers
<1>9. ASSUME NEW l \in Loop, AbortBatch(l) PROVE (RowsStay => CallsLinked) /\ UNCHANGED stored
  BY <1>9 DEF AbortBatch
<1> QED
  BY <1>2, <1>3, <1>4, <1>5, <1>6, <1>7, <1>8, <1>9

\* A runnable instance is a row at a step of the given type.
LEMMA RunnableAt ==
    ASSUME TypeOK, NEW i \in Instance, NEW type, Runnable(i, type)
    PROVE  /\ inst[i] \in InstanceRow /\ Exists(inst[i])
           /\ inst[i].step \in StepId /\ inst[i].rowVersion \in Nat
           /\ inst[i].context \in Context
           /\ Def.steps[inst[i].step].type = type
  BY RowsExist DEF Runnable, StepOf, Exists, InstanceRow

\* Parking leaves the row one version on, at the same step.
LEMMA Parks ==
    ASSUME TypeOK, NEW i \in Instance, Exists(inst[i]), Park(i)
    PROVE  /\ Exists(inst'[i])
           /\ inst'[i].status = "WAITING"
           /\ inst'[i].step = inst[i].step
           /\ inst'[i].context = inst[i].context
           /\ inst'[i].rowVersion = inst[i].rowVersion + 1
           /\ \A j \in Instance : j # i => inst'[j] = inst[j]
<1>1. inst[i] \in InstanceRow
  BY RowsExist DEF Exists
<1>2. inst'[i].status # NoRow.status
  BY <1>1 DEF Park, UpdateInstance, TypeOK, InstanceRow, NoRow
<1>3. QED
  BY <1>1, <1>2 DEF Park, UpdateInstance, TypeOK, InstanceRow, Exists

\* The key enterStep builds is new, so a task is always inserted.
LEMMA EnqueueAdds ==
    ASSUME Linked, NEW i \in Instance, EnterActivity(i)
    PROVE  \E row \in TaskRow :
              /\ TaskAdded(row)
              /\ row.status = "QUEUED"
              /\ row.inst = i
              /\ row.step = inst[i].step
              /\ row.visit = inst[i].rowVersion
              /\ row.payload = inst[i].context
              /\ row.attempt = 1
              /\ row.token = NoToken
<1>1. TypeOK /\ RowsLinked /\ Runnable(i, "activity") /\ Park(i)
  BY DEF Linked, EnterActivity
<1>2. /\ inst[i] \in InstanceRow /\ Exists(inst[i])
      /\ inst[i].step \in StepId /\ inst[i].rowVersion \in Nat
      /\ inst[i].context \in Context
      /\ Def.steps[inst[i].step].type = "activity"
  BY <1>1, RunnableAt
<1>3. ~KeyTaken(i, inst[i].step, inst[i].rowVersion)
  BY SMTT(30), <1>1, <1>2 DEF KeyTaken, RowsLinked
<1> DEFINE row == [status    |-> "QUEUED",
                   inst      |-> i,
                   step      |-> inst[i].step,
                   visit     |-> inst[i].rowVersion,
                   payload   |-> ContextPayload(i),
                   attempt   |-> 1,
                   visibleIn |-> 0,
                   token     |-> NoToken,
                   expiresIn |-> 0]
<1>4. \E t \in TaskId : ~Exists(task[t]) /\ task' = [task EXCEPT ![t] = row]
  BY <1>3 DEF EnterActivity, EnqueueTask
<1>5. row \in TaskRow
  <2>1. ContextPayload(i) \in Context
    BY <1>2 DEF ContextPayload
  <2>2. inst[i].step \in StepId /\ inst[i].rowVersion \in Nat
    BY <1>2
  <2>3. QED
    BY SMTT(30), <2>1, <2>2 DEF TaskRow
<1>6. /\ row.status = "QUEUED" /\ row.inst = i
      /\ row.step = inst[i].step /\ row.visit = inst[i].rowVersion
      /\ row.payload = inst[i].context /\ row.attempt = 1 /\ row.token = NoToken
  BY DEF ContextPayload
<1> HIDE DEF row
<1>7. Exists(inst'[i]) /\ inst'[i].rowVersion = inst[i].rowVersion + 1
  BY <1>1, <1>2, Parks
<1>8. /\ Exists(inst'[row.inst])
      /\ row.visit < inst'[row.inst].rowVersion
      /\ Def.steps[row.step].type = "activity"
  BY SMTT(30), <1>2, <1>6, <1>7
<1>9. TaskAdded(row)
  BY <1>4, <1>5, <1>8 DEF TaskAdded
<1>10. QED
  BY <1>5, <1>6, <1>9

\* CreateTimer adds a pending timer for the step the instance parks on.
LEMMA CreateAdds ==
    ASSUME Linked, NEW i \in Instance, Exists(inst[i]), Park(i),
           NEW kind, NEW ticks \in Nat, CreateTimer(i, kind, ticks),
           \/ kind = "sleep" /\ Def.steps[inst[i].step].type = "sleep_until"
           \/ /\ kind = "signal_timeout"
              /\ Def.steps[inst[i].step].type = "wait_signal"
              /\ Def.steps[inst[i].step].timeoutAfter > 0
    PROVE  \E row \in TimerRow :
              /\ TimerAdded(row)
              /\ row.status = "PENDING"
              /\ row.inst = i
              /\ row.step = inst[i].step
              /\ row.kind = kind
              /\ row.visit = inst[i].rowVersion
<1>1. TypeOK /\ inst[i].step \in StepId /\ inst[i].rowVersion \in Nat
  BY RowsExist DEF Linked, Exists, InstanceRow
<1> DEFINE row == [status |-> "PENDING", inst |-> i, step |-> inst[i].step,
                   kind |-> kind, visit |-> inst[i].rowVersion, fireIn |-> ticks]
<1>2. \E tm \in TimerId : ~Exists(timer[tm]) /\ timer' = [timer EXCEPT ![tm] = row]
  BY DEF CreateTimer
<1>3. row \in TimerRow
  BY <1>1 DEF TimerRow
<1>4. /\ row.status = "PENDING" /\ row.inst = i /\ row.step = inst[i].step
      /\ row.kind = kind /\ row.visit = inst[i].rowVersion
  OBVIOUS
<1> HIDE DEF row
<1>5. Exists(inst'[i])
  BY <1>1, Parks
<1>6. TimerAdded(row)
  BY <1>2, <1>3, <1>4, <1>5 DEF TimerAdded
<1>7. QED
  BY <1>3, <1>4, <1>6

\* One event about the instance's own step keeps the history typed.
LEMMA OneEventTyped ==
    ASSUME TypeOK, NEW i \in Instance, NEW step \in StepId,
           NEW type \in EventType, NEW ref \in Nat,
           AppendEvents(i, <<Ev(type, step, ref)>>)
    PROVE  history' \in [Instance -> Seq(Event)]
<1>1. <<Ev(type, step, ref)>> \in Seq(Event)
  BY EventTyped
<1>2. QED
  BY <1>1, AppendTyped

\* enterStep keeps the rows typed and linked, whatever the type of the step.
LEMMA EnterLinked ==
    ASSUME Linked, NEW i \in Instance
    PROVE  EnterActivity(i) \/ EnterWait(i) \/ EnterSleep(i) \/ EnterEnd(i) => Linked'
<1> USE DEF EventType, NoRef
<1>1. TypeOK
  BY DEF Linked
<1>2. ASSUME EnterActivity(i) PROVE Linked'
  <2>1. InstGrows /\ TimersKept /\ SignalsKept
    BY <1>1, <1>2, RunnableAt, UpdateGrows, UnchangedKept DEF EnterActivity
  <2>2. \E row : TaskAdded(row)
    BY <1>2, EnqueueAdds
  <2>3. LogsTyped
    BY <1>1, <1>2, RunnableAt, OneEventTyped DEF EnterActivity, LogsTyped, TypeOK
  <2>4. RowsStay => CallsLinked
    BY <1>2, VolatileKept DEF EnterActivity
  <2>5. QED
    BY <2>1, <2>2, <2>3, <2>4, LinkedFrame
<1>3. ASSUME EnterWait(i) PROVE Linked'
  <2>1. InstGrows /\ TasksKept /\ SignalsKept
    BY <1>1, <1>3, RunnableAt, UpdateGrows, UnchangedKept DEF EnterWait
  <2>2. TimersKept \/ \E row : TimerAdded(row)
    <3>1. CASE UNCHANGED timer
      BY <1>1, <3>1, UnchangedKept
    <3>2. CASE StepOf(i).timeoutAfter > 0
               /\ CreateTimer(i, "signal_timeout", StepOf(i).timeoutAfter)
      <4>1. /\ Exists(inst[i]) /\ Park(i)
            /\ Def.steps[inst[i].step].type = "wait_signal"
            /\ Def.steps[inst[i].step].timeoutAfter > 0
            /\ StepOf(i).timeoutAfter \in Nat
        <5>1. Runnable(i, "wait_signal") /\ Park(i)
          BY <1>3 DEF EnterWait
        <5>2. /\ Exists(inst[i]) /\ inst[i].step \in StepId
              /\ Def.steps[inst[i].step].type = "wait_signal"
          BY <1>1, <5>1, RunnableAt
        <5>3. Def.steps[inst[i].step].timeoutAfter \in Int
          BY <5>2, SuccessorsExist
        <5>4. QED
          BY SMTT(30), <3>2, <5>1, <5>2, <5>3 DEF StepOf
      <4>2. QED
        BY <3>2, <4>1, CreateAdds
    <3>3. QED
      BY <1>3, <3>1, <3>2 DEF EnterWait
  <2>3. LogsTyped
    BY <1>1, <1>3, RunnableAt, OneEventTyped DEF EnterWait, LogsTyped, TypeOK
  <2>4. RowsStay => CallsLinked
    BY <1>3, VolatileKept DEF EnterWait
  <2>5. QED
    BY <2>1, <2>2, <2>3, <2>4, LinkedFrame
<1>4. ASSUME EnterSleep(i) PROVE Linked'
  <2>1. InstGrows /\ TasksKept /\ SignalsKept
    BY <1>1, <1>4, RunnableAt, UpdateGrows, UnchangedKept DEF EnterSleep
  <2>2. \E row : TimerAdded(row)
    <3>1. /\ Runnable(i, "sleep_until") /\ Park(i)
          /\ CreateTimer(i, "sleep", StepOf(i).sleepFor)
      BY <1>4 DEF EnterSleep
    <3>2. /\ Exists(inst[i]) /\ inst[i].step \in StepId
          /\ Def.steps[inst[i].step].type = "sleep_until"
      BY <1>1, <3>1, RunnableAt
    <3>3. StepOf(i).sleepFor \in Nat
      BY SMTT(30), <3>2, SuccessorsExist DEF StepOf
    <3>4. QED
      BY <3>1, <3>2, <3>3, CreateAdds
  <2>3. LogsTyped
    BY <1>1, <1>4, RunnableAt, OneEventTyped DEF EnterSleep, LogsTyped, TypeOK
  <2>4. RowsStay => CallsLinked
    BY <1>4, VolatileKept DEF EnterSleep
  <2>5. QED
    BY <2>1, <2>2, <2>3, <2>4, LinkedFrame
<1>5. ASSUME EnterEnd(i) PROVE Linked'
  <2>1. InstGrows /\ TasksKept /\ TimersKept /\ SignalsKept
    BY <1>1, <1>5, RunnableAt, UpdateGrows, UnchangedKept DEF EnterEnd
  <2>2. LogsTyped
    BY <1>1, <1>5, RunnableAt, OneEventTyped, OutboxTyped DEF EnterEnd, LogsTyped
  <2>3. RowsStay => CallsLinked
    BY <1>5, VolatileKept DEF EnterEnd
  <2>4. QED
    BY <2>1, <2>2, <2>3, LinkedFrame
<1>6. QED
  BY <1>2, <1>3, <1>4, <1>5

\* The recording half of SignalInstance keeps the rows typed and linked.
LEMMA AppendSignalLinked ==
    ASSUME Linked, NEW i \in Instance, NEW name \in Name, NEW s \in SignalId,
           AppendSignal(i, name, s)
    PROVE  Linked'
<1>1. TypeOK
  BY DEF Linked
<1>2. InstGrows /\ TasksKept /\ TimersKept /\ LogsTyped
  BY <1>1, UnchangedKept, VolatileKept DEF AppendSignal
<1> DEFINE row == [status |-> "PENDING", inst |-> i, name |-> name,
                   seen |-> {r \in SignalId : s < r /\ Taken(r)}]
<1>3. row \in SignalRow /\ row.inst = i /\ Exists(inst'[i])
  BY DEF SignalRow, AppendSignal
<1>4. ~Exists(signal[s]) /\ signal' = [signal EXCEPT ![s] = row]
  BY DEF AppendSignal
<1> HIDE DEF row
<1>5. SignalAdded(row)
  BY <1>3, <1>4 DEF SignalAdded
<1>6. RowsStay => CallsLinked
  BY VolatileKept DEF AppendSignal
<1>7. QED
  BY <1>2, <1>5, <1>6, LinkedFrame

\* Applying a pending signal of an instance that is at a wait.
LEMMA ApplyKept ==
    ASSUME TypeOK, NEW i \in Instance, NEW s \in SignalId, Exists(inst[i]),
           Exists(signal[s]), StepOf(i).type = "wait_signal", ApplySignal(i, s)
    PROVE  InstGrows /\ SignalsKept /\ history' \in [Instance -> Seq(Event)]
<1>1. /\ inst[i].step \in StepId /\ inst[i].context \in Context
      /\ StepOf(i).next \in StepId /\ s \in Nat
  BY SMTT(30), RowsExist, SuccessorsExist, IdAssumption DEF Exists, InstanceRow, StepOf
<1>2. InstGrows
  BY <1>1, UpdateGrows DEF ApplySignal
<1>3. SignalsKept
  BY TimerAndSignalKept DEF ApplySignal
<1>4. history' \in [Instance -> Seq(Event)]
  BY <1>1, OneEventTyped DEF ApplySignal, EventType
<1>5. QED
  BY <1>2, <1>3, <1>4

\* Taking a signal, early or by ApplyPendingSignal, keeps the rows typed and linked.
LEMMA SignalLinked ==
    ASSUME Linked
    PROVE  /\ \A i \in Instance : EnterWaitEarlySignal(i) => Linked'
           /\ \A s \in SignalId : ApplyPendingSignal(s) => Linked'
<1>1. TypeOK
  BY DEF Linked
<1>2. \A i, name : \A o \in Oldest(i, name) : o \in SignalId /\ Exists(signal[o])
  BY SMTT(30) DEF Oldest, Pending, Exists, NoRow
<1>3. ASSUME NEW i \in Instance, EnterWaitEarlySignal(i) PROVE Linked'
  <2>1. PICK o \in Oldest(i, StepOf(i).signal) : ApplySignal(i, o)
    BY SMTT(30), <1>3 DEF EnterWaitEarlySignal
  <2>2. InstGrows /\ SignalsKept /\ history' \in [Instance -> Seq(Event)]
    BY <1>1, <1>2, <1>3, <2>1, RunnableAt, ApplyKept DEF EnterWaitEarlySignal, StepOf
  <2>3. TasksKept /\ TimersKept /\ LogsTyped /\ (RowsStay => CallsLinked)
    BY <1>1, <1>3, <2>2, UnchangedKept, VolatileKept DEF EnterWaitEarlySignal, LogsTyped, TypeOK
  <2>4. QED
    BY <2>2, <2>3, LinkedFrame
<1>4. ASSUME NEW s \in SignalId, ApplyPendingSignal(s) PROVE Linked'
  <2> DEFINE i == signal[s].inst
  <2>1. Exists(signal[s]) /\ i \in Instance /\ Exists(inst[i])
    BY <1>1, <1>4, RowsExist DEF ApplyPendingSignal, Linked, RowsLinked, Exists, SignalRow
  <2>2. InstGrows /\ SignalsKept /\ history' \in [Instance -> Seq(Event)]
    <3>1. CASE UNCHANGED <<inst, signal, history>>
      BY SMTT(30), <1>1, <3>1, UnchangedKept DEF TypeOK
    <3>2. CASE StepOf(i).type = "wait_signal"
               /\ \E o \in Oldest(i, signal[s].name) : ApplySignal(i, o)
      BY <1>1, <1>2, <2>1, <3>2, ApplyKept
    <3>3. QED
      BY <1>4, <3>1, <3>2 DEF ApplyPendingSignal
  <2>3. TasksKept /\ TimersKept /\ LogsTyped
    BY <1>1, <1>4, <2>2, UnchangedKept DEF ApplyPendingSignal, LogsTyped, TypeOK
  <2>4. RowsStay => CallsLinked
    BY <1>4 DEF ApplyPendingSignal, RowsStay, CallsLinked, Linked, TypeOK, RowsLinked,
                Delivery, FailCall
  <2>5. QED
    BY <2>2, <2>3, <2>4, LinkedFrame
<1>5. QED
  BY <1>3, <1>4

\* Leases, heartbeats, the sweeper and the clock keep the rows typed and linked.
LEMMA QueueLinked ==
    ASSUME Linked
    PROVE  /\ \A t \in TaskId, token \in Token : LeaseTask(t, token) => Linked'
           /\ \A d \in Delivery : HeartbeatTask(d) => Linked'
           /\ ExpireLeases => Linked'
           /\ Tick => Linked'
<1>1. TypeOK
  BY DEF Linked
<1>2. ASSUME NEW t \in TaskId, NEW token \in Token, LeaseTask(t, token) PROVE Linked'
  <2>1. InstGrows /\ TimersKept /\ SignalsKept /\ LogsTyped /\ TasksKept
    BY <1>1, <1>2, UnchangedKept, VolatileKept, QueueKept DEF LeaseTask
  <2>2. Exists(task[t]) /\ [task |-> t, token |-> token] \in Delivery
    BY SMTT(30), <1>2 DEF LeaseTask, Exists, NoRow, Delivery
  <2>3. RowsStay => CallsLinked
    BY <1>2, <2>2 DEF LeaseTask, RowsStay, CallsLinked, Linked, TypeOK, RowsLinked,
                      Delivery, FailCall
  <2>4. QED
    BY <2>1, <2>3, LinkedFrame
<1>3. ASSUME NEW d \in Delivery, HeartbeatTask(d) PROVE Linked'
  <2>1. InstGrows /\ TimersKept /\ SignalsKept /\ LogsTyped /\ TasksKept
        /\ (RowsStay => CallsLinked)
    BY <1>1, <1>3, UnchangedKept, VolatileKept, QueueKept DEF HeartbeatTask
  <2>2. QED
    BY <2>1, LinkedFrame
<1>4. ASSUME ExpireLeases PROVE Linked'
  <2>1. InstGrows /\ TimersKept /\ SignalsKept /\ LogsTyped /\ TasksKept
        /\ (RowsStay => CallsLinked)
    BY <1>1, <1>4, UnchangedKept, VolatileKept, QueueKept DEF ExpireLeases
  <2>2. QED
    BY <2>1, LinkedFrame
<1>5. ASSUME Tick PROVE Linked'
  <2>1. InstGrows /\ TimersKept /\ SignalsKept /\ LogsTyped /\ TasksKept
        /\ (RowsStay => CallsLinked)
    BY <1>1, <1>5, UnchangedKept, VolatileKept, QueueKept, TimerAndSignalKept DEF Tick
  <2>2. QED
    BY <2>1, LinkedFrame
<1>6. QED
  BY <1>2, <1>3, <1>4, <1>5

\* The instance and the step a task refers to.
LEMMA TaskRefers ==
    ASSUME Linked, NEW t \in TaskId, Exists(task[t])
    PROVE  /\ TypeOK
           /\ task[t] \in TaskRow
           /\ task[t].inst \in Instance /\ Exists(inst[task[t].inst])
           /\ inst[task[t].inst].context \in Context
           /\ task[t].step \in StepId /\ task[t].attempt \in Nat
           /\ Def.steps[task[t].step].type = "activity"
           /\ Def.steps[task[t].step].next \in StepId
           /\ t \in Nat
  BY RowsExist, SuccessorsExist, IdAssumption
     DEF Linked, RowsLinked, Exists, TaskRow, InstanceRow

\* OnTaskComplete keeps the rows typed and linked.
LEMMA CompleteLinked ==
    ASSUME Linked, NEW d \in Delivery, OnTaskComplete(d)
    PROVE  Linked'
<1> DEFINE t == d.task
           i == task[t].inst
           s == task[t].step
<1>1. t \in TaskId /\ Exists(task[t])
  BY DEF OnTaskComplete, Delivery, Linked, RowsLinked
<1>2. /\ TypeOK /\ i \in Instance /\ Exists(inst[i]) /\ inst[i].context \in Context
      /\ s \in StepId /\ Def.steps[s].next \in StepId /\ t \in Nat
  BY <1>1, TaskRefers
<1>3. TasksKept /\ TimersKept /\ SignalsKept
  BY <1>1, <1>2, SettleKept, UnchangedKept DEF OnTaskComplete
<1>4. InstGrows /\ history' \in [Instance -> Seq(Event)]
  <2>1. CASE Parked(i, s)
    <3>1. [inst[i].context EXCEPT ![s] = t] \in Context
      BY <1>1, <1>2 DEF Context
    <3>2. /\ AppendEvents(i, <<Ev("TASK_COMPLETED", s, t)>>)
          /\ Move(i, Def.steps[s].next, [inst[i].context EXCEPT ![s] = t])
      BY <2>1 DEF OnTaskComplete
    <3> HIDE DEF t, i, s
    <3>3. QED
      BY SMTT(30), <1>2, <3>1, <3>2, UpdateGrows, OneEventTyped DEF EventType
  <2>2. CASE ~Parked(i, s)
    BY <1>2, <2>2, UnchangedKept DEF OnTaskComplete, TypeOK
  <2>3. QED
    BY SMTT(30), <2>1, <2>2
<1>5. LogsTyped /\ (RowsStay => CallsLinked)
  BY <1>2, <1>4, VolatileKept DEF OnTaskComplete, LogsTyped, TypeOK
<1>6. QED
  BY <1>3, <1>4, <1>5, LinkedFrame

\* OnTaskFail keeps the rows typed and linked: stale, retried or given up.
LEMMA FailLinked ==
    ASSUME Linked, NEW c \in calls, OnTaskFail(c)
    PROVE  Linked'
<1> DEFINE t == c.task
           i == task[t].inst
           s == task[t].step
<1>1. c \in FailCall /\ t \in TaskId /\ Exists(task[t]) /\ c.attempt \in Nat
  BY DEF Linked, TypeOK, RowsLinked, FailCall
<1>2. /\ TypeOK /\ i \in Instance /\ Exists(inst[i])
      /\ s \in StepId /\ t \in Nat
  BY <1>1, TaskRefers
<1>3. ASSUME UNCHANGED <<timer, signal, held, starting, signalling, batch>>,
             calls' \subseteq calls, TasksKept, InstGrows, LogsTyped
      PROVE  Linked'
  <2>1. TimersKept /\ SignalsKept
    BY <1>2, <1>3, UnchangedKept
  <2>2. RowsStay => CallsLinked
    BY <1>3 DEF RowsStay, CallsLinked, Linked, TypeOK, RowsLinked, Delivery, FailCall
  <2>3. QED
    BY <1>3, <2>1, <2>2, LinkedFrame
<1>4. CASE FailStale(c)
  <2>1. TasksKept /\ InstGrows /\ LogsTyped
    BY <1>1, <1>2, <1>4, SettleKept, UnchangedKept, VolatileKept DEF FailStale
  <2>2. QED
    BY <1>3, <1>4, <2>1 DEF FailStale, Return
<1>5. ASSUME NEW retryable \in BOOLEAN, NEW ticks \in Backoff, FailRetry(c, retryable, ticks)
      PROVE  Linked'
  <2>1. ticks \in Nat /\ c.attempt + 1 \in Nat \ {0}
    BY SMTT(30), <1>1, TimeAssumption
  <2>2. /\ RequeueTask(t, c.attempt + 1, ticks)
        /\ AppendEvents(i, <<Ev("TASK_RETRY_SCHEDULED", s, t)>>)
        /\ UNCHANGED <<inst, timer, signal, outbox, held, starting, signalling, batch>>
        /\ calls' \subseteq calls
    BY <1>5 DEF FailRetry, Return
  <2> HIDE DEF t, i, s
  <2>3. TasksKept /\ InstGrows
    BY <1>1, <1>2, <2>1, <2>2, SettleKept, UnchangedKept
  <2>4. LogsTyped
    BY <1>2, <2>2, OneEventTyped DEF LogsTyped, EventType, TypeOK
  <2>5. QED
    BY <1>3, <2>2, <2>3, <2>4
<1>6. ASSUME NEW retryable \in BOOLEAN, FailTerminal(c, retryable)
      PROVE  Linked'
  <2> DEFINE events == <<Ev("TASK_FAILED", s, t), Ev("WORKFLOW_FAILED", s, NoRef)>>
  <2>1. /\ Settle(t, FailNoop, "FAILED")
        /\ AppendEvents(i, events)
        /\ Finish(i, "FAILED")
        /\ EnqueueOutbox(i, "WORKFLOW_FAILED")
        /\ UNCHANGED <<timer, signal, held, starting, signalling, batch>>
        /\ calls' \subseteq calls
    BY <1>6 DEF FailTerminal, Return
  <2>2. /\ Ev("TASK_FAILED", s, t) \in Event
        /\ Ev("WORKFLOW_FAILED", s, NoRef) \in Event
        /\ "WORKFLOW_FAILED" \in EventType
    BY <1>2, EventTyped DEF EventType, NoRef
  <2>3. events \in Seq(Event)
    BY SMTT(30), <2>2
  <2> HIDE DEF t, i, s, events
  <2>4. TasksKept /\ InstGrows
    BY <1>1, <1>2, <2>1, SettleKept, UpdateGrows
  <2>5. LogsTyped
    BY <1>2, <2>1, <2>2, <2>3, AppendTyped, OutboxTyped DEF LogsTyped
  <2>6. QED
    BY <1>3, <2>1, <2>4, <2>5
<1>7. QED
  BY <1>4, <1>5, <1>6 DEF OnTaskFail

\* The instance and the step a timer refers to, and where it sends the instance.
LEMMA TimerRefers ==
    ASSUME Linked, NEW tm \in TimerId, Exists(timer[tm])
    PROVE  /\ TypeOK
           /\ timer[tm].inst \in Instance /\ Exists(inst[timer[tm].inst])
           /\ inst[timer[tm].inst].context \in Context
           /\ timer[tm].step \in StepId
           /\ TimerTarget(tm) \in StepId
<1>1. TypeOK /\ RowsLinked /\ timer[tm] \in TimerRow
  BY RowsExist DEF Linked, Exists
<1>2. timer[tm].inst \in Instance /\ timer[tm].step \in StepId
  BY SMTT(30), <1>1 DEF TimerRow
<1>3. Exists(inst[timer[tm].inst]) /\ inst[timer[tm].inst].context \in Context
  BY SMTT(30), <1>1, <1>2, RowsExist DEF RowsLinked, Exists, InstanceRow
<1>4. TimerTarget(tm) \in StepId
  BY <1>1, <1>2, SuccessorsExist DEF RowsLinked, TimerTarget
<1>5. QED
  BY <1>1, <1>2, <1>3, <1>4

\* OnTimerFired keeps the rows typed and linked.
LEMMA TimerLinked ==
    ASSUME Linked, NEW l \in Loop, NEW tm \in TimerId, OnTimerFired(l, tm)
    PROVE  Linked'
<1> DEFINE i == timer[tm].inst
           s == timer[tm].step
<1>1. Exists(timer[tm])
  BY DEF OnTimerFired, Linked, RowsLinked
<1>2. /\ TypeOK /\ i \in Instance /\ Exists(inst[i]) /\ inst[i].context \in Context
      /\ s \in StepId /\ TimerTarget(tm) \in StepId
  BY <1>1, TimerRefers
<1>3. TasksKept /\ TimersKept /\ SignalsKept
  BY <1>1, <1>2, TimerAndSignalKept, UnchangedKept DEF OnTimerFired
<1>4. InstGrows /\ history' \in [Instance -> Seq(Event)]
  <2>1. CASE Parked(i, s)
    <3>1. /\ AppendEvents(i, <<Ev("TIMER_FIRED", s, NoRef)>>)
          /\ Move(i, TimerTarget(tm), inst[i].context)
      BY <2>1 DEF OnTimerFired
    <3> HIDE DEF i, s
    <3>2. QED
      BY <1>2, <3>1, UpdateGrows, OneEventTyped DEF EventType, NoRef
  <2>2. CASE ~Parked(i, s)
    BY <1>2, <2>2, UnchangedKept DEF OnTimerFired, TypeOK
  <2>3. QED
    BY <2>1, <2>2
<1>5. LogsTyped
  BY <1>2, <1>4 DEF OnTimerFired, LogsTyped, TypeOK
<1>6. RowsStay => CallsLinked
  BY DEF OnTimerFired, RowsStay, CallsLinked, Linked, TypeOK, RowsLinked, Delivery, FailCall
<1>7. QED
  BY <1>3, <1>4, <1>5, <1>6, LinkedFrame

\* Every step of the kernel keeps the rows typed and linked.
LEMMA NextLinked == Linked /\ [Next]_vars => Linked'
<1> SUFFICES ASSUME Linked, [Next]_vars PROVE Linked'
  OBVIOUS
<1>1. CASE UNCHANGED vars
  BY <1>1 DEF vars, Linked, TypeOK, RowsLinked, Exists
<1>2. ASSUME NEW i \in Instance,
             \/ \E key \in Key : StartInstance(i, key)
             \/ RecordStart(i) \/ AbortStart(i) \/ Advance(i)
             \/ \E name \in Name, s \in SignalId : AppendSignal(i, name, s)
      PROVE  Linked'
  BY <1>2, StartLinked, RecordStartLinked, AbortLinked, EnterLinked, SignalLinked,
     AppendSignalLinked DEF Advance
<1>3. ASSUME NEW d \in Delivery,
             \/ HeartbeatTask(d) \/ OnTaskComplete(d)
             \/ ReadFailingTask(d) \/ ForgetDelivery(d)
      PROVE  Linked'
  BY <1>3, QueueLinked, CompleteLinked, AbortLinked
<1>4. ASSUME NEW c \in calls, OnTaskFail(c) \/ AbortFail(c) PROVE Linked'
  BY <1>4, FailLinked, AbortLinked
<1>5. ASSUME NEW s \in SignalId, SignalInstance(s) \/ ApplyPendingSignal(s) \/ AbortSignal(s)
      PROVE  Linked'
  BY <1>5, SignalLinked, AbortLinked
<1>6. ASSUME NEW l \in Loop,
             \/ ListDueTimers(l) \/ AbortBatch(l)
             \/ \E tm \in TimerId : OnTimerFired(l, tm)
      PROVE  Linked'
  BY <1>6, TimerLinked, AbortLinked
<1>7. CASE \/ \E t \in TaskId, token \in Token : LeaseTask(t, token)
           \/ ExpireLeases \/ Tick
  BY <1>7, QueueLinked
<1>8. QED
  BY <1>1, <1>2, <1>3, <1>4, <1>5, <1>6, <1>7 DEF Next

\* Every table always holds rows of the shape the migrations give it, whatever the
\* handlers write.
THEOREM TypesHold == Spec => []TypeOK
<1>1. Linked => TypeOK
  BY DEF Linked
<1>2. QED
  BY <1>1, InitLinked, NextLinked, PTL DEF Spec

\* No row or call in flight ever refers to a row that is not there, and a task's
\* idempotency key is always older than its instance's row version.
THEOREM ReferencesHold == Spec => []RowsLinked
<1>1. Linked => RowsLinked
  BY DEF Linked
<1>2. QED
  BY <1>1, InitLinked, NextLinked, PTL DEF Spec

-----------------------------------------------------------------------------
(* What one transaction does to a history.                                 *)

\* The history of i gets event e at position n, and no other history changes.
Logs(i, n, e) ==
    /\ n \in Nat /\ n \notin DOMAIN history[i]
    /\ DOMAIN history'[i] = DOMAIN history[i] \cup {n}
    /\ \A m \in DOMAIN history[i] : /\ m \in Nat /\ m < n
                                    /\ history'[i][m] = history[i][m]
    /\ history'[i][n] = e
    /\ \A j \in Instance : j # i => history'[j] = history[j]

\* AppendEvent puts its event behind all others.
LEMMA EventLogged ==
    ASSUME TypeOK, NEW i \in Instance, NEW e \in Event, AppendEvents(i, <<e>>)
    PROVE  \E n \in Nat : Logs(i, n, e)
<1> DEFINE h == history[i]
           n == Len(h) + 1
<1>1. h \in Seq(Event) /\ history'[i] = h \o <<e>>
      /\ \A j \in Instance : j # i => history'[j] = history[j]
  BY DEF AppendEvents, TypeOK
<1> HIDE DEF h
<1>2. /\ n \in Nat /\ n \notin DOMAIN h
      /\ DOMAIN (h \o <<e>>) = DOMAIN h \cup {n}
      /\ \A m \in DOMAIN h : m \in Nat /\ m < n /\ (h \o <<e>>)[m] = h[m]
      /\ (h \o <<e>>)[n] = e
  BY SMTT(30), <1>1
<1>3. Logs(i, n, e)
  BY <1>1, <1>2 DEF Logs, h
<1>4. QED
  BY <1>2, <1>3

\* A terminal failure logs two events.
LogsTwo(i, n, e, f) ==
    /\ n \in Nat /\ n > 1 /\ n \notin DOMAIN history[i]
    /\ DOMAIN history'[i] = DOMAIN history[i] \cup {n - 1, n}
    /\ \A m \in DOMAIN history[i] : /\ m \in Nat /\ m < n - 1
                                    /\ history'[i][m] = history[i][m]
    /\ history'[i][n - 1] = e
    /\ history'[i][n] = f
    /\ \A j \in Instance : j # i => history'[j] = history[j]

\* AppendEvent, twice.
LEMMA EventsLogged ==
    ASSUME TypeOK, NEW i \in Instance, NEW e \in Event, NEW f \in Event,
           AppendEvents(i, <<e, f>>)
    PROVE  \E n \in Nat : LogsTwo(i, n, e, f)
<1> DEFINE h == history[i]
           n == Len(h) + 2
<1>1. h \in Seq(Event) /\ history'[i] = h \o <<e, f>>
      /\ \A j \in Instance : j # i => history'[j] = history[j]
  BY DEF AppendEvents, TypeOK
<1> HIDE DEF h
<1>2. /\ n \in Nat /\ n > 1 /\ n \notin DOMAIN h
      /\ DOMAIN (h \o <<e, f>>) = DOMAIN h \cup {n - 1, n}
      /\ \A m \in DOMAIN h : m \in Nat /\ m < n - 1 /\ (h \o <<e, f>>)[m] = h[m]
      /\ (h \o <<e, f>>)[n - 1] = e
      /\ (h \o <<e, f>>)[n] = f
  BY SMTT(30), <1>1
<1>3. LogsTwo(i, n, e, f)
  BY <1>1, <1>2 DEF LogsTwo, h
<1>4. QED
  BY <1>2, <1>3

-----------------------------------------------------------------------------
(* The shapes of a step.                                                   *)

Quiet == UNCHANGED <<inst, history, outbox, signal>>

\* enterStep parks the instance; only a wait without a timeout leaves no event.
EntersBy(i, e) ==
    /\ inst[i].status = "RUNNABLE"
    /\ Park(i)
    /\ e = Ev(IF StepOf(i).type = "activity" THEN "TASK_SCHEDULED" ELSE "TIMER_CREATED",
              inst[i].step, NoRef)
    /\ StepOf(i).type = "wait_signal" => StepOf(i).timeoutAfter > 0
    /\ AppendEvents(i, <<e>>)
    /\ UNCHANGED <<outbox, signal>>

EntersSilently(i) ==
    /\ inst[i].status = "RUNNABLE"
    /\ Park(i)
    /\ StepOf(i).type = "wait_signal" /\ StepOf(i).timeoutAfter <= 0
    /\ UNCHANGED <<history, outbox, signal>>

ContextAfter(i, e) ==
    IF e.type = "TASK_COMPLETED" THEN [inst[i].context EXCEPT ![e.step] = e.ref]
                                 ELSE inst[i].context

\* A result, a signal or a timer moves the instance on.
MovesBy(i, e) ==
    /\ inst[i].status \in {"RUNNABLE", "WAITING"}
    /\ e \in Event
    /\ e.step = inst[i].step
    /\ e.type \in {"TASK_COMPLETED", "SIGNAL_RECEIVED", "TIMER_FIRED"}
    /\ e.type = "TASK_COMPLETED" => e.ref \in TaskId
    /\ \E to \in StepId : SendsTo(e, to) /\ Move(i, to, ContextAfter(i, e))
    /\ IF e.type = "SIGNAL_RECEIVED"
         THEN /\ e.ref \in UNION {Oldest(i, name) : name \in Name \cup {NoName}}
              /\ ConsumeSignal(e.ref)
         ELSE UNCHANGED signal
    /\ AppendEvents(i, <<e>>)
    /\ UNCHANGED outbox

\* A failure puts the task back.
RetriesBy(i, t) ==
    /\ t \in TaskId
    /\ inst[i].status = "WAITING"
    /\ StepOf(i).type = "activity"
    /\ AppendEvents(i, <<Ev("TASK_RETRY_SCHEDULED", inst[i].step, t)>>)
    /\ UNCHANGED <<inst, outbox, signal>>

\* A failure ends the instance.
FailsBy(i, t) ==
    /\ t \in TaskId
    /\ inst[i].status = "WAITING"
    /\ Finish(i, "FAILED")
    /\ AppendEvents(i, <<Ev("TASK_FAILED", inst[i].step, t),
                         Ev("WORKFLOW_FAILED", inst[i].step, NoRef)>>)
    /\ EnqueueOutbox(i, "WORKFLOW_FAILED")
    /\ UNCHANGED signal

\* What a transaction does to the instance i, its history and the outbox.
Shape(i) ==
    \/ \E e : EntersBy(i, e)
    \/ EntersSilently(i)
    \/ \E e : MovesBy(i, e)
    \/ EnterEnd(i)
    \/ \E t : RetriesBy(i, t) \/ FailsBy(i, t)

\* The names a step may wait for.
LEMMA SignalNames == \A id \in StepId : Def.steps[id].signal \in Name \cup {NoName}
  BY DefinitionAssumption DEF Step

\* Applying a signal moves the instance on.
LEMMA ApplyShape ==
    ASSUME Linked, NEW i \in Instance, Exists(inst[i]),
           inst[i].status \in {"RUNNABLE", "WAITING"}, StepOf(i).type = "wait_signal",
           NEW s \in Oldest(i, StepOf(i).signal), ApplySignal(i, s), UNCHANGED outbox
    PROVE  Shape(i)
<1>1. inst[i].step \in StepId
  BY RowsExist DEF Linked, Exists, InstanceRow
<1>2. s \in Nat
  BY SMTT(30), IdAssumption DEF Oldest, Pending
<1> DEFINE e == Ev("SIGNAL_RECEIVED", inst[i].step, s)
<1>3. /\ e \in Event /\ e.type = "SIGNAL_RECEIVED" /\ SendsTo(e, StepOf(i).next)
      /\ StepOf(i).next \in StepId /\ e.ref = s /\ e.step = inst[i].step
  BY SMTT(30), <1>1, <1>2, SuccessorsExist DEF Ev, Event, EventType, SendsTo, StepOf
<1>4. /\ AppendEvents(i, <<e>>) /\ ConsumeSignal(s)
      /\ Move(i, StepOf(i).next, inst[i].context)
  BY DEF ApplySignal
<1>5. s \in UNION {Oldest(i, name) : name \in Name \cup {NoName}}
  BY <1>1, SignalNames DEF StepOf
<1> HIDE DEF e
<1>6. MovesBy(i, e)
  BY <1>3, <1>4, <1>5 DEF MovesBy, ContextAfter
<1>7. QED
  BY <1>6 DEF Shape

\* enterStep has one of the shapes.
LEMMA EnterShapes ==
    ASSUME Linked, NEW i \in Instance, Advance(i)
    PROVE  Exists(inst[i]) /\ Shape(i)
<1>1. TypeOK
  BY DEF Linked
<1>2. ASSUME NEW type, Runnable(i, type)
      PROVE  /\ Exists(inst[i]) /\ inst[i].step \in StepId /\ StepOf(i).type = type
             /\ inst[i].status = "RUNNABLE" /\ StepOf(i).timeoutAfter \in Int
             /\ type # "end" => StepOf(i).next \in StepId
  BY <1>1, <1>2, RunnableAt, SuccessorsExist DEF StepOf, Runnable
<1>3. CASE EnterActivity(i)
  <2> DEFINE e == Ev("TASK_SCHEDULED", inst[i].step, NoRef)
  <2>1. Exists(inst[i]) /\ StepOf(i).type = "activity" /\ inst[i].status = "RUNNABLE"
    BY <1>2, <1>3 DEF EnterActivity
  <2>2. AppendEvents(i, <<e>>) /\ Park(i) /\ UNCHANGED <<outbox, signal>>
    BY <1>3 DEF EnterActivity
  <2>3. EntersBy(i, e)
    BY <2>1, <2>2 DEF EntersBy
  <2>4. QED
    BY <2>1, <2>3 DEF Shape
<1>4. CASE EnterWait(i)
  <2> DEFINE e == Ev("TIMER_CREATED", inst[i].step, NoRef)
  <2>1. Exists(inst[i]) /\ StepOf(i).type = "wait_signal" /\ inst[i].status = "RUNNABLE"
    BY <1>2, <1>4 DEF EnterWait
  <2>2. Park(i) /\ UNCHANGED <<outbox, signal>>
    BY <1>4 DEF EnterWait
  <2>3. CASE StepOf(i).timeoutAfter > 0 /\ AppendEvents(i, <<e>>)
    <3>1. EntersBy(i, e)
      BY <2>1, <2>2, <2>3 DEF EntersBy
    <3>2. QED
      BY <2>1, <3>1 DEF Shape
  <2>4. CASE StepOf(i).timeoutAfter <= 0 /\ UNCHANGED history
    BY <2>1, <2>2, <2>4 DEF Shape, EntersSilently
  <2>5. QED
    BY <1>4, <2>3, <2>4 DEF EnterWait
<1>5. CASE EnterSleep(i)
  <2> DEFINE e == Ev("TIMER_CREATED", inst[i].step, NoRef)
  <2>1. Exists(inst[i]) /\ StepOf(i).type = "sleep_until" /\ inst[i].status = "RUNNABLE"
    BY <1>2, <1>5 DEF EnterSleep
  <2>2. AppendEvents(i, <<e>>) /\ Park(i) /\ UNCHANGED <<outbox, signal>>
    BY <1>5 DEF EnterSleep
  <2>3. EntersBy(i, e)
    BY <2>1, <2>2 DEF EntersBy
  <2>4. QED
    BY <2>1, <2>3 DEF Shape
<1>6. CASE EnterEnd(i)
  BY <1>2, <1>6 DEF EnterEnd, Shape
<1>7. CASE EnterWaitEarlySignal(i)
  BY <1>2, <1>7, ApplyShape DEF EnterWaitEarlySignal
<1>8. QED
  BY <1>3, <1>4, <1>5, <1>6, <1>7 DEF Advance

\* CompleteTask, and what OnTaskComplete does to the instance.
LEMMA CompleteShape ==
    ASSUME Linked, NEW d \in Delivery, OnTaskComplete(d)
    PROVE  Quiet \/ \E i \in Instance : Exists(inst[i]) /\ Shape(i)
<1> DEFINE t == d.task
           i == task[t].inst
           s == task[t].step
           e == Ev("TASK_COMPLETED", s, t)
<1>1. t \in TaskId /\ Exists(task[t]) /\ UNCHANGED <<outbox, signal>>
  BY DEF OnTaskComplete, Delivery, Linked, RowsLinked
<1>2. /\ i \in Instance /\ Exists(inst[i]) /\ s \in StepId
      /\ Def.steps[s].next \in StepId /\ t \in Nat
  BY <1>1, TaskRefers
<1>3. CASE Parked(i, s)
  <2>1. /\ AppendEvents(i, <<e>>)
        /\ Move(i, Def.steps[s].next, [inst[i].context EXCEPT ![s] = t])
    BY <1>3 DEF OnTaskComplete
  <2>2. /\ e \in Event /\ e.type = "TASK_COMPLETED" /\ SendsTo(e, Def.steps[s].next)
        /\ e.ref = t /\ e.step = s
    BY SMTT(30), <1>2 DEF Ev, Event, EventType, SendsTo
  <2>3. ContextAfter(i, e) = [inst[i].context EXCEPT ![s] = t]
    BY <2>2 DEF ContextAfter
  <2> HIDE DEF e, i, s, t
  <2>4. MovesBy(i, e)
    BY <1>1, <1>2, <1>3, <2>1, <2>2, <2>3 DEF MovesBy, Parked
  <2>5. QED
    BY <1>2, <2>4 DEF Shape
<1>4. CASE ~Parked(i, s)
  BY <1>1, <1>4 DEF OnTaskComplete, Quiet
<1>5. QED
  BY <1>3, <1>4

\* OnTaskFail: a retry, or the end of the instance.
LEMMA FailShape ==
    ASSUME Linked, NEW c \in calls, OnTaskFail(c)
    PROVE  Quiet \/ \E i \in Instance : Exists(inst[i]) /\ Shape(i)
<1> DEFINE t == c.task
           i == task[t].inst
           s == task[t].step
<1>1. t \in TaskId /\ Exists(task[t])
  BY DEF FailCall, Linked, TypeOK, RowsLinked
<1>2. i \in Instance /\ Exists(inst[i]) /\ Def.steps[s].type = "activity"
  BY <1>1, TaskRefers
<1>3. CASE FailStale(c)
  BY <1>3 DEF FailStale, Quiet
<1>4. ASSUME NEW retryable \in BOOLEAN, NEW ticks \in Backoff, FailRetry(c, retryable, ticks)
      PROVE  RetriesBy(i, t)
  BY <1>1, <1>2, <1>4 DEF FailRetry, RetriesBy, Parked, StepOf
<1>5. ASSUME NEW retryable \in BOOLEAN, FailTerminal(c, retryable)
      PROVE  FailsBy(i, t)
  BY <1>1, <1>2, <1>5 DEF FailTerminal, FailsBy, Parked
<1>6. QED
  BY <1>2, <1>3, <1>4, <1>5 DEF OnTaskFail, Shape

\* OnTimerFired moves the instance on, or only marks the timer.
LEMMA TimerShape ==
    ASSUME Linked, NEW l \in Loop, NEW tm \in TimerId, OnTimerFired(l, tm)
    PROVE  Quiet \/ \E i \in Instance : Exists(inst[i]) /\ Shape(i)
<1> DEFINE i == timer[tm].inst
           s == timer[tm].step
           e == Ev("TIMER_FIRED", s, NoRef)
<1>1. Exists(timer[tm]) /\ UNCHANGED <<outbox, signal>>
  BY DEF OnTimerFired, Linked, RowsLinked
<1>2. i \in Instance /\ Exists(inst[i]) /\ s \in StepId /\ TimerTarget(tm) \in StepId
  BY <1>1, TimerRefers
<1>3. CASE Parked(i, s)
  <2>1. AppendEvents(i, <<e>>) /\ Move(i, TimerTarget(tm), inst[i].context)
    BY <1>3 DEF OnTimerFired
  <2>2. \/ timer[tm].kind = "sleep" /\ Def.steps[s].type = "sleep_until"
        \/ timer[tm].kind = "signal_timeout" /\ Def.steps[s].type = "wait_signal"
    BY <1>1 DEF Linked, RowsLinked
  <2>3. /\ e \in Event /\ e.type = "TIMER_FIRED" /\ SendsTo(e, TimerTarget(tm))
        /\ e.step = s
    BY SMTT(30), <1>2, <2>2 DEF Ev, Event, EventType, SendsTo, TimerTarget, NoRef
  <2>4. ContextAfter(i, e) = inst[i].context
    BY <2>3 DEF ContextAfter
  <2> HIDE DEF e, i, s
  <2>5. MovesBy(i, e)
    BY <1>1, <1>2, <1>3, <2>1, <2>3, <2>4 DEF MovesBy, Parked
  <2>6. QED
    BY <1>2, <2>5 DEF Shape
<1>4. CASE ~Parked(i, s)
  BY <1>1, <1>4 DEF OnTimerFired, Quiet
<1>5. QED
  BY <1>3, <1>4

\* SignalInstance's second half.
LEMMA SignalShape ==
    ASSUME Linked, NEW s \in SignalId, ApplyPendingSignal(s)
    PROVE  Quiet \/ \E i \in Instance : Exists(inst[i]) /\ Shape(i)
<1> DEFINE i == signal[s].inst
           name == signal[s].name
<1>1. UNCHANGED outbox /\ i \in Instance /\ Exists(inst[i])
  BY RowsExist DEF ApplyPendingSignal, Linked, RowsLinked, Exists, SignalRow
<1>2. CASE UNCHANGED <<inst, signal, history>>
  BY <1>1, <1>2 DEF Quiet
<1>3. CASE /\ inst[i].status = "WAITING"
           /\ StepOf(i).type = "wait_signal"
           /\ StepOf(i).signal = name
           /\ \E o \in Oldest(i, name) : ApplySignal(i, o)
  BY <1>1, <1>3, ApplyShape
<1>4. QED
  BY <1>2, <1>3 DEF ApplyPendingSignal

\* Every step of the kernel has one of the shapes.
LEMMA NextShapes ==
    ASSUME Linked, [Next]_vars
    PROVE  \/ Quiet
           \/ \E i \in Instance :
                 \/ \E key \in Key : StartInstance(i, key)
                 \/ RecordStart(i)
                 \/ \E name \in Name, s \in SignalId : AppendSignal(i, name, s)
                 \/ Exists(inst[i]) /\ Shape(i)
<1>1. ASSUME NEW i \in Instance, AbortStart(i)
      PROVE  Quiet
  BY <1>1 DEF AbortStart, Quiet, stored
<1>2. ASSUME NEW d \in Delivery, HeartbeatTask(d) \/ ReadFailingTask(d) \/ ForgetDelivery(d)
      PROVE  Quiet
  BY <1>2 DEF HeartbeatTask, ReadFailingTask, ForgetDelivery, Quiet, stored
<1>3. ASSUME NEW t \in TaskId, NEW token \in Token, LeaseTask(t, token)
      PROVE  Quiet
  BY <1>3 DEF LeaseTask, Quiet
<1>4. ASSUME NEW c \in calls, AbortFail(c)
      PROVE  Quiet
  BY <1>4 DEF AbortFail, Quiet, stored
<1>5. ASSUME NEW s \in SignalId, SignalInstance(s) \/ AbortSignal(s)
      PROVE  Quiet
  BY <1>5 DEF SignalInstance, AbortSignal, Quiet, stored
<1>6. ASSUME NEW l \in Loop, ListDueTimers(l) \/ AbortBatch(l)
      PROVE  Quiet
  BY <1>6 DEF ListDueTimers, AbortBatch, Quiet, stored
<1>7. ASSUME ExpireLeases \/ Tick \/ UNCHANGED vars
      PROVE  Quiet
  BY <1>7 DEF ExpireLeases, Tick, Quiet, vars
<1>8. QED
  BY <1>1, <1>2, <1>3, <1>4, <1>5, <1>6, <1>7, EnterShapes, CompleteShape, FailShape,
     TimerShape, SignalShape DEF Next

-----------------------------------------------------------------------------
(* What a shape does to the instance row.                                  *)

\* Move leaves the instance runnable at its new step.
LEMMA Moved ==
    ASSUME TypeOK, NEW i \in Instance, Exists(inst[i]), NEW to \in StepId, NEW context,
           Move(i, to, context)
    PROVE  /\ Exists(inst'[i])
           /\ inst'[i].status = "RUNNABLE"
           /\ inst'[i].step = to
           /\ inst'[i].context = context
           /\ inst'[i].rowVersion = inst[i].rowVersion + 1
           /\ \A j \in Instance : j # i => inst'[j] = inst[j]
<1>1. inst[i] \in InstanceRow
  BY RowsExist DEF Exists
<1>2. inst'[i].status # NoRow.status
  BY <1>1 DEF Move, UpdateInstance, TypeOK, InstanceRow, NoRow
<1>3. QED
  BY <1>1, <1>2 DEF Move, UpdateInstance, TypeOK, InstanceRow, Exists

\* Finish leaves the instance in its last status, at its last step.
LEMMA Finished ==
    ASSUME TypeOK, NEW i \in Instance, Exists(inst[i]), NEW status \in {"SUCCEEDED", "FAILED"},
           Finish(i, status)
    PROVE  /\ Exists(inst'[i])
           /\ inst'[i].status = status
           /\ inst'[i].step = inst[i].step
           /\ inst'[i].context = inst[i].context
           /\ inst'[i].rowVersion = inst[i].rowVersion + 1
           /\ \A j \in Instance : j # i => inst'[j] = inst[j]
<1>1. inst[i] \in InstanceRow
  BY RowsExist DEF Exists
<1>2. inst'[i].status # NoRow.status
  BY <1>1 DEF Finish, UpdateInstance, TypeOK, InstanceRow, NoRow
<1>3. QED
  BY <1>1, <1>2 DEF Finish, UpdateInstance, TypeOK, InstanceRow, Exists

\* A transaction on one instance touches no other, and none that is finished.
LEMMA ShapeFrame ==
    ASSUME Linked, NEW i \in Instance, Exists(inst[i]), Shape(i)
    PROVE  /\ \A j \in Instance : j # i => inst'[j] = inst[j] /\ history'[j] = history[j]
           /\ ~Terminal(inst[i].status)
           /\ Exists(inst'[i])
<1>1. TypeOK
  BY DEF Linked
<1>2. ASSUME NEW events, AppendEvents(i, events)
      PROVE  \A j \in Instance : j # i => history'[j] = history[j]
  BY <1>1, <1>2 DEF AppendEvents, TypeOK
<1> DEFINE Framed == /\ \A j \in Instance : j # i => inst'[j] = inst[j] /\ history'[j] = history[j]
                     /\ ~Terminal(inst[i].status)
                     /\ Exists(inst'[i])
<1>3. ASSUME NEW e, EntersBy(i, e)
      PROVE  Framed
  BY <1>1, <1>2, <1>3, Parks DEF EntersBy, Terminal
<1>4. ASSUME EntersSilently(i)
      PROVE  Framed
  BY <1>1, <1>4, Parks DEF EntersSilently, Terminal
<1>5. ASSUME NEW e, MovesBy(i, e)
      PROVE  Framed
  BY <1>1, <1>2, <1>5, Moved DEF MovesBy, Terminal
<1>6. ASSUME EnterEnd(i)
      PROVE  Framed
  BY <1>1, <1>2, <1>6, Finished DEF EnterEnd, Runnable, Terminal
<1>7. ASSUME NEW t, RetriesBy(i, t)
      PROVE  Framed
  BY <1>1, <1>2, <1>7 DEF RetriesBy, Terminal
<1>8. ASSUME NEW t, FailsBy(i, t)
      PROVE  Framed
  BY <1>1, <1>2, <1>8, Finished DEF FailsBy, Terminal
<1>9. QED
  BY <1>3, <1>4, <1>5, <1>6, <1>7, <1>8 DEF Shape

\* The history of i only gains events of these types, if any.
LogsOnly(i, types) ==
    \E new : /\ DOMAIN history'[i] = DOMAIN history[i] \cup new
             /\ \A m \in DOMAIN history[i] : history'[i][m] = history[i][m]
             /\ \A n \in new : history'[i][n].type \in types

\* One event, or two, are events of their types.
LEMMA LoggedOnly ==
    ASSUME NEW i \in Instance, NEW n, NEW e, NEW types, e.type \in types
    PROVE  /\ Logs(i, n, e) => LogsOnly(i, types)
           /\ \A d : d.type \in types /\ LogsTwo(i, n, d, e) => LogsOnly(i, types)
           /\ history'[i] = history[i] => LogsOnly(i, types)
<1>1. Logs(i, n, e) => LogsOnly(i, types)
  BY DEF Logs, LogsOnly
<1>2. ASSUME NEW d, d.type \in types, LogsTwo(i, n, d, e)
      PROVE  LogsOnly(i, types)
  <2> DEFINE new == {n - 1, n}
  <2>1. /\ DOMAIN history'[i] = DOMAIN history[i] \cup new
        /\ \A m \in DOMAIN history[i] : history'[i][m] = history[i][m]
        /\ \A k \in new : history'[i][k].type \in types
    BY <1>2 DEF LogsTwo
  <2> HIDE DEF new
  <2>2. QED
    BY <2>1 DEF LogsOnly
<1>3. ASSUME history'[i] = history[i]
      PROVE  LogsOnly(i, types)
  <2> DEFINE new == {}
  <2>1. /\ DOMAIN history'[i] = DOMAIN history[i] \cup new
        /\ \A m \in DOMAIN history[i] : history'[i][m] = history[i][m]
        /\ \A k \in new : history'[i][k].type \in types
    BY <1>3
  <2> HIDE DEF new
  <2>2. QED
    BY <2>1 DEF LogsOnly
<1>4. QED
  BY <1>1, <1>2, <1>3

\* A history that gains no event of a type keeps the ones it has.
LEMMA EventsKept ==
    ASSUME NEW i \in Instance, NEW types, LogsOnly(i, types), NEW type, type \notin types, NEW ref
    PROVE  EventsOf(i, type, ref)' = EventsOf(i, type, ref)
  BY DEF LogsOnly, EventsOf

=============================================================================
