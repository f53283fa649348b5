------------------------------ MODULE RowLocks ------------------------------
(***************************************************************************)
(* The kernel's transactions on Postgres (store/postgres.go), a statement  *)
(* at a time.  Kernel takes every Store.Tx as one atomic action.  Here a   *)
(* transaction is a client that locks rows, keeps what it read, waits for  *)
(* rows other clients hold, and writes when it commits; a wait cycle is    *)
(* broken by the deadlock detector, and any transaction may be cut short.  *)
(*                                                                         *)
(* The tables and the calls in flight are Kernel's variables.  The         *)
(* handlers are those that touch tasks: StartInstance's transaction,       *)
(* Advance into an activity or an end step, OnTaskComplete and OnTaskFail. *)
(***************************************************************************)
EXTENDS Kernel

CONSTANTS
    Client      \* connections a transaction may run on

\* The isolation level is READ COMMITTED: a statement sees what is committed.
VARIABLES
    pc,         \* the statement a client's transaction is at
    call,       \* the handler it runs and its arguments
    row,        \* the instance row it has locked, as it read it
    old,        \* the status and token of the task row it has locked
    seq         \* the history seq it appends at

txVars == <<pc, call, row, old, seq>>

ASSUME TaskStepsAssumption ==
    \A s \in StepId : Def.steps[s].type \in {"activity", "end"}

ASSUME PostgresAssumption == Backend = "pg"

-----------------------------------------------------------------------------
NoCall == [kind |-> "none"]

\* Nothing read: the row is not locked.
Unread == [status |-> "ABSENT", token |-> NoToken]

Call ==
    [kind : {"start", "advance"}, inst : Instance]
       \cup [kind : {"complete"}, inst : Instance, step : StepId, task : TaskId,
             token : Token]
       \cup [kind : {"fail"}, inst : Instance, step : StepId, task : TaskId,
             token : Token, attempt : Nat, retryable : BOOLEAN, ticks : Backoff]

InTx(c, kind) == call[c].kind = kind

\* The OnTaskFail calls of these clients.
FailCalls(clients) ==
    {[task |-> call[c].task, token |-> call[c].token, attempt |-> call[c].attempt] :
        c \in {o \in clients : InTx(o, "fail")}}

\* Mutant: a plain SELECT.
InstNotLocking(c, i) == TRUE

\* SELECT ... FOR UPDATE: no other client holds the row.
InstFree(c, i) ==
    \A o \in Client \ {c} : row[o] # NoRow => call[o].inst # i

\* Mutant: a plain SELECT.
TaskNotLocking(c, t) == TRUE

TaskFree(c, t) ==
    \A o \in Client \ {c} : old[o] # Unread => call[o].task # t

TaskUnlocked(t) == \A o \in Client : old[o] # Unread => call[o].task # t

\* Mutant: the seq is reserved by the subquery that reads it.
SeqReservedBy(c, o) ==
    /\ pc[o] \in {"insert", "commit"}
    /\ seq[o] = seq[c]
    /\ call[o].inst = call[c].inst

\* Another client has inserted the event c is about to insert and has not
\* committed yet.
SeqHeldBy(c, o) ==
    /\ pc[o] = "commit"
    /\ seq[o] = seq[c]
    /\ call[o].inst = call[c].inst

-----------------------------------------------------------------------------
(* Begin and end.                                                          *)

Begin(c, k, first) ==
    /\ pc[c] = "idle"
    /\ pc' = [pc EXCEPT ![c] = first]
    /\ call' = [call EXCEPT ![c] = k]
    /\ UNCHANGED <<row, old, seq>>

\* Commit or rollback: the locks go.
EndTx(c) ==
    /\ pc' = [pc EXCEPT ![c] = "idle"]
    /\ call' = [call EXCEPT ![c] = NoCall]
    /\ row' = [row EXCEPT ![c] = NoRow]
    /\ old' = [old EXCEPT ![c] = Unread]
    /\ seq' = [seq EXCEPT ![c] = 0]
    /\ calls' = FailCalls(Client \ {c})
    /\ starting' = IF InTx(c, "start") THEN starting \ {call[c].inst} ELSE starting

\* The call that created the instance goes on to record its start.
BeginStart(c, i) ==
    /\ i \in starting
    /\ \A o \in Client : call[o] # [kind |-> "start", inst |-> i]
    /\ Begin(c, [kind |-> "start", inst |-> i], "seq")
    /\ UNCHANGED <<stored, volatile>>

BeginAdvance(c, i) ==
    /\ inst[i].status = "RUNNABLE"
    /\ Begin(c, [kind |-> "advance", inst |-> i], "inst")
    /\ UNCHANGED <<stored, volatile>>

\* OnTaskComplete and OnTaskFail read the task before they open a transaction.
BeginComplete(c, d) ==
    /\ d \in held
    /\ Begin(c, [kind |-> "complete", inst |-> task[d.task].inst,
                 step |-> task[d.task].step, task |-> d.task, token |-> d.token],
             "task")
    /\ UNCHANGED <<stored, volatile>>

BeginFail(c, d, retryable, ticks) ==
    /\ Begin(c, [kind |-> "fail", inst |-> task[d.task].inst,
                 step |-> task[d.task].step, task |-> d.task, token |-> d.token,
                 attempt |-> task[d.task].attempt,
                 retryable |-> retryable, ticks |-> ticks],
             "inst")
    /\ ReadFailingTask(d)

-----------------------------------------------------------------------------
(* The statements.                                                         *)

\* The instance is parked on the step of the task that c reports.
AwaitsTask(r, c) == r.status = "WAITING" /\ r.step = call[c].step

\* A handler that finds nothing to do appends no event.
Appends(c, r) ==
    \/ InTx(c, "start")
    \/ InTx(c, "advance") /\ r.status = "RUNNABLE"
    \/ (InTx(c, "complete") \/ InTx(c, "fail")) /\ AwaitsTask(r, c)

AfterReads(c, r) == IF Appends(c, r) THEN "seq" ELSE "commit"

Retries(c) == DecideRetry(call[c].step, call[c].attempt, call[c].retryable)

GetInstanceForUpdate(c) ==
    LET r == inst[call[c].inst]
    IN  /\ pc[c] = "inst"
        /\ InstFree(c, call[c].inst)
        /\ row' = [row EXCEPT ![c] = r]
        /\ pc' = [pc EXCEPT ![c] = IF InTx(c, "fail") THEN "task" ELSE AfterReads(c, r)]
        /\ UNCHANGED <<stored, volatile, call, old, seq>>

\* The statuses on which the settling call of this handler is a no-op.
Noop(c) ==
    IF InTx(c, "complete") THEN CompleteNoop
    ELSE IF AwaitsTask(row[c], c) /\ Retries(c) THEN RequeueNoop
    ELSE FailNoop

\* CompleteTask, FailTask or RequeueTask: a wrong token rolls back.
SettleTask(c) ==
    LET t == call[c].task
    IN  /\ pc[c] = "task"
        /\ TaskFree(c, t)
        /\ IF Accepted(t, call[c].token, Noop(c))
             THEN /\ old' = [old EXCEPT ![c] = [status |-> task[t].status,
                                                token  |-> task[t].token]]
                  /\ pc' = [pc EXCEPT ![c] =
                              IF InTx(c, "complete") THEN "inst"
                              ELSE AfterReads(c, row[c])]
                  /\ UNCHANGED <<call, row, seq, calls, starting>>
             ELSE EndTx(c)
        /\ UNCHANGED <<stored, held, signalling, batch>>

\* AppendEvent's subquery.
NextSeq(c) ==
    /\ pc[c] = "seq"
    /\ seq' = [seq EXCEPT ![c] = Len(history[call[c].inst]) + 1]
    /\ pc' = [pc EXCEPT ![c] = "insert"]
    /\ UNCHANGED <<stored, volatile, call, row, old>>

\* UpdateInstance found another row_version than the one it read.
VersionConflict(c) ==
    row[c] # NoRow /\ row[c].rowVersion # inst[call[c].inst].rowVersion

\* AppendEvent's insert, and the UPDATEs behind it, which wait for nothing: the
\* unique (instance_id, seq) makes it wait for an uncommitted event of the same
\* seq, and fail on a committed one.  The second event of a terminal failure takes
\* the seq behind the first, which nobody else can have.
AppendEvent(c) ==
    /\ pc[c] = "insert"
    /\ \A o \in Client \ {c} : ~SeqHeldBy(c, o)
    /\ IF seq[c] > Len(history[call[c].inst]) /\ ~VersionConflict(c)
         THEN /\ pc' = [pc EXCEPT ![c] = "commit"]
              /\ UNCHANGED <<call, row, old, seq, calls, starting>>
         ELSE EndTx(c)
    /\ UNCHANGED <<stored, held, signalling, batch>>

-----------------------------------------------------------------------------
(* What each handler has written by the time it commits, from the rows it  *)
(* read.                                                                   *)

\* The events take the seqs from seq[c] on.
WriteEvents(c, events) ==
    history' = [history EXCEPT ![call[c].inst] = SubSeq(@, 1, seq[c] - 1) \o events]

WriteInstance(c, r) ==
    inst' = [inst EXCEPT ![call[c].inst] = [r EXCEPT !.rowVersion = r.rowVersion + 1]]

WriteTask(c, status) ==
    task' = IF old[c].status \in Noop(c)
              THEN task
              ELSE [task EXCEPT ![call[c].task].status = status]

\* StartInstance's WORKFLOW_STARTED.
CommitStart(c) ==
    /\ InTx(c, "start")
    /\ WriteEvents(c, <<Ev("WORKFLOW_STARTED", Def.initial, NoRef)>>)
    /\ EnqueueOutbox(call[c].inst, "WORKFLOW_STARTED")
    /\ UNCHANGED <<inst, task>>

\* enterStep of an activity.
CommitActivity(c) ==
    LET i == call[c].inst
        r == row[c]
    IN  /\ InTx(c, "advance")
        /\ r.status = "RUNNABLE"
        /\ Def.steps[r.step].type = "activity"
        /\ \E t \in TaskId :
              /\ ~Exists(task[t])
              /\ task' = IF KeyTaken(i, r.step, r.rowVersion)
                           THEN task
                           ELSE [task EXCEPT ![t] = [status    |-> "QUEUED",
                                                     inst      |-> i,
                                                     step      |-> r.step,
                                                     visit     |-> r.rowVersion,
                                                     payload   |-> r.context,
                                                     attempt   |-> 1,
                                                     visibleIn |-> 0,
                                                     token     |-> NoToken,
                                                     expiresIn |-> 0]]
        /\ WriteEvents(c, <<Ev("TASK_SCHEDULED", r.step, NoRef)>>)
        /\ WriteInstance(c, [r EXCEPT !.status = "WAITING"])
        /\ UNCHANGED outbox

\* enterStep of an end step.
CommitEnd(c) ==
    LET i == call[c].inst
        r == row[c]
    IN  /\ InTx(c, "advance")
        /\ r.status = "RUNNABLE"
        /\ Def.steps[r.step].type = "end"
        /\ WriteEvents(c, <<Ev("WORKFLOW_SUCCEEDED", r.step, NoRef)>>)
        /\ EnqueueOutbox(i, "WORKFLOW_SUCCEEDED")
        /\ WriteInstance(c, [r EXCEPT !.status = "SUCCEEDED"])
        /\ UNCHANGED task

\* A concurrent Advance was first.
CommitNothing(c) ==
    /\ InTx(c, "advance")
    /\ row[c].status # "RUNNABLE"
    /\ UNCHANGED <<inst, task, history, outbox>>

CommitComplete(c) ==
    LET i == call[c].inst
        t == call[c].task
        s == call[c].step
    IN  /\ InTx(c, "complete")
        /\ WriteTask(c, "DONE")
        /\ IF AwaitsTask(row[c], c)
             THEN /\ WriteEvents(c, <<Ev("TASK_COMPLETED", s, t)>>)
                  /\ WriteInstance(c, [row[c] EXCEPT
                                         !.status  = "RUNNABLE",
                                         !.step    = Def.steps[s].next,
                                         !.context = [row[c].context EXCEPT ![s] = t]])
             ELSE UNCHANGED <<inst, history>>
        /\ UNCHANGED outbox

CommitStale(c) ==
    /\ InTx(c, "fail")
    /\ ~AwaitsTask(row[c], c)
    /\ WriteTask(c, "FAILED")
    /\ UNCHANGED <<inst, history, outbox>>

CommitRetry(c) ==
    LET t == call[c].task
    IN  /\ InTx(c, "fail")
        /\ AwaitsTask(row[c], c)
        /\ Retries(c)
        /\ task' = IF old[c].status \in Noop(c)
                     THEN task
                     ELSE [task EXCEPT ![t] = [task[t] EXCEPT
                                                 !.status    = "QUEUED",
                                                 !.attempt   = call[c].attempt + 1,
                                                 !.visibleIn = call[c].ticks,
                                                 !.token     = NoToken,
                                                 !.expiresIn = 0]]
        /\ WriteEvents(c, <<Ev("TASK_RETRY_SCHEDULED", call[c].step, t)>>)
        /\ UNCHANGED <<inst, outbox>>

CommitFailure(c) ==
    LET i == call[c].inst
        t == call[c].task
        s == call[c].step
    IN  /\ InTx(c, "fail")
        /\ AwaitsTask(row[c], c)
        /\ ~Retries(c)
        /\ WriteTask(c, "FAILED")
        /\ WriteEvents(c, <<Ev("TASK_FAILED", s, t), Ev("WORKFLOW_FAILED", s, NoRef)>>)
        /\ EnqueueOutbox(i, "WORKFLOW_FAILED")
        /\ WriteInstance(c, [row[c] EXCEPT !.status = "FAILED"])

Commit(c) ==
    /\ pc[c] = "commit"
    /\ \/ CommitStart(c)
       \/ CommitActivity(c)
       \/ CommitEnd(c)
       \/ CommitNothing(c)
       \/ CommitComplete(c)
       \/ CommitStale(c)
       \/ CommitRetry(c)
       \/ CommitFailure(c)
    /\ EndTx(c)
    /\ UNCHANGED <<timer, signal, held, signalling, batch>>

\* A lost connection, a cancelled context, a crash.
Rollback(c) ==
    /\ pc[c] # "idle"
    /\ EndTx(c)
    /\ UNCHANGED <<stored, held, signalling, batch>>

-----------------------------------------------------------------------------
(* Waiting.                                                                *)

WaitsFor(c, o) ==
    /\ o # c
    /\ \/ pc[c] = "inst" /\ row[o] # NoRow /\ call[o].inst = call[c].inst
       \/ pc[c] = "task" /\ old[o] # Unread /\ call[o].task = call[c].task
       \/ pc[c] = "insert" /\ SeqHeldBy(c, o)

\* Everyone in the set waits for someone in it.
Stuck(clients) ==
    clients # {} /\ \A c \in clients : \E o \in clients : WaitsFor(c, o)

WaitCycle(clients) ==
    Stuck(clients) /\ \A fewer \in SUBSET clients : Stuck(fewer) => fewer = clients

\* Postgres aborts one transaction of a wait cycle.
DeadlockDetected ==
    \E clients \in SUBSET Client :
       /\ WaitCycle(clients)
       /\ \E c \in clients : Rollback(c)

-----------------------------------------------------------------------------
(* Statements that are transactions of their own.  A row that is locked is *)
(* passed over by SKIP LOCKED and waited for by an UPDATE, which then      *)
(* looks at it again.  At most one task of an instance is leased at a      *)
(* time, so the sweeper never holds one row while it waits for another of  *)
(* the same instance.                                                      *)

Single ==
    \/ \E i \in Instance :
          \/ \E key \in Key : StartInstance(i, key)
          \/ /\ \A o \in Client : call[o] # [kind |-> "start", inst |-> i]
             /\ AbortStart(i)
    \/ \E t \in TaskId, token \in Token : TaskUnlocked(t) /\ LeaseTask(t, token)
    \/ \E d \in Delivery :
          \/ TaskUnlocked(d.task) /\ HeartbeatTask(d)
          \/ /\ \A o \in Client : InTx(o, "complete") =>
                                     d # [task |-> call[o].task, token |-> call[o].token]
             /\ ForgetDelivery(d)
    \/ (\A t \in TaskId : Expired(t) => TaskUnlocked(t)) /\ ExpireLeases
    \/ Tick

-----------------------------------------------------------------------------
TxInit ==
    /\ Init
    /\ pc   = [c \in Client |-> "idle"]
    /\ call = [c \in Client |-> NoCall]
    /\ row  = [c \in Client |-> NoRow]
    /\ old  = [c \in Client |-> Unread]
    /\ seq  = [c \in Client |-> 0]

\* The next statement of a transaction.
Statement(c) ==
    \/ GetInstanceForUpdate(c)
    \/ SettleTask(c)
    \/ NextSeq(c)
    \/ AppendEvent(c)
    \/ Commit(c)

TxNext ==
    \/ \E c \in Client :
          \/ \E i \in Instance : BeginStart(c, i) \/ BeginAdvance(c, i)
          \/ \E d \in held :
                \/ BeginComplete(c, d)
                \/ \E retryable \in BOOLEAN, ticks \in Backoff :
                      BeginFail(c, d, retryable, ticks)
          \/ Statement(c)
          \/ Rollback(c)
    \/ DeadlockDetected
    \/ Single /\ UNCHANGED txVars

TxSpec == TxInit /\ [][TxNext]_<<vars, txVars>>

-----------------------------------------------------------------------------
(* What the transactions promise.                                          *)

TxTypeOK ==
    /\ pc   \in [Client -> {"idle", "inst", "task", "seq", "insert", "commit"}]
    /\ call \in [Client -> Call \cup {NoCall}]
    /\ row  \in [Client -> InstanceRow \cup {NoRow}]
    /\ old  \in [Client -> [status : {"QUEUED", "LEASED", "DONE", "FAILED"},
                           token : Token \cup {NoToken}] \cup {Unread}]
    /\ seq  \in [Client -> Nat]

\* The handlers are atomic: statements of different transactions interleave, but
\* what is committed, and when, is what some behaviour of Kernel does, where every
\* Tx is one step.  No update is lost, no decision is taken on a row that changed
\* before the commit, and no two events of an instance share a seq.
ImplementsKernel == Spec

\* Transactions wait in a cycle only when one task's completion and failure are
\* reported at once: OnTaskComplete locks the task, then the instance, OnTaskFail
\* the instance, then the task.
DeadlockIsCompleteVersusFail ==
    \A clients \in SUBSET Client : Stuck(clients) =>
       \E c, o \in clients :
          /\ WaitsFor(c, o) /\ WaitsFor(o, c)
          /\ InTx(c, "complete") /\ InTx(o, "fail")
          /\ call[c].task = call[o].task

\* What a transaction read under a lock is what the table holds until it ends, so
\* UpdateInstance never meets ErrVersionConflict.
ReadsAreCurrent ==
    \A c \in Client :
       /\ row[c] # NoRow => row[c] = inst[call[c].inst]
       /\ old[c] # Unread => /\ old[c].status = task[call[c].task].status
                             /\ old[c].token = task[call[c].task].token

\* Only StartInstance appends without the instance's lock: the only event that can
\* take the seq another handler is about to insert, and fail it, is
\* WORKFLOW_STARTED.
SeqLostOnlyToStart ==
    \A c \in Client :
       LET events == history[call[c].inst]
       IN  pc[c] = "insert" /\ ~InTx(c, "start") /\ seq[c] <= Len(events)
              => events[seq[c]].type = "WORKFLOW_STARTED"

=============================================================================
