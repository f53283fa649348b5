---------------------------- MODULE HistoryProofs ---------------------------
(***************************************************************************)
(* The audit trail: what the history, the outbox, the context and the      *)
(* inbox say of an instance, for every definition Validate accepts, and    *)
(* the refinement of Workflow.  Each property of the audit trail is proved *)
(* shape by shape (NextShapes).                                            *)
(***************************************************************************)
EXTENDS Refinement, KernelProofs, FiniteSetTheorems

\* A leaf is left to Zenon unless it names the SMT solver.
USE ZenonT(30)

-----------------------------------------------------------------------------
(* A finished instance is final.                                           *)

FinalStep ==
    \A i \in Instance : Terminal(inst[i].status) =>
        /\ inst'[i] = inst[i]
        /\ \/ history'[i] = history[i]
           \/ \E s \in StepId :
              history'[i] = Append(history[i], Ev("WORKFLOW_STARTED", s, NoRef))

\* No handler changes a finished instance; RecordStart may still log its start.
LEMMA NextFinal == Linked /\ [Next]_vars => FinalStep
<1> SUFFICES ASSUME Linked, [Next]_vars, NEW i \in Instance, Terminal(inst[i].status)
             PROVE  /\ inst'[i] = inst[i]
                    /\ \/ history'[i] = history[i]
                       \/ \E s \in StepId :
                          history'[i] = Append(history[i], Ev("WORKFLOW_STARTED", s, NoRef))
  BY DEF FinalStep
<1>1. TypeOK /\ Exists(inst[i])
  BY SMTT(30) DEF Linked, Terminal, Exists, NoRow
<1>2. CASE Quiet
  BY <1>2 DEF Quiet
<1>3. ASSUME NEW j \in Instance, NEW key \in Key, StartInstance(j, key)
      PROVE  inst'[i] = inst[i] /\ history'[i] = history[i]
  BY <1>1, <1>3 DEF StartInstance, TypeOK
<1>4. ASSUME NEW j \in Instance, RecordStart(j)
      PROVE  /\ inst'[i] = inst[i]
             /\ \/ history'[i] = history[i]
                \/ \E s \in StepId :
                   history'[i] = Append(history[i], Ev("WORKFLOW_STARTED", s, NoRef))
  <2> DEFINE e == Ev("WORKFLOW_STARTED", Def.initial, NoRef)
  <2>1. inst'[i] = inst[i] /\ AppendEvents(j, <<e>>)
    BY <1>4 DEF RecordStart
  <2>2. history'[i] = IF i = j THEN history[i] \o <<e>> ELSE history[i]
    BY <1>1, <2>1 DEF AppendEvents, TypeOK
  <2>3. history[i] \in Seq(Event) /\ e \in Event
    BY <1>1, EventTyped, SuccessorsExist DEF TypeOK, NoRef, EventType
  <2> HIDE DEF e
  <2>4. history[i] \o <<e>> = Append(history[i], e)
    BY SMTT(30), <2>3
  <2>5. QED
    BY <2>1, <2>2, <2>4, SuccessorsExist DEF e
<1>5. ASSUME NEW j \in Instance, NEW name \in Name, NEW s \in SignalId, AppendSignal(j, name, s)
      PROVE  inst'[i] = inst[i] /\ history'[i] = history[i]
  BY <1>5 DEF AppendSignal
<1>6. ASSUME NEW j \in Instance, Exists(inst[j]), Shape(j)
      PROVE  inst'[i] = inst[i] /\ history'[i] = history[i]
  BY <1>6, ShapeFrame
<1>7. QED
  BY <1>2, <1>3, <1>4, <1>5, <1>6, NextShapes

\* TerminalIsFinal: once SUCCEEDED or FAILED, an instance row never changes, and
\* only the start event StartInstance writes late may still join its history.
THEOREM FinishedForGood == Spec => TerminalIsFinal
<1>1. Init => Linked
  BY InitLinked
<1>2. Linked /\ [Next]_vars => Linked'
  BY NextLinked
<1>3. Linked /\ [Next]_vars => FinalStep
  BY NextFinal
<1>4. TerminalIsFinal <=> [][FinalStep]_vars
  BY PTL DEF TerminalIsFinal, FinalStep
<1>5. QED
  BY <1>1, <1>2, <1>3, <1>4, PTL DEF Spec

-----------------------------------------------------------------------------
(* The last event explains the row.                                        *)

\* HistoryExplainsState at one instance; an instance that is not there has made
\* no progress.
Explained(i) ==
    IF Progress(i) = {}
      THEN Exists(inst[i]) => /\ inst[i].step = Def.initial
                              /\ inst[i].status = "RUNNABLE" \/ WaitsForEver(i)
      ELSE /\ Exists(inst[i])
           /\ \E n \in Progress(i) : /\ \A m \in Progress(i) : m <= n
                                      /\ Explains(i, n)

Trail == \A i \in Instance : Explained(i)

\* Explained looks at nothing but the row and the history of its instance.
LEMMA ExplainedFrame ==
    ASSUME NEW i \in Instance, Explained(i), inst'[i] = inst[i], history'[i] = history[i]
    PROVE  Explained(i)'
  BY DEF Explained, Progress, WaitsForEver, StepOf, Explains, ParkedBy

\* The event logged last is the last one of the history.
LEMMA LastLogged ==
    ASSUME NEW i \in Instance, NEW n, NEW e, Logs(i, n, e), e.type # "WORKFLOW_STARTED"
    PROVE  n \in Progress(i)' /\ \A m \in Progress(i)' : m <= n
<1>1. n \in Progress(i)'
  BY DEF Logs, Progress
<1>2. ASSUME NEW m \in Progress(i)'
      PROVE  m <= n
  <2>1. m = n \/ m \in DOMAIN history[i]
    BY DEF Logs, Progress
  <2>2. n \in Nat /\ (m \in DOMAIN history[i] => m \in Nat /\ m < n)
    BY DEF Logs
  <2>3. QED
    BY SMTT(30), <2>1, <2>2
<1>3. QED
  BY <1>1, <1>2

\* So is the second of two.
LEMMA LastLoggedTwo ==
    ASSUME NEW i \in Instance, NEW n, NEW e, NEW f, LogsTwo(i, n, e, f),
           f.type # "WORKFLOW_STARTED"
    PROVE  n \in Progress(i)' /\ \A m \in Progress(i)' : m <= n
<1>1. n \in Progress(i)'
  BY DEF LogsTwo, Progress
<1>2. ASSUME NEW m \in Progress(i)'
      PROVE  m <= n
  <2>1. m \in {n - 1, n} \/ m \in DOMAIN history[i]
    BY DEF LogsTwo, Progress
  <2>2. n \in Nat /\ (m \in DOMAIN history[i] => m \in Nat /\ m < n - 1)
    BY DEF LogsTwo
  <2>3. QED
    BY SMTT(30), <2>1, <2>2
<1>3. QED
  BY <1>1, <1>2

\* The start event is no progress, and moves nothing.
LEMMA StartedTrail ==
    ASSUME Linked, Trail, NEW i \in Instance, RecordStart(i)
    PROVE  Trail'
<1> DEFINE e == Ev("WORKFLOW_STARTED", Def.initial, NoRef)
<1>1. TypeOK /\ UNCHANGED inst /\ AppendEvents(i, <<e>>) /\ e \in Event
  BY EventTyped, SuccessorsExist DEF Linked, RecordStart, NoRef, EventType
<1>2. PICK n \in Nat : Logs(i, n, e)
  BY <1>1, EventLogged
<1>3. e.type = "WORKFLOW_STARTED"
  BY DEF Ev
<1> HIDE DEF e
<1>4. Progress(i)' = Progress(i)
  BY <1>2, <1>3 DEF Logs, Progress
<1>5. \A m \in Progress(i) : history'[i][m] = history[i][m]
  BY <1>2 DEF Logs, Progress
<1>6. \A m \in Progress(i) : m > 1 => history'[i][m - 1] = history[i][m - 1]
  <2>1. \A m \in Progress(i) : m > 1 => m - 1 \in DOMAIN history[i]
    <3> DEFINE h == history[i]
    <3>1. h \in Seq(Event) /\ Progress(i) \subseteq DOMAIN h
      BY <1>1 DEF TypeOK, Progress
    <3> HIDE DEF h
    <3>2. \A m \in DOMAIN h : m > 1 => m - 1 \in DOMAIN h
      BY SMTT(30), <3>1
    <3>3. QED
      BY <3>1, <3>2 DEF h
  <2>2. QED
    BY <1>2, <2>1 DEF Logs
<1>7. ASSUME NEW m \in Progress(i), Explains(i, m)
      PROVE  Explains(i, m)'
  BY <1>1, <1>5, <1>6, <1>7 DEF Explains, WaitsForEver, ParkedBy, StepOf
<1>8. Explained(i)'
  BY <1>1, <1>4, <1>7 DEF Trail, Explained, WaitsForEver, StepOf
<1>9. ASSUME NEW j \in Instance, j # i
      PROVE  Explained(j)'
  BY <1>1, <1>2, <1>9, ExplainedFrame DEF Trail, Logs
<1>10. QED
  BY <1>8, <1>9 DEF Trail

\* A transaction on i that logs one event leaves i explained when that event
\* explains the new row.
LEMMA ExplainedBy ==
    ASSUME Linked, NEW i \in Instance, Exists(inst'[i]), NEW e \in Event,
           AppendEvents(i, <<e>>), e.type # "WORKFLOW_STARTED",
           \A n : history'[i][n] = e => Explains(i, n)'
    PROVE  Explained(i)'
<1>1. PICK n \in Nat : Logs(i, n, e)
  BY EventLogged DEF Linked
<1>2. n \in Progress(i)' /\ \A m \in Progress(i)' : m <= n
  BY <1>1, LastLogged
<1>3. Explains(i, n)'
  BY <1>1 DEF Logs
<1>4. QED
  BY <1>2, <1>3 DEF Explained

\* Every transaction on an instance leaves its last event to explain its row.
LEMMA ShapeExplained ==
    ASSUME Linked, NEW i \in Instance, Exists(inst[i]), Explained(i), Shape(i)
    PROVE  Explained(i)'
<1>1. TypeOK /\ inst[i].step \in StepId /\ inst[i] \in InstanceRow
  BY RowsExist DEF Linked, Exists, InstanceRow
<1>2. ASSUME NEW e, EntersBy(i, e)
      PROVE  Explained(i)'
  <2>1. /\ Exists(inst'[i]) /\ inst'[i].status = "WAITING" /\ inst'[i].step = inst[i].step
        /\ StepOf(i)' = StepOf(i)
    BY <1>1, <1>2, Parks DEF EntersBy, StepOf
  <2>2. e \in Event
    BY <1>1, <1>2, EventTyped DEF EntersBy, NoRef, EventType
  <2>3. /\ e.step = inst[i].step
        /\ e.type = IF StepOf(i).type = "activity" THEN "TASK_SCHEDULED" ELSE "TIMER_CREATED"
        /\ StepOf(i).type = "wait_signal" => StepOf(i).timeoutAfter > 0
        /\ AppendEvents(i, <<e>>)
    BY <1>2 DEF EntersBy, Ev
  <2>4. StepOf(i).timeoutAfter \in Int
    BY <1>1, SuccessorsExist DEF StepOf
  <2>5. ~WaitsForEver(i)'
    BY SMTT(30), <2>1, <2>3, <2>4 DEF WaitsForEver
  <2>6. ASSUME NEW n, history'[i][n] = e
        PROVE  Explains(i, n)'
    BY <2>1, <2>3, <2>5, <2>6 DEF Explains, ParkedBy
  <2>7. e.type # "WORKFLOW_STARTED"
    BY <2>3
  <2>8. QED
    BY <2>1, <2>2, <2>3, <2>6, <2>7, ExplainedBy
<1>3. ASSUME EntersSilently(i)
      PROVE  Explained(i)'
  <2>1. /\ Exists(inst'[i]) /\ inst'[i].status = "WAITING" /\ inst'[i].step = inst[i].step
        /\ StepOf(i)' = StepOf(i) /\ history' = history
    BY <1>1, <1>3, Parks DEF EntersSilently, StepOf
  <2>2. inst[i].status = "RUNNABLE" /\ WaitsForEver(i)'
    BY <1>3, <2>1 DEF EntersSilently, WaitsForEver
  <2>3. ASSUME NEW n, Explains(i, n)
        PROVE  Explains(i, n)'
    BY <2>1, <2>2, <2>3 DEF Explains
  <2>4. Progress(i)' = Progress(i)
    BY <2>1 DEF Progress
  <2>5. QED
    BY <2>1, <2>2, <2>3, <2>4 DEF Explained
<1>4. ASSUME NEW e, MovesBy(i, e)
      PROVE  Explained(i)'
  <2>1. PICK to \in StepId : SendsTo(e, to) /\ Move(i, to, ContextAfter(i, e))
    BY <1>4 DEF MovesBy
  <2>2. /\ Exists(inst'[i]) /\ inst'[i].status = "RUNNABLE" /\ inst'[i].step = to
    BY <1>1, <2>1, Moved
  <2>3. ASSUME NEW n, history'[i][n] = e
        PROVE  Explains(i, n)'
    BY <2>1, <2>2, <2>3 DEF Explains
  <2>4. e \in Event /\ e.type # "WORKFLOW_STARTED" /\ AppendEvents(i, <<e>>)
    BY <1>4 DEF MovesBy
  <2>5. QED
    BY <2>2, <2>3, <2>4, ExplainedBy
<1>5. ASSUME EnterEnd(i)
      PROVE  Explained(i)'
  <2> DEFINE e == Ev("WORKFLOW_SUCCEEDED", inst[i].step, NoRef)
  <2>1. /\ StepOf(i).type = "end" /\ Finish(i, "SUCCEEDED") /\ AppendEvents(i, <<e>>)
    BY <1>5 DEF EnterEnd, Runnable
  <2>2. /\ Exists(inst'[i]) /\ inst'[i].status = "SUCCEEDED" /\ inst'[i].step = inst[i].step
        /\ StepOf(i)' = StepOf(i)
    BY <1>1, <2>1, Finished DEF StepOf
  <2>3. ~WaitsForEver(i)'
    BY <2>2 DEF WaitsForEver
  <2>4. ASSUME NEW n, history'[i][n] = e
        PROVE  Explains(i, n)'
    BY <2>1, <2>2, <2>3, <2>4 DEF Explains
  <2>5. e \in Event /\ e.type # "WORKFLOW_STARTED"
    BY <1>1, EventTyped DEF NoRef, EventType, Ev
  <2> HIDE DEF e
  <2>6. QED
    BY <2>1, <2>2, <2>4, <2>5, ExplainedBy
<1>6. ASSUME NEW t, RetriesBy(i, t)
      PROVE  Explained(i)'
  <2> DEFINE e == Ev("TASK_RETRY_SCHEDULED", inst[i].step, t)
  <2>1. /\ inst[i].status = "WAITING" /\ StepOf(i).type = "activity" /\ AppendEvents(i, <<e>>)
        /\ inst' = inst /\ t \in Nat /\ StepOf(i)' = StepOf(i)
    BY <1>6, IdAssumption DEF RetriesBy, StepOf
  <2>2. /\ e \in Event /\ e.type # "WORKFLOW_STARTED" /\ e.type = "TASK_RETRY_SCHEDULED"
        /\ e.step = inst[i].step
    BY <1>1, <2>1, EventTyped DEF EventType, Ev
  <2> HIDE DEF e
  <2>3. ~WaitsForEver(i)'
    BY <2>1 DEF WaitsForEver
  <2>4. ASSUME NEW n, history'[i][n] = e
        PROVE  Explains(i, n)'
    BY <2>1, <2>2, <2>3, <2>4 DEF Explains, ParkedBy
  <2>5. QED
    BY <2>1, <2>2, <2>4, ExplainedBy
<1>7. ASSUME NEW t, FailsBy(i, t)
      PROVE  Explained(i)'
  <2> DEFINE e == Ev("TASK_FAILED", inst[i].step, t)
             f == Ev("WORKFLOW_FAILED", inst[i].step, NoRef)
  <2>1. AppendEvents(i, <<e, f>>) /\ t \in Nat /\ Finish(i, "FAILED")
    BY <1>7, IdAssumption DEF FailsBy
  <2>2. /\ Exists(inst'[i]) /\ inst'[i].status = "FAILED" /\ inst'[i].step = inst[i].step
    BY <1>1, <2>1, Finished
  <2>3. e \in Event /\ f \in Event /\ f.type # "WORKFLOW_STARTED" /\ e.type = "TASK_FAILED"
    BY <1>1, <2>1, EventTyped DEF NoRef, EventType, Ev
  <2>4. PICK n \in Nat : LogsTwo(i, n, e, f)
    BY <1>1, <2>1, <2>3, EventsLogged
  <2>5. n \in Progress(i)' /\ \A m \in Progress(i)' : m <= n
    BY <2>3, <2>4, LastLoggedTwo
  <2>6. ~WaitsForEver(i)'
    BY <2>2 DEF WaitsForEver
  <2>7. Explains(i, n)'
    BY <2>2, <2>3, <2>4, <2>6 DEF Explains, LogsTwo
  <2>8. QED
    BY <2>2, <2>5, <2>7 DEF Explained
<1>8. QED
  BY <1>2, <1>3, <1>4, <1>5, <1>6, <1>7 DEF Shape

\* No step of the kernel breaks the trail.
LEMMA NextTrail == Linked /\ Trail /\ [Next]_vars => Trail'
<1> SUFFICES ASSUME Linked, Trail, [Next]_vars
             PROVE  Trail'
  OBVIOUS
<1>1. CASE Quiet
  BY <1>1, ExplainedFrame DEF Quiet, Trail
<1>2. ASSUME NEW i \in Instance, NEW key \in Key, StartInstance(i, key)
      PROVE  Trail'
  <2>1. /\ inst'[i].status = "RUNNABLE" /\ inst'[i].step = Def.initial
        /\ \A j \in Instance : j # i => inst'[j] = inst[j]
        /\ history' = history /\ ~Exists(inst[i])
    BY <1>2 DEF StartInstance, Linked, TypeOK
  <2>2. Progress(i)' = {}
    BY <2>1 DEF Trail, Explained, Progress
  <2>3. Explained(i)'
    BY <2>1, <2>2 DEF Explained
  <2>4. \A j \in Instance : j # i => Explained(j)'
    BY <2>1, ExplainedFrame DEF Trail
  <2>5. QED
    BY <2>3, <2>4 DEF Trail
<1>3. ASSUME NEW i \in Instance, NEW name \in Name, NEW s \in SignalId, AppendSignal(i, name, s)
      PROVE  Trail'
  BY <1>3, ExplainedFrame DEF AppendSignal, Trail
<1>4. ASSUME NEW i \in Instance, Exists(inst[i]), Shape(i)
      PROVE  Trail'
  BY <1>4, ShapeFrame, ShapeExplained, ExplainedFrame DEF Trail
<1>5. QED
  BY <1>1, <1>2, <1>3, <1>4, StartedTrail, NextShapes

\* Nothing has happened yet.
LEMMA InitTrail == Init => Trail
<1> SUFFICES ASSUME Init, NEW i \in Instance
             PROVE  Explained(i)
  BY DEF Trail
<1>1. ~Exists(inst[i]) /\ history[i] = <<>>
  BY DEF Init, Exists
<1>2. Progress(i) = {}
  BY SMTT(30), <1>1 DEF Progress
<1>3. QED
  BY <1>1, <1>2 DEF Explained

\* HistoryExplainsState: for every definition and every interleaving, the last
\* event of an instance's history determines the status and the step of its row.
THEOREM HistoryDeterminesState == Spec => []HistoryExplainsState
<1>1. Init => Linked /\ Trail
  BY InitLinked, InitTrail
<1>2. (Linked /\ Trail) /\ [Next]_vars => (Linked /\ Trail)'
  BY NextLinked, NextTrail
<1>3. Linked /\ Trail => HistoryExplainsState
  BY DEF Trail, Explained, HistoryExplainsState
<1>4. QED
  BY <1>1, <1>2, <1>3, PTL DEF Spec

-----------------------------------------------------------------------------
(* The step as one instance sees it.                                       *)

\* Events that neither change the context nor consume a signal nor retry a task.
PlainType ==
    {"WORKFLOW_STARTED", "TASK_SCHEDULED", "TIMER_CREATED", "TASK_FAILED",
     "WORKFLOW_SUCCEEDED", "WORKFLOW_FAILED"}

\* A step that keeps the context of i, or does not create i.
PlainStep(i) ==
    /\ LogsOnly(i, PlainType)
    /\ Exists(inst[i]) <=> Exists(inst'[i])
    /\ Exists(inst[i]) => inst'[i].context = inst[i].context

\* An instance a step does not touch takes a plain one.
LEMMA Untouched ==
    ASSUME NEW i \in Instance, inst'[i] = inst[i], history'[i] = history[i]
    PROVE  PlainStep(i)
<1>1. Ev("TASK_FAILED", Def.initial, NoRef).type \in PlainType
  BY DEF Ev, PlainType
<1>2. LogsOnly(i, PlainType)
  BY <1>1, LoggedOnly
<1>3. QED
  BY <1>2 DEF PlainStep

\* A transaction on i is plain, moves it on, or retries its task.
LEMMA ShapeSeen ==
    ASSUME Linked, NEW i \in Instance, Exists(inst[i]), Shape(i)
    PROVE  PlainStep(i) \/ \E e : MovesBy(i, e) \/ RetriesBy(i, e)
<1>1. TypeOK /\ inst[i].step \in StepId
  BY RowsExist DEF Linked, Exists, InstanceRow
<1>2. ASSUME NEW e, EntersBy(i, e)
      PROVE  PlainStep(i)
  <2>1. e \in Event /\ e.type \in PlainType
    BY <1>1, <1>2, EventTyped DEF EntersBy, NoRef, EventType, PlainType, Ev
  <2>2. LogsOnly(i, PlainType)
    BY <1>1, <1>2, <2>1, EventLogged, LoggedOnly DEF EntersBy
  <2>3. QED
    BY <1>1, <1>2, <2>2, Parks DEF EntersBy, PlainStep
<1>3. ASSUME EntersSilently(i)
      PROVE  PlainStep(i)
  <2>1. Ev("TASK_FAILED", Def.initial, NoRef).type \in PlainType
    BY DEF Ev, PlainType
  <2>2. LogsOnly(i, PlainType)
    BY <1>3, <2>1, LoggedOnly DEF EntersSilently
  <2>3. QED
    BY <1>1, <1>3, <2>2, Parks DEF EntersSilently, PlainStep
<1>4. ASSUME EnterEnd(i)
      PROVE  PlainStep(i)
  <2> DEFINE e == Ev("WORKFLOW_SUCCEEDED", inst[i].step, NoRef)
  <2>1. e \in Event /\ e.type \in PlainType /\ AppendEvents(i, <<e>>)
    BY <1>1, <1>4, EventTyped DEF EnterEnd, NoRef, EventType, PlainType, Ev
  <2> HIDE DEF e
  <2>2. LogsOnly(i, PlainType)
    BY <1>1, <2>1, EventLogged, LoggedOnly
  <2>3. QED
    BY <1>1, <1>4, <2>2, Finished DEF EnterEnd, PlainStep
<1>5. ASSUME NEW t, FailsBy(i, t)
      PROVE  PlainStep(i)
  <2> DEFINE e == Ev("TASK_FAILED", inst[i].step, t)
             f == Ev("WORKFLOW_FAILED", inst[i].step, NoRef)
  <2>1. AppendEvents(i, <<e, f>>) /\ t \in Nat
    BY <1>5, IdAssumption DEF FailsBy
  <2>2. e \in Event /\ f \in Event /\ e.type \in PlainType /\ f.type \in PlainType
    BY <1>1, <2>1, EventTyped DEF NoRef, EventType, PlainType, Ev
  <2> HIDE DEF e, f
  <2>3. LogsOnly(i, PlainType)
    BY <1>1, <2>1, <2>2, EventsLogged, LoggedOnly
  <2>4. QED
    BY <1>1, <1>5, <2>3, Finished DEF FailsBy, PlainStep
<1>6. QED
  BY <1>2, <1>3, <1>4, <1>5 DEF Shape

\* What any step of the kernel is to an instance.
LEMMA StepSeen ==
    ASSUME Linked, [Next]_vars, NEW i \in Instance
    PROVE  \/ PlainStep(i)
           \/ \E key \in Key : StartInstance(i, key)
           \/ Exists(inst[i]) /\ \E e : MovesBy(i, e) \/ RetriesBy(i, e)
<1>1. CASE Quiet
  BY <1>1, Untouched DEF Quiet
<1>2. ASSUME NEW j \in Instance, j # i, NEW key \in Key, StartInstance(j, key)
      PROVE  PlainStep(i)
  BY <1>2, Untouched DEF StartInstance, Linked, TypeOK
<1>3. ASSUME NEW j \in Instance, RecordStart(j)
      PROVE  PlainStep(i)
  <2> DEFINE e == Ev("WORKFLOW_STARTED", Def.initial, NoRef)
  <2>1. /\ UNCHANGED inst /\ AppendEvents(j, <<e>>)
        /\ e \in Event /\ e.type \in PlainType
    BY <1>3, EventTyped, SuccessorsExist DEF RecordStart, NoRef, EventType, PlainType, Ev
  <2> HIDE DEF e
  <2>2. PICK n \in Nat : Logs(j, n, e)
    BY <2>1, EventLogged DEF Linked
  <2>3. CASE i = j
    BY <2>1, <2>2, <2>3, LoggedOnly DEF PlainStep
  <2>4. CASE i # j
    BY <2>1, <2>2, <2>4, Untouched DEF Logs
  <2>5. QED
    BY <2>3, <2>4
<1>4. ASSUME NEW j \in Instance, NEW name \in Name, NEW s \in SignalId, AppendSignal(j, name, s)
      PROVE  PlainStep(i)
  BY <1>4, Untouched DEF AppendSignal
<1>5. ASSUME NEW j \in Instance, Exists(inst[j]), Shape(j)
      PROVE  PlainStep(i) \/ (Exists(inst[i]) /\ \E e : MovesBy(i, e) \/ RetriesBy(i, e))
  <2>1. CASE i = j
    BY <1>5, <2>1, ShapeSeen
  <2>2. CASE i # j
    BY <1>5, <2>2, ShapeFrame, Untouched
  <2>3. QED
    BY <2>1, <2>2
<1>6. QED
  BY <1>1, <1>2, <1>3, <1>4, <1>5, NextShapes

-----------------------------------------------------------------------------
(* The context.                                                            *)

\* The completions of a step in the history of an instance.
Done(i, s) ==
    {n \in DOMAIN history[i] : /\ history[i][n].type = "TASK_COMPLETED"
                               /\ history[i][n].step = s}

\* The last of them, if any, gave the context its output for the step.
OutputOf(i, s) ==
    IF Done(i, s) = {} THEN inst[i].context[s] = NoRef
    ELSE \E n \in Done(i, s) : /\ \A m \in Done(i, s) : m <= n
                               /\ history[i][n].ref = inst[i].context[s]

\* ContextMatchesHistory, in these terms.
LEMMA ContextByStep ==
    ContextMatchesHistory
        <=> \A i \in Instance : Exists(inst[i]) => \A s \in StepId : OutputOf(i, s)
  BY DEF ContextMatchesHistory, OutputOf, Done

\* Other events complete nothing.
LEMMA DoneKept ==
    ASSUME NEW i \in Instance, NEW types, LogsOnly(i, types), "TASK_COMPLETED" \notin types,
           NEW s, OutputOf(i, s), inst'[i].context[s] = inst[i].context[s]
    PROVE  OutputOf(i, s)'
<1>1. Done(i, s)' = Done(i, s)
  BY DEF LogsOnly, Done
<1>2. \A n \in Done(i, s) : history'[i][n] = history[i][n]
  BY DEF LogsOnly, Done
<1>3. QED
  BY <1>1, <1>2 DEF OutputOf

\* mergeStepOutput stores the output with the event.
LEMMA MoveMerges ==
    ASSUME Linked, NEW i \in Instance, Exists(inst[i]), NEW e, MovesBy(i, e),
           NEW s \in StepId, OutputOf(i, s)
    PROVE  OutputOf(i, s)'
<1>1. TypeOK /\ inst[i].context \in Context /\ e \in Event /\ AppendEvents(i, <<e>>)
  BY RowsExist DEF Linked, Exists, InstanceRow, MovesBy
<1>2. PICK n \in Nat : Logs(i, n, e)
  BY <1>1, EventLogged
<1>3. inst'[i].context = ContextAfter(i, e)
  BY <1>1, Moved DEF MovesBy
<1>4. CASE e.type # "TASK_COMPLETED"
  <2>1. LogsOnly(i, {e.type})
    BY <1>2, LoggedOnly
  <2>2. QED
    BY <1>3, <1>4, <2>1, DoneKept DEF ContextAfter
<1>5. CASE e.type = "TASK_COMPLETED"
  <2>1. inst'[i].context = [inst[i].context EXCEPT ![e.step] = e.ref]
    BY <1>3, <1>5 DEF ContextAfter
  <2>2. e.step \in StepId
    BY <1>1 DEF Event
  <2>3. CASE s = e.step
    <3>1. Done(i, s)' = Done(i, s) \cup {n}
      BY <1>2, <1>5, <2>3 DEF Logs, Done
    <3>2. \A m \in Done(i, s) : m \in Nat /\ m < n
      BY <1>2 DEF Logs, Done
    <3>3. \A m \in Done(i, s)' : m <= n
      BY SMTT(30), <3>1, <3>2
    <3>4. inst'[i].context[s] = e.ref
      BY <1>1, <2>1, <2>2, <2>3 DEF Context
    <3>5. history'[i][n] = e
      BY <1>2 DEF Logs
    <3>6. QED
      BY <3>1, <3>3, <3>4, <3>5 DEF OutputOf
  <2>4. CASE s # e.step
    <3>1. Done(i, s)' = Done(i, s)
      BY <1>2, <2>4 DEF Logs, Done
    <3>2. \A m \in Done(i, s) : history'[i][m] = history[i][m]
      BY <1>2 DEF Logs, Done
    <3>3. inst'[i].context[s] = inst[i].context[s]
      BY <1>1, <2>1, <2>4 DEF Context
    <3>4. QED
      BY <3>1, <3>2, <3>3 DEF OutputOf
  <2>5. QED
    BY <2>3, <2>4
<1>6. QED
  BY <1>4, <1>5

\* Every step of the kernel keeps the context in line with the history.
LEMMA NextContext ==
    Linked /\ Trail /\ ContextMatchesHistory /\ [Next]_vars => ContextMatchesHistory'
<1> SUFFICES ASSUME Linked, Trail, ContextMatchesHistory, [Next]_vars,
                    NEW i \in Instance, Exists(inst'[i]), NEW s \in StepId
             PROVE  OutputOf(i, s)'
  BY DEF ContextMatchesHistory, OutputOf, Done
<1>1. Exists(inst[i]) => OutputOf(i, s)
  BY ContextByStep
<1>2. CASE PlainStep(i)
  BY <1>1, <1>2, DoneKept DEF PlainStep, PlainType
<1>3. ASSUME NEW key \in Key, StartInstance(i, key)
      PROVE  OutputOf(i, s)'
  <2>1. inst'[i].context = [x \in StepId |-> NoRef] /\ history' = history
    BY <1>3 DEF StartInstance, Linked, TypeOK
  <2>2. Progress(i) = {}
    BY <1>3 DEF Trail, Explained, StartInstance
  <2>3. Done(i, s)' = {}
    BY <2>1, <2>2 DEF Progress, Done
  <2>4. QED
    BY <2>1, <2>3 DEF OutputOf
<1>4. ASSUME Exists(inst[i]), NEW e, MovesBy(i, e)
      PROVE  OutputOf(i, s)'
  BY <1>1, <1>4, MoveMerges
<1>5. ASSUME Exists(inst[i]), NEW t, RetriesBy(i, t)
      PROVE  OutputOf(i, s)'
  <2> DEFINE e == Ev("TASK_RETRY_SCHEDULED", inst[i].step, t)
  <2>1. /\ AppendEvents(i, <<e>>) /\ inst' = inst /\ t \in Nat /\ inst[i].step \in StepId
        /\ TypeOK
    BY <1>5, IdAssumption, RowsExist DEF RetriesBy, Linked, Exists, InstanceRow
  <2>2. e \in Event /\ e.type = "TASK_RETRY_SCHEDULED"
    BY <2>1, EventTyped DEF EventType, Ev
  <2> HIDE DEF e
  <2>3. LogsOnly(i, {e.type})
    BY <2>1, <2>2, EventLogged, LoggedOnly
  <2>4. QED
    BY <1>1, <1>5, <2>1, <2>2, <2>3, DoneKept
<1>6. QED
  BY <1>2, <1>3, <1>4, <1>5, StepSeen

\* ContextMatchesHistory: whatever interleaves, the context of an instance is what
\* replaying the completions of its history would build.
THEOREM ContextIsReplay == Spec => []ContextMatchesHistory
<1> DEFINE I == Linked /\ Trail /\ ContextMatchesHistory
<1>1. Init => I
  BY InitLinked, InitTrail DEF Init, ContextMatchesHistory, Exists
<1>2. I /\ [Next]_vars => I'
  BY NextLinked, NextTrail, NextContext
<1>3. I => ContextMatchesHistory
  OBVIOUS
<1>4. QED
  BY <1>1, <1>2, <1>3, PTL DEF Spec

-----------------------------------------------------------------------------
(* The outbox.                                                             *)

ToldType == {"WORKFLOW_STARTED", "WORKFLOW_SUCCEEDED", "WORKFLOW_FAILED"}

\* OutboxMirrorsHistory at one instance: at maps each record to its event.
Mirrors(i) ==
    \E at \in [Sent(i) -> Told(i)] :
        /\ \A k, l \in Sent(i) : k < l => at[k] < at[l]
        /\ \A n \in Told(i) : \E k \in Sent(i) : at[k] = n
        /\ \A k \in Sent(i) : outbox[k].type = history[i][at[k]].type

\* Record k of the outbox is new.
Puts(k, i, type) ==
    /\ k \in Nat /\ k \notin DOMAIN outbox
    /\ DOMAIN outbox' = DOMAIN outbox \cup {k}
    /\ \A l \in DOMAIN outbox : /\ l \in Nat /\ l < k
                                /\ outbox'[l] = outbox[l]
    /\ outbox'[k].inst = i /\ outbox'[k].type = type

\* EnqueueOutbox puts its record behind all others.
LEMMA RecordPut ==
    ASSUME TypeOK, NEW i \in Instance, NEW type \in EventType, EnqueueOutbox(i, type)
    PROVE  \E k \in Nat : Puts(k, i, type)
<1> DEFINE r == [inst |-> i, type |-> type]
           k == Len(outbox) + 1
<1>1. /\ outbox \in Seq([inst : Instance, type : EventType]) /\ outbox' = Append(outbox, r)
      /\ r \in [inst : Instance, type : EventType] /\ r.inst = i /\ r.type = type
  BY DEF TypeOK, EnqueueOutbox
<1> HIDE DEF r
<1>2. /\ k \in Nat /\ k \notin DOMAIN outbox
      /\ DOMAIN outbox' = DOMAIN outbox \cup {k}
      /\ \A l \in DOMAIN outbox : l \in Nat /\ l < k /\ outbox'[l] = outbox[l]
      /\ outbox'[k] = r
  BY SMTT(30), <1>1
<1>3. Puts(k, i, type)
  BY <1>1, <1>2 DEF Puts
<1>4. QED
  BY <1>2, <1>3

\* Without a new record or a new told event the mirror stands.
LEMMA MirrorKept ==
    ASSUME NEW i \in Instance, Mirrors(i), Sent(i)' = Sent(i), Told(i)' = Told(i),
           \A k \in Sent(i) : outbox'[k] = outbox[k],
           \A n \in Told(i) : history'[i][n] = history[i][n]
    PROVE  Mirrors(i)'
<1>1. PICK at \in [Sent(i) -> Told(i)] :
          /\ \A k, l \in Sent(i) : k < l => at[k] < at[l]
          /\ \A n \in Told(i) : \E k \in Sent(i) : at[k] = n
          /\ \A k \in Sent(i) : outbox[k].type = history[i][at[k]].type
  BY DEF Mirrors
<1>2. at \in [Sent(i)' -> Told(i)']
  OBVIOUS
<1>3. \A k \in Sent(i) : outbox'[k].type = history'[i][at[k]].type
  BY <1>1
<1>4. /\ \A k, l \in Sent(i)' : k < l => at[k] < at[l]
      /\ \A n \in Told(i)' : \E k \in Sent(i)' : at[k] = n
      /\ \A k \in Sent(i)' : outbox'[k].type = history'[i][at[k]].type
  BY <1>1, <1>3
<1>5. QED
  BY <1>2, <1>4 DEF Mirrors

\* A record and its event join the mirror together.
LEMMA MirrorGrows ==
    ASSUME NEW i \in Instance, Mirrors(i), NEW k \in Nat, NEW n \in Nat,
           Sent(i)' = Sent(i) \cup {k}, Told(i)' = Told(i) \cup {n},
           \A l \in Sent(i) : l \in Nat /\ l < k /\ outbox'[l] = outbox[l],
           \A m \in Told(i) : m \in Nat /\ m < n /\ history'[i][m] = history[i][m],
           outbox'[k].type = history'[i][n].type
    PROVE  Mirrors(i)'
<1>1. PICK at \in [Sent(i) -> Told(i)] :
          /\ \A x, l \in Sent(i) : x < l => at[x] < at[l]
          /\ \A m \in Told(i) : \E l \in Sent(i) : at[l] = m
          /\ \A l \in Sent(i) : outbox[l].type = history[i][at[l]].type
  BY DEF Mirrors
<1> DEFINE new == [l \in Sent(i)' |-> IF l = k THEN n ELSE at[l]]
<1>2. k \notin Sent(i)
  BY SMTT(30)
<1>3. new \in [Sent(i)' -> Told(i)']
  OBVIOUS
<1>4. \A l \in Sent(i) : new[l] = at[l] /\ at[l] \in Told(i)
  BY <1>2
<1>5. new[k] = n
  OBVIOUS
<1> HIDE DEF new
<1>6. ASSUME NEW x \in Sent(i)', NEW l \in Sent(i)', x < l
      PROVE  new[x] < new[l]
  <2>1. CASE x \in Sent(i) /\ l \in Sent(i)
    BY <1>1, <1>4, <1>6, <2>1
  <2>2. CASE x \in Sent(i) /\ l = k
    BY <1>4, <1>5, <2>2
  <2>3. x # k
    <3>1. l \in Nat /\ l <= k
      BY SMTT(30)
    <3>2. QED
      BY SMTT(30), <1>6, <3>1
  <2>4. QED
    BY <2>1, <2>2, <2>3
<1>7. ASSUME NEW m \in Told(i)'
      PROVE  \E l \in Sent(i)' : new[l] = m
  <2>1. CASE m = n
    BY <1>5, <2>1
  <2>2. CASE m \in Told(i)
    <3>1. PICK l \in Sent(i) : at[l] = m
      BY <1>1, <2>2
    <3>2. QED
      BY <1>4, <3>1
  <2>3. QED
    BY <2>1, <2>2
<1>8. ASSUME NEW l \in Sent(i)'
      PROVE  outbox'[l].type = history'[i][new[l]].type
  <2>1. CASE l = k
    BY <1>5, <2>1
  <2>2. CASE l \in Sent(i)
    <3>1. /\ outbox'[l] = outbox[l] /\ new[l] = at[l] /\ at[l] \in Told(i)
          /\ outbox[l].type = history[i][at[l]].type
      BY <1>1, <1>4, <2>2
    <3>2. history'[i][at[l]] = history[i][at[l]]
      BY <3>1
    <3>3. QED
      BY <3>1, <3>2
  <2>3. QED
    BY <2>1, <2>2
<1>9. QED
  BY <1>3, <1>6, <1>7, <1>8 DEF Mirrors

\* Other events, and records of other instances, leave the mirror alone.
LEMMA NothingTold ==
    ASSUME NEW i \in Instance, Mirrors(i), NEW types, LogsOnly(i, types),
           types \cap ToldType = {},
           UNCHANGED outbox \/ \E j \in Instance : \E k, type : j # i /\ Puts(k, j, type)
    PROVE  Mirrors(i)'
<1>1. Told(i)' = Told(i) /\ \A n \in Told(i) : history'[i][n] = history[i][n]
  BY DEF LogsOnly, Told, ToldType
<1>2. Sent(i)' = Sent(i) /\ \A k \in Sent(i) : outbox'[k] = outbox[k]
  BY DEF Sent, Puts
<1>3. QED
  BY <1>1, <1>2, MirrorKept

\* An event that is told, with its record.
LEMMA OneTold ==
    ASSUME Linked, NEW i \in Instance, Mirrors(i), NEW e \in Event, e.type \in ToldType,
           AppendEvents(i, <<e>>), EnqueueOutbox(i, e.type)
    PROVE  Mirrors(i)'
<1>1. PICK n \in Nat : Logs(i, n, e)
  BY EventLogged DEF Linked
<1>2. e.type \in EventType
  BY DEF Event
<1>3. PICK k \in Nat : Puts(k, i, e.type)
  BY <1>2, RecordPut DEF Linked
<1>4. /\ Told(i)' = Told(i) \cup {n}
      /\ \A m \in Told(i) : m \in Nat /\ m < n /\ history'[i][m] = history[i][m]
      /\ history'[i][n].type = e.type
  BY <1>1 DEF Logs, Told, ToldType
<1>5. /\ Sent(i)' = Sent(i) \cup {k}
      /\ \A l \in Sent(i) : l \in Nat /\ l < k /\ outbox'[l] = outbox[l]
      /\ outbox'[k].type = e.type
  BY <1>3 DEF Puts, Sent
<1>6. QED
  BY <1>4, <1>5, MirrorGrows

\* A terminal failure logs TASK_FAILED, which is not told, and WORKFLOW_FAILED.
LEMMA FailureTold ==
    ASSUME Linked, NEW i \in Instance, Exists(inst[i]), Mirrors(i), NEW t, FailsBy(i, t)
    PROVE  Mirrors(i)'
<1> DEFINE e == Ev("TASK_FAILED", inst[i].step, t)
           f == Ev("WORKFLOW_FAILED", inst[i].step, NoRef)
<1>1. /\ AppendEvents(i, <<e, f>>) /\ t \in Nat /\ EnqueueOutbox(i, "WORKFLOW_FAILED")
      /\ inst[i].step \in StepId /\ TypeOK
  BY IdAssumption, RowsExist DEF FailsBy, Linked, Exists, InstanceRow
<1>2. e \in Event /\ f \in Event /\ e.type = "TASK_FAILED" /\ f.type = "WORKFLOW_FAILED"
  BY <1>1, EventTyped DEF NoRef, EventType, Ev
<1> HIDE DEF e, f
<1>3. PICK n \in Nat : LogsTwo(i, n, e, f)
  BY <1>1, <1>2, EventsLogged
<1>4. PICK k \in Nat : Puts(k, i, "WORKFLOW_FAILED")
  BY <1>1, RecordPut DEF EventType
<1>5. /\ Told(i)' = Told(i) \cup {n}
      /\ history'[i][n].type = "WORKFLOW_FAILED"
  BY <1>2, <1>3 DEF LogsTwo, Told
<1>6. \A m \in Told(i) : m \in Nat /\ m < n - 1 /\ history'[i][m] = history[i][m]
  BY <1>3 DEF LogsTwo, Told
<1>7. \A m \in Told(i) : m \in Nat /\ m < n
  BY SMTT(30), <1>6
<1>8. /\ Sent(i)' = Sent(i) \cup {k}
      /\ \A l \in Sent(i) : l \in Nat /\ l < k /\ outbox'[l] = outbox[l]
      /\ outbox'[k].type = "WORKFLOW_FAILED"
  BY <1>4 DEF Puts, Sent
<1>9. QED
  BY <1>5, <1>6, <1>7, <1>8, MirrorGrows

\* Every step of the kernel writes the records its events need.
LEMMA NextMirrors == Linked /\ OutboxMirrorsHistory /\ [Next]_vars => OutboxMirrorsHistory'
<1> SUFFICES ASSUME Linked, OutboxMirrorsHistory, [Next]_vars, NEW i \in Instance
             PROVE  Mirrors(i)'
  BY DEF OutboxMirrorsHistory, Mirrors
<1>1. Mirrors(i) /\ TypeOK
  BY DEF OutboxMirrorsHistory, Mirrors, Linked
<1>2. ASSUME history'[i] = history[i],
             UNCHANGED outbox \/ \E j \in Instance : \E k, type : j # i /\ Puts(k, j, type)
      PROVE  Mirrors(i)'
  <2> DEFINE e == Ev("TASK_FAILED", Def.initial, NoRef)
  <2>1. e.type = "TASK_FAILED"
    BY DEF Ev
  <2> HIDE DEF e
  <2>2. LogsOnly(i, {"TASK_FAILED"})
    BY <1>2, <2>1, LoggedOnly
  <2>3. {"TASK_FAILED"} \cap ToldType = {}
    BY DEF ToldType
  <2>4. QED
    BY <1>1, <1>2, <2>2, <2>3, NothingTold
<1>3. ASSUME NEW j \in Instance, j # i, NEW type \in EventType, EnqueueOutbox(j, type)
      PROVE  \E k, t : j # i /\ Puts(k, j, t)
  BY <1>1, <1>3, RecordPut
<1>4. CASE Quiet
  BY <1>2, <1>4 DEF Quiet
<1>5. ASSUME NEW j \in Instance, NEW key \in Key, StartInstance(j, key)
      PROVE  Mirrors(i)'
  BY <1>2, <1>5 DEF StartInstance
<1>6. ASSUME NEW j \in Instance, NEW name \in Name, NEW s \in SignalId, AppendSignal(j, name, s)
      PROVE  Mirrors(i)'
  BY <1>2, <1>6 DEF AppendSignal
<1>7. ASSUME NEW j \in Instance, RecordStart(j)
      PROVE  Mirrors(i)'
  <2> DEFINE e == Ev("WORKFLOW_STARTED", Def.initial, NoRef)
  <2>1. AppendEvents(j, <<e>>) /\ EnqueueOutbox(j, "WORKFLOW_STARTED")
    BY <1>7 DEF RecordStart
  <2>2. e \in Event /\ e.type = "WORKFLOW_STARTED" /\ e.type \in ToldType
        /\ "WORKFLOW_STARTED" \in EventType
    BY EventTyped, SuccessorsExist DEF NoRef, EventType, ToldType, Ev
  <2> HIDE DEF e
  <2>3. CASE j = i
    BY <1>1, <2>1, <2>2, <2>3, OneTold
  <2>4. CASE j # i
    BY <1>1, <1>2, <1>3, <2>1, <2>2, <2>4 DEF AppendEvents, TypeOK
  <2>5. QED
    BY <2>3, <2>4
<1>8. ASSUME NEW j \in Instance, Exists(inst[j]), Shape(j), j # i
      PROVE  Mirrors(i)'
  <2>1. history'[i] = history[i]
    BY <1>8, ShapeFrame
  <2>2. \/ UNCHANGED outbox
        \/ EnqueueOutbox(j, "WORKFLOW_SUCCEEDED")
        \/ EnqueueOutbox(j, "WORKFLOW_FAILED")
    BY <1>8 DEF Shape, EntersBy, EntersSilently, MovesBy, EnterEnd, RetriesBy, FailsBy
  <2>3. QED
    BY <1>2, <1>3, <1>8, <2>1, <2>2 DEF EventType
<1>9. ASSUME Exists(inst[i]), Shape(i)
      PROVE  Mirrors(i)'
  <2>1. inst[i].step \in StepId
    BY <1>1, <1>9, RowsExist DEF Exists, InstanceRow
  <2>2. ASSUME NEW e \in Event, AppendEvents(i, <<e>>), e.type \notin ToldType, UNCHANGED outbox
        PROVE  Mirrors(i)'
    <3>1. LogsOnly(i, {e.type}) /\ {e.type} \cap ToldType = {}
      BY <1>1, <2>2, EventLogged, LoggedOnly
    <3>2. QED
      BY <1>1, <2>2, <3>1, NothingTold
  <2>3. ASSUME NEW e, EntersBy(i, e)
        PROVE  Mirrors(i)'
    <3>1. e \in Event /\ e.type \notin ToldType
      BY <2>1, <2>3, EventTyped DEF EntersBy, NoRef, EventType, ToldType, Ev
    <3>2. QED
      BY <2>2, <2>3, <3>1 DEF EntersBy
  <2>4. CASE EntersSilently(i)
    BY <1>2, <2>4 DEF EntersSilently
  <2>5. ASSUME NEW e, MovesBy(i, e)
        PROVE  Mirrors(i)'
    BY <2>2, <2>5 DEF MovesBy, ToldType
  <2>6. CASE EnterEnd(i)
    <3> DEFINE e == Ev("WORKFLOW_SUCCEEDED", inst[i].step, NoRef)
    <3>1. AppendEvents(i, <<e>>) /\ EnqueueOutbox(i, "WORKFLOW_SUCCEEDED")
      BY <2>6 DEF EnterEnd
    <3>2. e \in Event /\ e.type = "WORKFLOW_SUCCEEDED" /\ e.type \in ToldType
      BY <2>1, EventTyped DEF NoRef, EventType, ToldType, Ev
    <3> HIDE DEF e
    <3>3. QED
      BY <1>1, <3>1, <3>2, OneTold
  <2>7. ASSUME NEW t, RetriesBy(i, t)
        PROVE  Mirrors(i)'
    <3> DEFINE e == Ev("TASK_RETRY_SCHEDULED", inst[i].step, t)
    <3>1. AppendEvents(i, <<e>>) /\ UNCHANGED outbox /\ t \in Nat
      BY <2>7, IdAssumption DEF RetriesBy
    <3>2. e \in Event /\ e.type \notin ToldType
      BY <2>1, <3>1, EventTyped DEF EventType, ToldType, Ev
    <3> HIDE DEF e
    <3>3. QED
      BY <2>2, <3>1, <3>2
  <2>8. QED
    BY <1>1, <1>9, <2>3, <2>4, <2>5, <2>6, <2>7, FailureTold DEF Shape
<1>10. QED
  BY <1>4, <1>5, <1>6, <1>7, <1>8, <1>9, NextShapes

\* Nothing is sent and nothing is told.
LEMMA InitMirrors == Init => OutboxMirrorsHistory
<1> SUFFICES ASSUME Init, NEW i \in Instance
             PROVE  Mirrors(i)
  BY DEF OutboxMirrorsHistory, Mirrors
<1>1. history[i] = <<>> /\ outbox = <<>>
  BY DEF Init
<1>2. Sent(i) = {} /\ Told(i) = {}
  BY SMTT(30), <1>1 DEF Sent, Told
<1>3. [k \in {} |-> 0] \in [Sent(i) -> Told(i)]
  BY <1>2
<1>4. QED
  BY <1>2, <1>3 DEF Mirrors

\* OutboxMirrorsHistory: the outbox holds, per instance, exactly the start, success
\* and failure events of its history, in the order of the history.
THEOREM OutboxIsTransactional == Spec => []OutboxMirrorsHistory
<1> DEFINE I == Linked /\ OutboxMirrorsHistory
<1>1. Init => I
  BY InitLinked, InitMirrors
<1>2. I /\ [Next]_vars => I'
  BY NextLinked, NextMirrors
<1>3. I => OutboxMirrorsHistory
  OBVIOUS
<1>4. QED
  BY <1>1, <1>2, <1>3, PTL DEF Spec

-----------------------------------------------------------------------------
(* The inbox.                                                              *)

Consumed(i, s) == signal[s].status = "CONSUMED" /\ signal[s].inst = i

\* A history names a signal once, when it belongs to its instance and is consumed,
\* and otherwise not at all.
NamedOnce(i, s) ==
    IF Consumed(i, s) THEN \E n : EventsOf(i, "SIGNAL_RECEIVED", s) = {n}
                      ELSE EventsOf(i, "SIGNAL_RECEIVED", s) = {}

Inbox ==
    SignalsInCallOrder /\ \A i \in Instance, s \in SignalId : NamedOnce(i, s)

\* The inbox is SignalsAccounted without counting.
LEMMA InboxCounts == Linked /\ Inbox => SignalsAccounted
<1> SUFFICES ASSUME Linked, Inbox, NEW s \in SignalId, Exists(signal[s])
             PROVE  Cardinality(EventsOf(signal[s].inst, "SIGNAL_RECEIVED", s))
                       = IF signal[s].status = "CONSUMED" THEN 1 ELSE 0
  BY DEF SignalsAccounted
<1>1. signal[s].inst \in Instance
  BY RowsExist DEF Linked, Exists, SignalRow
<1> DEFINE E == EventsOf(signal[s].inst, "SIGNAL_RECEIVED", s)
<1>2. signal[s].status = "CONSUMED" => \E n : E = {n}
  BY <1>1 DEF Inbox, NamedOnce, Consumed
<1>3. signal[s].status # "CONSUMED" => E = {}
  BY <1>1 DEF Inbox, NamedOnce, Consumed
<1> HIDE DEF E
<1>4. Cardinality(E) = IF signal[s].status = "CONSUMED" THEN 1 ELSE 0
  BY <1>2, <1>3, FS_Singleton, FS_EmptySet
<1>5. QED
  BY <1>4 DEF E

\* A signal that is not consumed, named as before.
LEMMA NamedKept ==
    ASSUME NEW i \in Instance, NEW s \in SignalId, NamedOnce(i, s),
           Consumed(i, s)' <=> Consumed(i, s),
           EventsOf(i, "SIGNAL_RECEIVED", s)' = EventsOf(i, "SIGNAL_RECEIVED", s)
    PROVE  NamedOnce(i, s)'
  BY DEF NamedOnce

\* What a step may do to the inbox.
LEMMA InboxSteps ==
    ASSUME Linked, [Next]_vars
    PROVE  \/ \E i \in Instance : \E name \in Name, s \in SignalId : AppendSignal(i, name, s)
           \/ \E i \in Instance : /\ Exists(inst[i])
                                  /\ \E e : MovesBy(i, e) /\ e.type = "SIGNAL_RECEIVED"
           \/ /\ UNCHANGED signal
              /\ \A i \in Instance, s \in SignalId :
                    EventsOf(i, "SIGNAL_RECEIVED", s)' = EventsOf(i, "SIGNAL_RECEIVED", s)
<1>1. SUFFICES ASSUME \A i \in Instance : Exists(inst[i]) =>
                         \A e : MovesBy(i, e) => e.type # "SIGNAL_RECEIVED",
                      ~\E i \in Instance :
                          \E name \in Name, s \in SignalId : AppendSignal(i, name, s)
               PROVE  /\ UNCHANGED signal
                      /\ \A i \in Instance, s \in SignalId :
                            EventsOf(i, "SIGNAL_RECEIVED", s)' = EventsOf(i, "SIGNAL_RECEIVED", s)
  OBVIOUS
<1>2. UNCHANGED signal
  <2>1. ASSUME NEW i \in Instance, Exists(inst[i]), Shape(i)
        PROVE  UNCHANGED signal
    BY <1>1, <2>1 DEF Shape, EntersBy, EntersSilently, MovesBy, EnterEnd, RetriesBy, FailsBy
  <2>2. QED
    BY <1>1, <2>1, NextShapes DEF Quiet, StartInstance, RecordStart
<1>3. ASSUME NEW i \in Instance
      PROVE  \E types : LogsOnly(i, types) /\ "SIGNAL_RECEIVED" \notin types
  <2>1. ASSUME Exists(inst[i]), NEW e \in Event, AppendEvents(i, <<e>>), e.type # "SIGNAL_RECEIVED"
        PROVE  LogsOnly(i, {e.type}) /\ "SIGNAL_RECEIVED" \notin {e.type}
    BY <2>1, EventLogged, LoggedOnly DEF Linked
  <2>2. CASE PlainStep(i)
    <3>1. "SIGNAL_RECEIVED" \notin PlainType
      BY DEF PlainType
    <3>2. QED
      BY <2>2, <3>1 DEF PlainStep
  <2>3. ASSUME NEW key \in Key, StartInstance(i, key)
        PROVE  LogsOnly(i, PlainType) /\ "SIGNAL_RECEIVED" \notin PlainType
    <3> DEFINE e == Ev("TASK_FAILED", Def.initial, NoRef)
    <3>1. e.type \in PlainType /\ "SIGNAL_RECEIVED" \notin PlainType
      BY DEF Ev, PlainType
    <3> HIDE DEF e
    <3>2. QED
      BY <2>3, <3>1, LoggedOnly DEF StartInstance
  <2>4. ASSUME Exists(inst[i]), NEW e, MovesBy(i, e)
        PROVE  LogsOnly(i, {e.type}) /\ "SIGNAL_RECEIVED" \notin {e.type}
    BY <1>1, <2>1, <2>4 DEF MovesBy
  <2>5. ASSUME Exists(inst[i]), NEW t, RetriesBy(i, t)
        PROVE  \E types : LogsOnly(i, types) /\ "SIGNAL_RECEIVED" \notin types
    <3> DEFINE e == Ev("TASK_RETRY_SCHEDULED", inst[i].step, t)
    <3>1. AppendEvents(i, <<e>>) /\ t \in Nat /\ inst[i].step \in StepId
      BY <2>5, IdAssumption, RowsExist DEF RetriesBy, Linked, Exists, InstanceRow
    <3>2. e \in Event /\ e.type # "SIGNAL_RECEIVED"
      BY <3>1, EventTyped DEF EventType, Ev
    <3> HIDE DEF e
    <3>3. QED
      BY <2>1, <2>5, <3>1, <3>2
  <2>6. QED
    BY <2>2, <2>3, <2>4, <2>5, StepSeen
<1>4. QED
  BY <1>2, <1>3, EventsKept

\* ApplySignal consumes the oldest pending signal and logs it.
LEMMA ConsumeInbox ==
    ASSUME Linked, Inbox, NEW i \in Instance, Exists(inst[i]), NEW e, MovesBy(i, e),
           e.type = "SIGNAL_RECEIVED"
    PROVE  Inbox'
<1> DEFINE o == e.ref
<1>1. /\ e \in Event /\ AppendEvents(i, <<e>>) /\ ConsumeSignal(o)
      /\ \E name \in Name \cup {NoName} : o \in Oldest(i, name)
  BY DEF MovesBy
<1>2. PICK name \in Name \cup {NoName} : o \in Oldest(i, name)
  BY <1>1
<1>3. /\ o \in SignalId /\ signal[o].status = "PENDING" /\ signal[o].inst = i
      /\ signal[o].name = name /\ \A r \in Pending(i, name) : o <= r
  BY <1>2 DEF Oldest, Pending
<1>4. /\ signal'[o].status = "CONSUMED" /\ signal'[o].inst = i /\ signal'[o].name = name
      /\ \A s \in SignalId : s # o => signal'[s] = signal[s]
  <2>1. Exists(signal[o])
    BY SMTT(30), <1>3 DEF Exists, NoRow
  <2>2. signal[o] \in SignalRow
    BY <1>3, <2>1, RowsExist DEF Linked, Exists
  <2>3. QED
    BY <1>1, <1>3, <2>2 DEF ConsumeSignal, Linked, TypeOK, SignalRow
<1>5. PICK n \in Nat : Logs(i, n, e)
  BY <1>1, EventLogged DEF Linked
<1>6. EventsOf(i, "SIGNAL_RECEIVED", o)' = EventsOf(i, "SIGNAL_RECEIVED", o) \cup {n}
  BY <1>5 DEF Logs, EventsOf
<1>7. \A s : s # o => EventsOf(i, "SIGNAL_RECEIVED", s)' = EventsOf(i, "SIGNAL_RECEIVED", s)
  BY <1>5 DEF Logs, EventsOf
<1>8. \A j \in Instance : j # i =>
          \A s : EventsOf(j, "SIGNAL_RECEIVED", s)' = EventsOf(j, "SIGNAL_RECEIVED", s)
  BY <1>5 DEF Logs, EventsOf
<1>9. NamedOnce(i, o)'
  BY <1>3, <1>4, <1>6 DEF Inbox, NamedOnce, Consumed
<1>10. ASSUME NEW j \in Instance, j # i
       PROVE  NamedOnce(j, o)'
  BY <1>3, <1>4, <1>8, <1>10, NamedKept DEF Inbox, Consumed
<1>11. ASSUME NEW j \in Instance, NEW s \in SignalId, s # o
       PROVE  NamedOnce(j, s)'
  BY <1>4, <1>7, <1>8, <1>11, NamedKept DEF Inbox, Consumed
<1>12. SignalsInCallOrder'
  <2> SUFFICES ASSUME NEW r \in SignalId, NEW s \in SignalId,
                      Exists(signal'[r]), r < s, s \notin signal'[r].seen,
                      signal'[s].status = "CONSUMED",
                      signal'[s].inst = signal'[r].inst, signal'[s].name = signal'[r].name,
                      r # o
               PROVE  signal'[r].status = "CONSUMED"
    BY <1>4 DEF SignalsInCallOrder
  <2>1. signal'[r] = signal[r] /\ Exists(signal[r])
    BY <1>4
  <2>2. CASE s = o
    <3>1. r \in Nat /\ o \in Nat
      BY <1>3, IdAssumption
    <3>2. r \notin Pending(i, name)
      BY SMTT(30), <1>3, <2>2, <3>1
    <3>3. signal[r].status # "PENDING"
      BY <1>4, <2>1, <2>2, <3>2 DEF Pending
    <3>4. QED
      BY <2>1, <3>3, RowsExist DEF Linked, Exists, SignalRow
  <2>3. CASE s # o
    BY <1>4, <2>1, <2>3 DEF Inbox, SignalsInCallOrder
  <2>4. QED
    BY <2>2, <2>3
<1>13. QED
  BY <1>9, <1>10, <1>11, <1>12 DEF Inbox

\* AppendSignal adds a signal that no history names and no signal of a call that
\* began later has overtaken.
LEMMA AppendInbox ==
    ASSUME Linked, Inbox, NEW i \in Instance, NEW name \in Name, NEW s \in SignalId,
           AppendSignal(i, name, s)
    PROVE  Inbox'
<1>1. /\ signal'[s].status = "PENDING" /\ history' = history
      /\ signal'[s].seen = {r \in SignalId : s < r /\ Taken(r)}
      /\ \A r \in SignalId : r # s => signal'[r] = signal[r]
      /\ ~Exists(signal[s])
  BY DEF AppendSignal, Linked, TypeOK
<1>2. signal[s].status = "ABSENT"
  BY <1>1, RowsExist DEF Linked, Exists
<1>3. ASSUME NEW j \in Instance, NEW r \in SignalId
      PROVE  NamedOnce(j, r)'
  <2>1. EventsOf(j, "SIGNAL_RECEIVED", r)' = EventsOf(j, "SIGNAL_RECEIVED", r)
    BY <1>1 DEF EventsOf
  <2>2. Consumed(j, r)' <=> Consumed(j, r)
    BY <1>1, <1>2 DEF Consumed
  <2>3. QED
    BY <2>1, <2>2, NamedKept DEF Inbox
<1>4. SignalsInCallOrder'
  <2> SUFFICES ASSUME NEW r \in SignalId, NEW q \in SignalId,
                      Exists(signal'[r]), r < q, q \notin signal'[r].seen,
                      signal'[q].status = "CONSUMED",
                      signal'[q].inst = signal'[r].inst, signal'[q].name = signal'[r].name
               PROVE  signal'[r].status = "CONSUMED"
    BY DEF SignalsInCallOrder
  <2>1. q # s /\ signal'[q] = signal[q]
    BY <1>1
  <2>2. Exists(signal[q])
    BY SMTT(30), <2>1 DEF Exists, NoRow
  <2>3. r # s
    BY <1>1, <2>2 DEF Taken
  <2>4. signal'[r] = signal[r] /\ Exists(signal[r])
    BY <1>1, <2>3
  <2>5. QED
    BY <2>1, <2>4 DEF Inbox, SignalsInCallOrder
<1>5. QED
  BY <1>3, <1>4 DEF Inbox

\* Every step of the kernel keeps the inbox accounted for.
LEMMA NextInbox == Linked /\ Inbox /\ [Next]_vars => Inbox'
<1> SUFFICES ASSUME Linked, Inbox, [Next]_vars
             PROVE  Inbox'
  OBVIOUS
<1>1. ASSUME UNCHANGED signal,
             \A i \in Instance, s \in SignalId :
                EventsOf(i, "SIGNAL_RECEIVED", s)' = EventsOf(i, "SIGNAL_RECEIVED", s)
      PROVE  Inbox'
  <2>1. SignalsInCallOrder'
    BY <1>1 DEF Inbox, SignalsInCallOrder
  <2>2. \A i \in Instance, s \in SignalId : NamedOnce(i, s)'
    BY <1>1, NamedKept DEF Inbox, Consumed
  <2>3. QED
    BY <2>1, <2>2 DEF Inbox
<1>2. QED
  BY <1>1, ConsumeInbox, AppendInbox, InboxSteps

\* The inbox is accounted for in every state.
LEMMA InboxAlways == Spec => [](Linked /\ Inbox)
<1> DEFINE I == Linked /\ Inbox
<1>1. Init => I
  <2>1. ASSUME Init, NEW i \in Instance, NEW s \in SignalId
        PROVE  NamedOnce(i, s)
    <3>1. signal[s].status = "ABSENT" /\ history[i] = <<>>
      BY <2>1 DEF Init, NoRow
    <3>2. EventsOf(i, "SIGNAL_RECEIVED", s) = {}
      BY SMTT(30), <3>1 DEF EventsOf
    <3>3. QED
      BY <3>1, <3>2 DEF NamedOnce, Consumed
  <2>2. ASSUME Init
        PROVE  SignalsInCallOrder
    BY <2>2 DEF Init, SignalsInCallOrder, Exists
  <2>3. QED
    BY <2>1, <2>2, InitLinked DEF Inbox
<1>2. I /\ [Next]_vars => I'
  BY NextLinked, NextInbox
<1>3. QED
  BY <1>1, <1>2, PTL DEF Spec

\* SignalsAccounted: a consumed signal is in the history of its instance exactly
\* once, and a pending one not at all, however many callers apply signals.
THEOREM SignalsUsedOnce == Spec => []SignalsAccounted
  BY InboxAlways, InboxCounts, PTL

\* SignalsInCallOrder: of two calls of SignalInstance, one of which began, by the
\* clock too, after the other had recorded its signal, the earlier one's signal is
\* consumed first.
THEOREM SignalsUsedInOrder == Spec => []SignalsInCallOrder
<1>1. Linked /\ Inbox => SignalsInCallOrder
  BY DEF Inbox
<1>2. QED
  BY <1>1, InboxAlways, PTL

-----------------------------------------------------------------------------
(* The kernel implements Workflow.  The mapping reads instance rows and    *)
(* signals only, so a step of the kernel either updates one instance row,  *)
(* and is a step of Workflow, or stutters.                                 *)

Simulates == W!Next \/ UNCHANGED <<Where, Arrivals>>

\* The mapping of a signals table that a step leaves alone.
LEMMA ArrivalsKept == UNCHANGED signal => UNCHANGED Arrivals
  BY DEF Arrivals, Arrived

-----------------------------------------------------------------------------
(* The mapping.                                                            *)

\* Where a row that exists maps to.
LEMMA WhereAt ==
    ASSUME NEW i \in Instance, Exists(inst[i])
    PROVE  /\ Where[i].status = inst[i].status
           /\ Where[i].step = inst[i].step
           /\ W!StepAt(i) = StepOf(i)
  BY DEF Where, WhereIs, W!StepAt, StepOf

\* A step that leaves instances and signals alone stutters.
LEMMA Stutters ==
    ASSUME UNCHANGED <<inst, signal>>
    PROVE  Simulates
  BY ArrivalsKept DEF Simulates, Where, WhereIs, Exists

\* UpdateInstance moves one instance of the mapping.
LEMMA WhereUpdated ==
    ASSUME TypeOK, NEW i \in Instance, NEW row \in InstanceRow, UpdateInstance(i, row)
    PROVE  Where' = [Where EXCEPT ![i] = W!At(row.status, row.step)]
<1>1. inst' = [inst EXCEPT ![i] = [row EXCEPT !.rowVersion = row.rowVersion + 1]]
  BY DEF UpdateInstance
<1>2. inst \in [Instance -> InstanceRow \cup {NoRow}]
  BY DEF TypeOK
<1>3. /\ inst'[i].status = row.status
      /\ inst'[i].step = row.step
      /\ Exists(inst'[i])
  <2>1. inst'[i] = [row EXCEPT !.rowVersion = row.rowVersion + 1]
    BY <1>1, <1>2
  <2>2. row.status # "ABSENT"
    BY DEF InstanceRow
  <2>3. inst'[i].status = row.status /\ inst'[i].step = row.step
    BY <2>1 DEF InstanceRow
  <2>4. QED
    BY SMTT(30), <2>2, <2>3 DEF Exists, NoRow
<1>4. \A j \in Instance : j # i => inst'[j] = inst[j]
  BY <1>1, <1>2
<1>5. WhereIs(i)' = W!At(row.status, row.step)
  BY <1>3 DEF WhereIs, W!At, Exists
<1>6. \A j \in Instance : j # i => WhereIs(j)' = WhereIs(j)
  BY <1>4 DEF WhereIs, Exists
<1>7. QED
  BY <1>5, <1>6 DEF Where

\* Park, Move and Finish in the mapping.
LEMMA WhereGoes ==
    ASSUME TypeOK, NEW i \in Instance, Exists(inst[i])
    PROVE  /\ Park(i) => Where' = [Where EXCEPT ![i] = W!At("WAITING", Where[i].step)]
           /\ \A status \in {"SUCCEEDED", "FAILED"} :
                 Finish(i, status) =>
                    Where' = [Where EXCEPT ![i] = W!At(status, Where[i].step)]
           /\ \A to \in StepId, context \in Context :
                 Move(i, to, context) =>
                    Where' = [Where EXCEPT ![i] = W!At("RUNNABLE", to)]
<1>1. inst[i] \in InstanceRow
  BY RowsExist DEF Exists
<1>2. Where[i].step = inst[i].step
  BY WhereAt
<1>3. ASSUME Park(i)
      PROVE  Where' = [Where EXCEPT ![i] = W!At("WAITING", Where[i].step)]
  <2> DEFINE row == [inst[i] EXCEPT !.status = "WAITING"]
  <2>1. row \in InstanceRow /\ row.status = "WAITING" /\ row.step = inst[i].step
    BY <1>1 DEF InstanceRow
  <2>2. UpdateInstance(i, row)
    BY <1>3 DEF Park
  <2> HIDE DEF row
  <2>3. QED
    BY SMTT(30), <1>2, <2>1, <2>2, WhereUpdated
<1>4. ASSUME NEW status \in {"SUCCEEDED", "FAILED"}, Finish(i, status)
      PROVE  Where' = [Where EXCEPT ![i] = W!At(status, Where[i].step)]
  <2> DEFINE row == [inst[i] EXCEPT !.status = status]
  <2>1. row \in InstanceRow /\ row.status = status /\ row.step = inst[i].step
    BY <1>1 DEF InstanceRow
  <2>2. UpdateInstance(i, row)
    BY <1>4 DEF Finish
  <2> HIDE DEF row
  <2>3. QED
    BY <1>2, <2>1, <2>2, WhereUpdated
<1>5. ASSUME NEW to \in StepId, NEW context \in Context, Move(i, to, context)
      PROVE  Where' = [Where EXCEPT ![i] = W!At("RUNNABLE", to)]
  <2> DEFINE row == [inst[i] EXCEPT !.status = "RUNNABLE", !.step = to,
                                    !.context = context]
  <2>1. row \in InstanceRow /\ row.status = "RUNNABLE" /\ row.step = to
    BY <1>1 DEF InstanceRow
  <2>2. UpdateInstance(i, row)
    BY <1>5 DEF Move
  <2> HIDE DEF row
  <2>3. QED
    BY <2>1, <2>2, WhereUpdated
<1>6. QED
  BY <1>3, <1>4, <1>5

-----------------------------------------------------------------------------
(* Each action that touches an instance or a signal is a step of Workflow. *)

\* StartInstance.
LEMMA StartSimulates ==
    ASSUME Linked, NEW i \in Instance, NEW key \in Key, StartInstance(i, key)
    PROVE  Simulates
<1>1. Where[i] = W!Nowhere
  BY DEF StartInstance, Where, WhereIs, NoRow, W!Nowhere
<1>2. Where' = [Where EXCEPT ![i] = W!At("RUNNABLE", Def.initial)]
  <2>1. inst \in [Instance -> InstanceRow \cup {NoRow}]
    BY DEF Linked, TypeOK
  <2>2. inst'[i].status = "RUNNABLE" /\ inst'[i].step = Def.initial
    BY <2>1 DEF StartInstance
  <2>3. WhereIs(i)' = W!At("RUNNABLE", Def.initial)
    BY SMTT(30), <2>2 DEF WhereIs, W!At, Exists, NoRow
  <2>4. \A j \in Instance : j # i => WhereIs(j)' = WhereIs(j)
    BY <2>1 DEF StartInstance, WhereIs, Exists
  <2>5. QED
    BY <2>3, <2>4 DEF Where
<1>3. W!Start(i)
  BY <1>1, <1>2, ArrivalsKept DEF W!Start, StartInstance
<1>4. QED
  BY <1>3 DEF Simulates, W!Next

\* Advance on a step that parks or ends the instance.
LEMMA EnterSimulates ==
    ASSUME Linked, NEW i \in Instance,
           EnterActivity(i) \/ EnterWait(i) \/ EnterSleep(i) \/ EnterEnd(i)
    PROVE  Simulates
<1>1. TypeOK
  BY DEF Linked
<1>2. ASSUME EnterActivity(i) \/ EnterWait(i) \/ EnterSleep(i) PROVE W!Begin(i)
  <2>1. /\ Exists(inst[i]) /\ inst[i].status = "RUNNABLE"
        /\ StepOf(i).type # "end" /\ Park(i) /\ UNCHANGED signal
    BY <1>2 DEF EnterActivity, EnterWait, EnterSleep, Runnable
  <2>2. QED
    BY <1>1, <2>1, WhereAt, WhereGoes, ArrivalsKept DEF W!Begin
<1>3. ASSUME EnterEnd(i) PROVE W!Succeed(i)
  <2>1. /\ Exists(inst[i]) /\ inst[i].status = "RUNNABLE"
        /\ StepOf(i).type = "end" /\ Finish(i, "SUCCEEDED") /\ UNCHANGED signal
    BY <1>3 DEF EnterEnd, Runnable
  <2>2. QED
    BY <1>1, <2>1, WhereAt, WhereGoes, ArrivalsKept DEF W!Succeed
<1>4. QED
  BY <1>2, <1>3 DEF Simulates, W!Next

\* ApplySignal uses up the oldest signal of the name the step waits for.
LEMMA ActSimulates ==
    ASSUME Linked, NEW i \in Instance, Exists(inst[i]),
           inst[i].status \in {"RUNNABLE", "WAITING"},
           StepOf(i).type = "wait_signal",
           NEW s \in Oldest(i, StepOf(i).signal), ApplySignal(i, s)
    PROVE  Simulates
<1>1. TypeOK /\ inst[i] \in InstanceRow
  BY RowsExist DEF Linked, Exists
<1>2. inst[i].step \in StepId /\ inst[i].context \in Context
  BY <1>1 DEF InstanceRow
<1>3. StepOf(i).next \in StepId
  BY <1>2, SuccessorsExist DEF StepOf
<1>4. Where' = [Where EXCEPT ![i] = W!At("RUNNABLE", W!StepAt(i).next)]
  BY <1>1, <1>2, <1>3, WhereAt, WhereGoes DEF ApplySignal
<1>5. W!Waiting(i) = Pending(i, StepOf(i).signal)
  <2>1. ASSUME NEW r \in SignalId
        PROVE  /\ Exists(signal[r]) => /\ Arrivals[r].status = signal[r].status
                                       /\ Arrivals[r].inst = signal[r].inst
                                       /\ Arrivals[r].name = signal[r].name
               /\ ~Exists(signal[r]) => /\ Arrivals[r].status = "ABSENT"
                                        /\ signal[r].status = "ABSENT"
    <3>1. Arrivals[r] = Arrived(r)
      BY DEF Arrivals
    <3>2. CASE Exists(signal[r])
      BY SMTT(30), <3>1, <3>2 DEF Arrived
    <3>3. CASE ~Exists(signal[r])
      BY SMTT(30), <3>1, <3>3 DEF Arrived, Exists, NoRow
    <3>4. QED
      BY <3>2, <3>3
  <2>2. QED
    BY <2>1, WhereAt DEF W!Waiting, Pending
<1>6. /\ s \in W!Waiting(i)
      /\ \A r \in W!Waiting(i) : s <= r
      /\ Arrivals' = [Arrivals EXCEPT ![s].status = "CONSUMED"]
  <2>1. s \in SignalId /\ signal[s].status = "PENDING"
    BY DEF Oldest, Pending
  <2>2. Exists(signal[s])
    BY SMTT(30), <2>1 DEF Exists, NoRow
  <2>3. signal[s] \in SignalRow
    BY <1>1, <2>1, <2>2, RowsExist DEF Exists
  <2>4. /\ signal'[s] = [signal[s] EXCEPT !.status = "CONSUMED"]
        /\ \A r \in SignalId : r # s => signal'[r] = signal[r]
    BY <1>1, <2>1 DEF ApplySignal, ConsumeSignal, TypeOK
  <2>5. Arrived(s)' = [Arrived(s) EXCEPT !.status = "CONSUMED"]
    <3>1. /\ signal'[s].status = "CONSUMED" /\ signal'[s].inst = signal[s].inst
          /\ signal'[s].name = signal[s].name
      BY <2>3, <2>4 DEF SignalRow
    <3>2. Exists(signal'[s])
      BY SMTT(30), <3>1 DEF Exists, NoRow
    <3>3. QED
      BY SMTT(30), <2>2, <3>1, <3>2 DEF Arrived, Exists
  <2>6. \A r \in SignalId : r # s => Arrived(r)' = Arrived(r)
    BY <2>4 DEF Arrived, Exists
  <2>7. Arrivals' = [Arrivals EXCEPT ![s].status = "CONSUMED"]
    BY <2>1, <2>5, <2>6 DEF Arrivals
  <2>8. QED
    BY <1>5, <2>7 DEF Oldest
<1>7. W!Act(i)
  BY <1>4, <1>6, WhereAt DEF W!Act
<1>8. QED
  BY <1>7 DEF Simulates, W!Next

\* The two callers of ApplySignal.
LEMMA SignalSimulates ==
    ASSUME Linked
    PROVE  /\ \A i \in Instance : EnterWaitEarlySignal(i) => Simulates
           /\ \A s \in SignalId : ApplyPendingSignal(s) => Simulates
<1>1. ASSUME NEW i \in Instance, EnterWaitEarlySignal(i) PROVE Simulates
  <2>1. /\ Exists(inst[i]) /\ inst[i].status \in {"RUNNABLE", "WAITING"}
        /\ StepOf(i).type = "wait_signal"
        /\ \E s \in Oldest(i, StepOf(i).signal) : ApplySignal(i, s)
    BY <1>1 DEF EnterWaitEarlySignal, Runnable
  <2>2. QED
    BY <2>1, ActSimulates
<1>2. ASSUME NEW s \in SignalId, ApplyPendingSignal(s) PROVE Simulates
  <2> DEFINE i == signal[s].inst
             name == signal[s].name
  <2>1. CASE /\ inst[i].status = "WAITING" /\ StepOf(i).type = "wait_signal"
             /\ StepOf(i).signal = name
             /\ \E o \in Oldest(i, name) : ApplySignal(i, o)
    <3>1. i \in Instance
      BY <1>2, RowsExist DEF ApplyPendingSignal, Linked, RowsLinked, Exists, SignalRow
    <3>2. Exists(inst[i])
      BY SMTT(30), <2>1 DEF Exists, NoRow
    <3>3. QED
      BY <2>1, <3>1, <3>2, ActSimulates
  <2>2. CASE UNCHANGED <<inst, signal>>
    BY <2>2, Stutters
  <2>3. QED
    BY <1>2, <2>1, <2>2 DEF ApplyPendingSignal
<1>3. QED
  BY <1>1, <1>2

\* OnTaskComplete completes an activity, or the instance had moved on.
LEMMA CompleteSimulates ==
    ASSUME Linked, NEW d \in Delivery, OnTaskComplete(d)
    PROVE  Simulates
<1> DEFINE t == d.task
           i == task[t].inst
           s == task[t].step
<1>1. t \in TaskId /\ Exists(task[t])
  BY DEF OnTaskComplete, Linked, RowsLinked, Delivery
<1>2. /\ TypeOK /\ i \in Instance /\ Exists(inst[i]) /\ inst[i].context \in Context
      /\ s \in StepId /\ Def.steps[s].type = "activity" /\ Def.steps[s].next \in StepId
      /\ t \in Nat
  BY <1>1, TaskRefers
<1>3. CASE Parked(i, s)
  <2>1. /\ Move(i, Def.steps[s].next, [inst[i].context EXCEPT ![s] = t])
        /\ UNCHANGED signal
    BY <1>3 DEF OnTaskComplete
  <2>2. [inst[i].context EXCEPT ![s] = t] \in Context
    BY <1>1, <1>2 DEF Context
  <2>3. inst[i].status = "WAITING" /\ StepOf(i) = Def.steps[s]
    BY <1>3 DEF Parked, StepOf
  <2> HIDE DEF i, s, t
  <2>4. Where' = [Where EXCEPT ![i] = W!At("RUNNABLE", Def.steps[s].next)]
    BY <1>2, <2>1, <2>2, WhereGoes
  <2>5. Where[i].status = "WAITING" /\ W!StepAt(i) = Def.steps[s]
    BY <1>2, <2>3, WhereAt
  <2>6. W!Complete(i)
    BY <1>2, <2>1, <2>4, <2>5, ArrivalsKept DEF W!Complete
  <2>7. QED
    BY <1>2, <2>6 DEF Simulates, W!Next
<1>4. CASE ~Parked(i, s)
  BY <1>4, Stutters DEF OnTaskComplete
<1>5. QED
  BY <1>3, <1>4

\* OnTaskFail fails the instance in an activity, or leaves it where it was.
LEMMA FailSimulates ==
    ASSUME Linked, NEW c \in calls, OnTaskFail(c)
    PROVE  Simulates
<1> DEFINE t == c.task
           i == task[t].inst
           s == task[t].step
<1>1. CASE \E retryable \in BOOLEAN : FailTerminal(c, retryable)
  <2>1. t \in TaskId /\ Exists(task[t])
    BY DEF Linked, TypeOK, RowsLinked, FailCall
  <2>2. /\ TypeOK /\ i \in Instance /\ Exists(inst[i])
        /\ Def.steps[s].type = "activity"
    BY <2>1, TaskRefers
  <2>3. Parked(i, s) /\ Finish(i, "FAILED") /\ UNCHANGED signal
    BY <1>1 DEF FailTerminal
  <2>4. inst[i].status = "WAITING" /\ StepOf(i) = Def.steps[s]
    BY <2>3 DEF Parked, StepOf
  <2> HIDE DEF i, s, t
  <2>5. W!Fail(i)
    BY <2>2, <2>3, <2>4, WhereAt, WhereGoes, ArrivalsKept DEF W!Fail
  <2>6. QED
    BY <2>2, <2>5 DEF Simulates, W!Next
<1>2. CASE \/ FailStale(c)
           \/ \E retryable \in BOOLEAN, ticks \in Backoff : FailRetry(c, retryable, ticks)
  BY <1>2, Stutters DEF FailStale, FailRetry
<1>3. QED
  BY <1>1, <1>2 DEF OnTaskFail

\* OnTimerFired ends a sleep or times a wait out, or the instance had moved on.
LEMMA TimerSimulates ==
    ASSUME Linked, NEW l \in Loop, NEW tm \in TimerId, OnTimerFired(l, tm)
    PROVE  Simulates
<1> DEFINE i == timer[tm].inst
           s == timer[tm].step
<1>1. Exists(timer[tm])
  BY DEF OnTimerFired, Linked, RowsLinked
<1>2. /\ TypeOK /\ i \in Instance /\ Exists(inst[i]) /\ inst[i].context \in Context
      /\ s \in StepId /\ TimerTarget(tm) \in StepId
  BY <1>1, TimerRefers
<1>3. CASE Parked(i, s)
  <2>1. Move(i, TimerTarget(tm), inst[i].context) /\ UNCHANGED signal
    BY <1>3 DEF OnTimerFired
  <2>2. inst[i].status = "WAITING" /\ StepOf(i) = Def.steps[s]
    BY <1>3 DEF Parked, StepOf
  <2>3. \/ Def.steps[s].type = "sleep_until" /\ TimerTarget(tm) = Def.steps[s].next
        \/ /\ Def.steps[s].type = "wait_signal" /\ Def.steps[s].timeoutAfter > 0
           /\ TimerTarget(tm) = Def.steps[s].timeoutNext
    BY <1>1, <1>2, RowsExist DEF Linked, RowsLinked, TimerTarget, Exists, TimerRow
  <2> HIDE DEF i, s
  <2>4. Where' = [Where EXCEPT ![i] = W!At("RUNNABLE", TimerTarget(tm))]
    BY <1>2, <2>1, WhereGoes
  <2>5. Where[i].status = "WAITING" /\ W!StepAt(i) = Def.steps[s]
    BY <1>2, <2>2, WhereAt
  <2>6. W!Complete(i) \/ W!TimeOut(i)
    BY <2>1, <2>3, <2>4, <2>5, ArrivalsKept DEF W!Complete, W!TimeOut
  <2>7. QED
    BY <1>2, <2>6 DEF Simulates, W!Next
<1>4. CASE ~Parked(i, s)
  BY <1>4, Stutters DEF OnTimerFired
<1>5. QED
  BY <1>3, <1>4

\* AppendSignal.
LEMMA SendSimulates ==
    ASSUME NEW i \in Instance, NEW name \in Name, NEW s \in SignalId, Linked,
           AppendSignal(i, name, s)
    PROVE  Simulates
<1>1. Where' = Where
  BY DEF AppendSignal, Where, WhereIs, Exists
<1>2. Where[i] # W!Nowhere
  <2>1. Where[i].status # "ABSENT"
    BY WhereAt, RowsExist DEF AppendSignal, Linked, Exists, InstanceRow
  <2>2. QED
    BY SMTT(30), <2>1 DEF W!Nowhere
<1>3. Arrivals[s] = W!Nowhere
  BY DEF AppendSignal, Arrivals, Arrived, NoRow, W!Nowhere
<1> DEFINE row == [status |-> "PENDING", inst |-> i, name |-> name]
<1>4. Arrivals' = [Arrivals EXCEPT ![s] = row]
  <2>1. /\ signal'[s].status = "PENDING" /\ signal'[s].inst = i /\ signal'[s].name = name
        /\ \A r \in SignalId : r # s => signal'[r] = signal[r]
    BY DEF AppendSignal, Linked, TypeOK
  <2>2. Exists(signal'[s])
    BY SMTT(30), <2>1 DEF Exists, NoRow
  <2>3. Arrived(s)' = row
    BY <2>1, <2>2 DEF Arrived, Exists
  <2>4. \A r \in SignalId : r # s => Arrived(r)' = Arrived(r)
    BY <2>1 DEF Arrived, Exists
  <2>5. QED
    BY <2>3, <2>4 DEF Arrivals
<1>5. W!Send(i, name, s)
  BY <1>1, <1>2, <1>3, <1>4 DEF W!Send
<1>6. QED
  BY <1>5 DEF Simulates, W!Next

\* Every step of the kernel is a step of Workflow or leaves it alone.
LEMMA NextSimulates == Linked /\ [Next]_vars => [W!Next]_(W!vars)
<1> SUFFICES ASSUME Linked, [Next]_vars PROVE Simulates
  BY DEF Simulates, W!vars
<1>1. CASE UNCHANGED vars
  BY <1>1, Stutters DEF vars
<1>2. ASSUME NEW i \in Instance,
             \/ \E key \in Key : StartInstance(i, key)
             \/ Advance(i)
             \/ \E name \in Name, s \in SignalId : AppendSignal(i, name, s)
      PROVE  Simulates
  BY <1>2, StartSimulates, EnterSimulates, SignalSimulates, SendSimulates DEF Advance
<1>3. ASSUME NEW i \in Instance, RecordStart(i) \/ AbortStart(i) PROVE Simulates
  BY <1>3, Stutters DEF RecordStart, AbortStart, stored
<1>4. ASSUME NEW d \in Delivery,
             HeartbeatTask(d) \/ ReadFailingTask(d) \/ ForgetDelivery(d)
      PROVE  Simulates
  BY <1>4, Stutters DEF HeartbeatTask, ReadFailingTask, ForgetDelivery, stored
<1>5. ASSUME NEW c \in calls, OnTaskFail(c) \/ AbortFail(c) PROVE Simulates
  BY <1>5, FailSimulates, Stutters DEF AbortFail, stored
<1>6. ASSUME NEW s \in SignalId, SignalInstance(s) \/ ApplyPendingSignal(s) \/ AbortSignal(s) PROVE Simulates
  BY <1>6, SignalSimulates, Stutters DEF SignalInstance, AbortSignal, stored
<1>7. ASSUME NEW l \in Loop,
             \/ ListDueTimers(l) \/ AbortBatch(l)
             \/ \E tm \in TimerId : OnTimerFired(l, tm)
      PROVE  Simulates
  BY <1>7, TimerSimulates, Stutters DEF ListDueTimers, AbortBatch, stored
<1>8. CASE \/ \E t \in TaskId, token \in Token : LeaseTask(t, token)
           \/ ExpireLeases \/ Tick
  BY <1>8, Stutters DEF LeaseTask, ExpireLeases, Tick
<1>9. QED
  BY <1>1, <1>2, <1>3, <1>4, <1>5, <1>6, <1>7, <1>8, CompleteSimulates DEF Next

\* The kernel with its queue, leases, retries, timers, inbox and crashes
\* implements the walk of a definition that Workflow describes.
THEOREM KernelImplementsWorkflow == Spec => ImplementsWorkflow
<1>1. Init => W!Init
  BY DEF Init, W!Init, Where, WhereIs, Arrivals, Arrived, Exists, NoRow, W!Nowhere
<1>2. Linked /\ [Next]_vars => [W!Next]_(W!vars)
  BY NextSimulates
<1>3. QED
  BY <1>1, <1>2, InitLinked, NextLinked, PTL DEF Spec, ImplementsWorkflow, W!Spec

=============================================================================
