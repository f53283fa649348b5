--------------------------- MODULE RowLocksProofs ---------------------------
(***************************************************************************)
(* Proofs about the transactions of RowLocks, for any number of clients,   *)
(* instances, tasks and tokens: under the row locks the engine takes, what *)
(* its handlers do a statement at a time is what Kernel does in one step.  *)
(***************************************************************************)
EXTENDS RowLocks, KernelProofs

\* A leaf is left to Zenon unless it names the SMT solver.
USE ZenonT(30)

-----------------------------------------------------------------------------
(* The inductive invariant.                                                *)

Reports(c) == InTx(c, "complete") \/ InTx(c, "fail")

\* Where a handler is says which rows it has locked and what it has numbered.
Standing(c) ==
    /\ pc[c] = "idle" <=> InTx(c, "none")
    /\ InTx(c, "start") => pc[c] \in {"seq", "insert", "commit"}
    /\ InTx(c, "advance") => pc[c] # "task"
    /\ row[c] # NoRow <=> \/ (InTx(c, "advance") \/ InTx(c, "fail")) /\ pc[c] # "inst"
                          \/ InTx(c, "complete") /\ pc[c] \notin {"task", "inst"}
    /\ old[c] # Unread <=> \/ InTx(c, "complete") /\ pc[c] # "task"
                           \/ InTx(c, "fail") /\ pc[c] \notin {"inst", "task"}
    /\ pc[c] \in {"idle", "inst", "task", "seq"} => seq[c] = 0
    /\ pc[c] = "insert" => seq[c] # 0

\* It goes on only with a token that was accepted, and appends an event exactly
\* if what it read calls for one.
Decided(c) ==
    /\ old[c] # Unread => old[c].status \in Noop(c) \/ old[c].token = call[c].token
    /\ pc[c] \in {"seq", "insert"} => Appends(c, row[c])
    /\ pc[c] = "commit" => (seq[c] # 0 <=> Appends(c, row[c]))

\* What it was called with is there.
Refers(c) ==
    /\ InTx(c, "start") => call[c].inst \in starting
    /\ InTx(c, "advance") => Exists(inst[call[c].inst])
    /\ Reports(c) => /\ Exists(task[call[c].task])
                     /\ task[call[c].task].inst = call[c].inst
                     /\ task[call[c].task].step = call[c].step
    /\ InTx(c, "complete") => [task |-> call[c].task, token |-> call[c].token] \in held

\* What it read under a lock is what the table holds.
Fresh(c) ==
    /\ row[c] # NoRow => row[c] = inst[call[c].inst]
    /\ old[c] # Unread => /\ old[c].status = task[call[c].task].status
                          /\ old[c].token = task[call[c].task].token

\* The seq it read is the next one, or was until a start event took it.  The seq
\* it has inserted is the next one.
Numbered(c) ==
    LET events == history[call[c].inst]
    IN  /\ pc[c] = "insert" =>
              /\ seq[c] <= Len(events) + 1
              /\ ~InTx(c, "start") /\ seq[c] <= Len(events)
                    => events[seq[c]].type = "WORKFLOW_STARTED"
        /\ pc[c] = "commit" /\ seq[c] # 0 => seq[c] = Len(events) + 1

Good(c) == Standing(c) /\ Decided(c) /\ Refers(c) /\ Fresh(c) /\ Numbered(c)

\* No two clients hold a row, a start or an uncommitted event together.
Apart(c, o) ==
    /\ row[c] # NoRow /\ row[o] # NoRow => call[c].inst # call[o].inst
    /\ old[c] # Unread /\ old[o] # Unread => call[c].task # call[o].task
    /\ InTx(c, "start") /\ InTx(o, "start") => call[c].inst # call[o].inst
    /\ pc[c] = "commit" /\ seq[c] # 0 /\ pc[o] = "commit" /\ seq[o] # 0
          => call[c].inst # call[o].inst

AllApart == \A c, o \in Client : c # o => Apart(c, o)

TxInv ==
    /\ TxTypeOK /\ Linked
    /\ calls = FailCalls(Client)
    /\ \A c \in Client : Good(c)
    /\ AllApart

\* The transaction variables of the other clients are left alone.
OnlyOf(c) ==
    \A o \in Client \ {c} : /\ pc'[o] = pc[o] /\ call'[o] = call[o]
                            /\ row'[o] = row[o] /\ old'[o] = old[o]
                            /\ seq'[o] = seq[o]

\* The FailCall of a client in OnTaskFail.
FailCallOf(c) == [task |-> call[c].task, token |-> call[c].token, attempt |-> call[c].attempt]

-----------------------------------------------------------------------------
(* Wait cycles.                                                            *)

\* A client that is not at a lock or at an insert waits for nobody.
LEMMA WaitersWait ==
    ASSUME NEW c, NEW o, WaitsFor(c, o)
    PROVE  pc[c] \in {"inst", "task", "insert"}
  BY DEF WaitsFor

\* Among clients that wait for each other, who holds an instance's row is an
\* OnTaskFail at its task, and who holds a task's row is an OnTaskComplete at its
\* instance.
LEMMA HoldersWait ==
    ASSUME TxInv, NEW c \in Client, pc[c] \in {"inst", "task"}
    PROVE  /\ row[c] # NoRow => InTx(c, "fail") /\ pc[c] = "task"
           /\ old[c] # Unread => InTx(c, "complete") /\ pc[c] = "inst"
  BY DEF TxInv, Good, Standing, InTx

\* Clients wait in a cycle only for a completion and a failure of one task.
LEMMA CyclesAreReports == TxInv => DeadlockIsCompleteVersusFail
<1> SUFFICES ASSUME TxInv, NEW S \in SUBSET Client, Stuck(S)
             PROVE  \E c, o \in S : /\ WaitsFor(c, o) /\ WaitsFor(o, c)
                                    /\ InTx(c, "complete") /\ InTx(o, "fail")
                                    /\ call[c].task = call[o].task
  BY DEF DeadlockIsCompleteVersusFail
<1>1. \A c \in S : \E o \in S : WaitsFor(c, o)
  BY DEF Stuck
<1>2. \A c \in S : pc[c] \in {"inst", "task", "insert"}
  BY <1>1, WaitersWait
<1>3. \A c \in S : pc[c] \in {"inst", "task"}
  BY <1>1, <1>2 DEF WaitsFor, SeqHeldBy
<1>4. \A c \in S : pc[c] = "task" =>
         \E o \in S : /\ WaitsFor(c, o)
                      /\ old[o] # Unread /\ call[o].task = call[c].task
                      /\ InTx(o, "complete") /\ pc[o] = "inst"
  BY <1>1, <1>3, HoldersWait DEF WaitsFor
<1>5. \A c \in S : pc[c] = "inst" =>
         \E o \in S : InTx(o, "fail") /\ pc[o] = "task"
  BY <1>1, <1>3, HoldersWait DEF WaitsFor
<1>6. PICK f \in S : InTx(f, "fail") /\ pc[f] = "task"
  <2>1. S # {}
    BY DEF Stuck
  <2>2. QED
    BY <1>3, <1>4, <1>5, <2>1
<1>7. PICK o \in S : /\ WaitsFor(f, o)
                     /\ old[o] # Unread /\ call[o].task = call[f].task
                     /\ InTx(o, "complete") /\ pc[o] = "inst"
  BY <1>4, <1>6
<1>8. call[o].inst = call[f].inst /\ row[f] # NoRow
  BY <1>6, <1>7 DEF TxInv, Good, Standing, Refers, Reports, InTx
<1>9. o # f
  BY <1>6, <1>7 DEF InTx
<1>10. WaitsFor(o, f)
  BY <1>7, <1>8, <1>9 DEF WaitsFor
<1>11. QED
  BY <1>6, <1>7, <1>10

-----------------------------------------------------------------------------
(* The calls in flight.                                                    *)

\* When a client's call ends, the calls in flight are those of the others.
LEMMA CallReturns ==
    ASSUME NEW c \in Client
    PROVE  /\ InTx(c, "fail") => FailCallOf(c) \in FailCalls(Client)
           /\ InTx(c, "fail") =>
                 FailCalls(Client \ {c}) \in {FailCalls(Client),
                                              FailCalls(Client) \ {FailCallOf(c)}}
           /\ ~InTx(c, "fail") => FailCalls(Client \ {c}) = FailCalls(Client)
<1> DEFINE F(o) == [task |-> call[o].task, token |-> call[o].token,
                    attempt |-> call[o].attempt]
           All == {o \in Client : InTx(o, "fail")}
           Others == {o \in Client \ {c} : InTx(o, "fail")}
<1>1. FailCalls(Client) = {F(o) : o \in All} /\ FailCalls(Client \ {c}) = {F(o) : o \in Others}
  BY DEF FailCalls
<1>2. FailCallOf(c) = F(c)
  BY DEF FailCallOf
<1> HIDE DEF F
<1>3. CASE ~InTx(c, "fail")
  <2>1. Others = All
    BY <1>3
  <2>2. QED
    BY <1>1, <1>3, <2>1
<1>4. CASE InTx(c, "fail")
  <2>1. All = Others \cup {c} /\ c \notin Others
    BY <1>4
  <2> HIDE DEF All, Others
  <2>2. {F(o) : o \in All} = {F(o) : o \in Others} \cup {F(c)}
    BY <2>1
  <2>3. {F(o) : o \in Others} \in {{F(o) : o \in All}, {F(o) : o \in All} \ {F(c)}}
    BY <2>2
  <2>4. QED
    BY <1>1, <1>2, <1>4, <2>2, <2>3
<1>5. QED
  BY <1>3, <1>4

\* The calls of a set of clients depend on what these clients call only.
LEMMA SameCalls ==
    ASSUME NEW S, \A o \in S : call'[o] = call[o]
    PROVE  FailCalls(S)' = FailCalls(S)
<1>1. {o \in S : InTx(o, "fail")'} = {o \in S : InTx(o, "fail")}
  BY DEF InTx
<1>2. QED
  BY <1>1 DEF FailCalls, InTx

\* The calls in flight after a client has made or ended one.
LEMMA CallsAfter ==
    ASSUME NEW c \in Client, OnlyOf(c)
    PROVE  /\ InTx(c, "fail")' => FailCalls(Client)' = FailCalls(Client \ {c}) \cup {FailCallOf(c)'}
           /\ ~InTx(c, "fail")' => FailCalls(Client)' = FailCalls(Client \ {c})
<1>1. FailCalls(Client \ {c})' = FailCalls(Client \ {c})
  <2>1. \A o \in Client \ {c} : call'[o] = call[o]
    BY DEF OnlyOf
  <2>2. QED
    BY <2>1, SameCalls
<1>2. /\ InTx(c, "fail")' => FailCalls(Client)' = FailCalls(Client \ {c})' \cup {FailCallOf(c)'}
      /\ ~InTx(c, "fail")' => FailCalls(Client)' = FailCalls(Client \ {c})'
  BY DEF FailCalls, FailCallOf
<1>3. QED
  BY <1>1, <1>2

-----------------------------------------------------------------------------
(* What the other clients rely on.                                         *)

\* Rows other clients hold or refer to are as they were.
KeptFor(o) ==
    /\ InTx(o, "start") => call[o].inst \in starting'
    /\ InTx(o, "advance") => Exists(inst'[call[o].inst])
    /\ Reports(o) => LET t == call[o].task
                     IN  /\ Exists(task'[t])
                         /\ task'[t].inst = task[t].inst
                         /\ task'[t].step = task[t].step
    /\ InTx(o, "complete") => [task |-> call[o].task, token |-> call[o].token] \in held'
    /\ row[o] # NoRow => inst'[call[o].inst] = inst[call[o].inst]
    /\ old[o] # Unread => LET t == call[o].task
                          IN  /\ task'[t].status = task[t].status
                              /\ task'[t].token = task[t].token
    /\ pc[o] \in {"insert", "commit"} /\ seq[o] # 0 /\ Numbered(o) =>
          /\ pc[o] = "insert" =>
                /\ seq[o] <= Len(history'[call[o].inst]) + 1
                /\ ~InTx(o, "start") /\ seq[o] <= Len(history'[call[o].inst])
                      => history'[call[o].inst][seq[o]].type = "WORKFLOW_STARTED"
          /\ pc[o] = "commit" => seq[o] = Len(history'[call[o].inst]) + 1

\* A client whose own transaction does not move stays good.
LEMMA StaysGood ==
    ASSUME NEW o \in Client, Good(o), KeptFor(o),
           pc'[o] = pc[o], call'[o] = call[o], row'[o] = row[o],
           old'[o] = old[o], seq'[o] = seq[o]
    PROVE  Good(o)'
<1>1. Standing(o)'
  BY DEF Good, Standing, InTx
<1>2. Decided(o)'
  BY DEF Good, Decided, InTx, Noop, Appends, AwaitsTask, Retries
<1>3. Refers(o)'
  BY DEF Good, KeptFor, Refers, Reports, InTx
<1>4. Fresh(o)'
  BY DEF Good, KeptFor, Fresh
<1>5. Numbered(o)'
  BY DEF Good, Standing, KeptFor, Numbered, InTx
<1>6. QED
  BY <1>1, <1>2, <1>3, <1>4, <1>5 DEF Good

\* The clients that do not move stay good.
LEMMA OthersStayGood ==
    ASSUME NEW c \in Client, NEW o \in Client \ {c}, OnlyOf(c), Good(o), KeptFor(o)
    PROVE  Good(o)'
  BY StaysGood DEF OnlyOf

\* Tables that are left alone are kept for everyone.
LEMMA UntouchedKept ==
    ASSUME TxInv, NEW o \in Client, UNCHANGED <<inst, task, history, held>>,
           InTx(o, "start") => call[o].inst \in starting'
    PROVE  KeptFor(o)
  BY DEF TxInv, Good, KeptFor, Refers, Numbered

\* Apartness has to be shown for the client that moves only.
LEMMA StayApart ==
    ASSUME AllApart, NEW c \in Client, OnlyOf(c),
           \A o \in Client \ {c} : Apart(c, o)'
    PROVE  AllApart'
<1>1. SUFFICES ASSUME NEW a \in Client, NEW b \in Client, a # b
               PROVE  Apart(a, b)'
  BY DEF AllApart
<1>2. CASE a = c
  BY <1>1, <1>2
<1>3. CASE b = c
  <2>1. Apart(b, a)'
    BY <1>1, <1>3
  <2>2. QED
    BY <2>1 DEF Apart
<1>4. CASE a # c /\ b # c
  BY SMTT(30), <1>1, <1>4 DEF AllApart, Apart, OnlyOf, InTx
<1>5. QED
  BY <1>2, <1>3, <1>4

\* A client that locks, starts and inserts nothing stays apart.
LEMMA FewerLocks ==
    ASSUME AllApart, NEW c \in Client, OnlyOf(c),
           row'[c] # NoRow => row[c] # NoRow /\ call'[c] = call[c],
           old'[c] # Unread => old[c] # Unread /\ call'[c] = call[c],
           InTx(c, "start")' => call'[c] = call[c],
           pc'[c] = "commit" /\ seq'[c] # 0 =>
              pc[c] = "commit" /\ seq[c] # 0 /\ call'[c] = call[c]
    PROVE  AllApart'
<1>1. \A o \in Client \ {c} : Apart(c, o)'
  BY SMTT(30) DEF AllApart, Apart, OnlyOf, InTx
<1>2. QED
  BY <1>1, StayApart

\* What it takes to keep the invariant when client c moves.
LEMMA ClientMoved ==
    ASSUME TxInv, [Next]_vars, NEW c \in Client, OnlyOf(c),
           TxTypeOK', calls' = FailCalls(Client)', Good(c)',
           \A o \in Client \ {c} : KeptFor(o), AllApart'
    PROVE  TxInv'
<1>1. Linked'
  BY NextLinked DEF TxInv
<1>2. \A o \in Client : Good(o)'
  BY OthersStayGood DEF TxInv
<1>3. QED
  BY <1>1, <1>2 DEF TxInv

-----------------------------------------------------------------------------
(* The end of a transaction.                                               *)

\* A client whose transaction has ended holds nothing.
LEMMA Ended ==
    ASSUME TxInv, NEW c \in Client, EndTx(c)
    PROVE  /\ OnlyOf(c) /\ TxTypeOK' /\ calls' = FailCalls(Client)'
           /\ Good(c)' /\ AllApart'
<1>1. OnlyOf(c)
  BY DEF EndTx, OnlyOf, TxInv, TxTypeOK
<1>2. /\ pc'[c] = "idle" /\ call'[c] = NoCall /\ row'[c] = NoRow
      /\ old'[c] = Unread /\ seq'[c] = 0
  BY DEF EndTx, TxInv, TxTypeOK
<1>3. TxTypeOK'
  BY DEF EndTx, TxInv, TxTypeOK
<1>4. ~InTx(c, "start")' /\ ~InTx(c, "advance")' /\ ~InTx(c, "complete")'
      /\ ~InTx(c, "fail")' /\ InTx(c, "none")'
  BY SMTT(30), <1>2 DEF InTx, NoCall
<1>5. calls' = FailCalls(Client)'
  BY <1>1, <1>4, CallsAfter DEF EndTx
<1>6. Good(c)'
  BY <1>2, <1>4 DEF Good, Standing, Decided, Refers, Reports, Fresh, Numbered
<1>7. AllApart'
  BY <1>1, <1>2, <1>4, FewerLocks DEF TxInv
<1>8. QED
  BY <1>1, <1>3, <1>5, <1>6, <1>7

\* The other starts are still under way when a transaction ends.
LEMMA StartsKept ==
    ASSUME TxInv, NEW c \in Client, EndTx(c), NEW o \in Client \ {c}, InTx(o, "start")
    PROVE  call[o].inst \in starting'
  BY DEF EndTx, TxInv, Good, Refers, AllApart, Apart

\* A rollback is a step of Kernel: an aborted call, or nothing at all.
LEMMA RolledBack ==
    ASSUME TxInv, NEW c \in Client, EndTx(c), UNCHANGED <<stored, held, signalling, batch>>
    PROVE  [Next]_vars /\ TxInv'
<1>1. calls' = FailCalls(Client \ {c}) /\ calls = FailCalls(Client)
  BY DEF EndTx, TxInv
<1>2. [Next]_vars
  <2>1. CASE InTx(c, "start")
    <3>1. call[c].inst \in Instance /\ call[c].inst \in starting
      BY <2>1 DEF TxInv, Good, Refers, Linked, TypeOK
    <3>2. ~InTx(c, "fail")
      BY <2>1 DEF InTx
    <3>3. AbortStart(call[c].inst)
      BY <1>1, <2>1, <3>1, <3>2, CallReturns DEF EndTx, AbortStart
    <3>4. QED
      BY <3>1, <3>3 DEF Next
  <2>2. CASE InTx(c, "fail")
    <3>1. starting' = starting
      BY <2>2 DEF EndTx, InTx
    <3>2. CASE calls' = calls
      BY <3>1, <3>2 DEF vars, stored
    <3>3. CASE calls' = calls \ {FailCallOf(c)}
      <4>1. AbortFail(FailCallOf(c))
        BY <3>1, <3>3 DEF AbortFail
      <4>2. FailCallOf(c) \in calls
        BY <1>1, <2>2, CallReturns
      <4>3. QED
        BY <4>1, <4>2 DEF Next
    <3>4. QED
      BY <1>1, <2>2, <3>2, <3>3, CallReturns
  <2>3. CASE ~InTx(c, "start") /\ ~InTx(c, "fail")
    BY <1>1, <2>3, CallReturns DEF EndTx, vars, stored
  <2>4. QED
    BY <2>1, <2>2, <2>3
<1>3. \A o \in Client \ {c} : KeptFor(o)
  BY StartsKept, UntouchedKept DEF stored
<1>4. QED
  BY <1>2, <1>3, Ended, ClientMoved

-----------------------------------------------------------------------------
(* The beginning of a transaction.                                         *)

\* A client whose transaction has just begun holds nothing yet.
LEMMA Begun ==
    ASSUME TxInv, NEW c \in Client, NEW k \in Call,
           NEW first \in {"inst", "task", "seq"}, Begin(c, k, first)
    PROVE  /\ OnlyOf(c) /\ TxTypeOK'
           /\ pc'[c] = first /\ call'[c] = k
           /\ row'[c] = NoRow /\ old'[c] = Unread /\ seq'[c] = 0
           /\ ~InTx(c, "fail") /\ ~InTx(c, "start")
<1>1. /\ pc[c] = "idle" /\ InTx(c, "none")
      /\ row[c] = NoRow /\ old[c] = Unread /\ seq[c] = 0
  BY DEF Begin, TxInv, Good, Standing, InTx
<1>2. OnlyOf(c)
  BY DEF Begin, OnlyOf, TxInv, TxTypeOK
<1>3. TxTypeOK'
  BY DEF Begin, TxInv, TxTypeOK
<1>4. QED
  BY <1>1, <1>2, <1>3 DEF Begin, TxInv, TxTypeOK, InTx

\* A transaction that begins holds no rows, so the invariant is kept as long as
\* its own arguments are right.
LEMMA BegunKept ==
    ASSUME TxInv, [Next]_vars, NEW c \in Client, NEW k \in Call,
           NEW first \in {"inst", "task", "seq"}, Begin(c, k, first),
           UNCHANGED <<stored, held, starting>>,
           calls' = FailCalls(Client)',
           k.kind = "start" <=> first = "seq",
           k.kind = "complete" <=> first = "task",
           Refers(c)',
           k.kind = "start" => \A o \in Client : InTx(o, "start") => call[o].inst # k.inst
    PROVE  TxInv'
<1> USE DEF InTx
<1>1. /\ OnlyOf(c) /\ TxTypeOK'
      /\ pc'[c] = first /\ call'[c] = k
      /\ row'[c] = NoRow /\ old'[c] = Unread /\ seq'[c] = 0
  BY SMTT(30), Begun
<1>2. k.kind \in {"start", "advance", "complete", "fail"}
  BY DEF Call
<1>3. Standing(c)'
  BY <1>1, <1>2 DEF Standing
<1>4. Decided(c)'
  BY <1>1 DEF Decided, Appends
<1>5. Fresh(c)' /\ Numbered(c)'
  BY <1>1 DEF Fresh, Numbered
<1>6. \A o \in Client \ {c} : Apart(c, o)'
  BY <1>1 DEF Apart, OnlyOf
<1>7. AllApart'
  BY <1>1, <1>6, StayApart DEF TxInv
<1>8. \A o \in Client \ {c} : KeptFor(o)
  BY UntouchedKept DEF stored, TxInv, Good, Refers
<1>9. QED
  BY <1>1, <1>3, <1>4, <1>5, <1>7, <1>8, ClientMoved DEF Good

\* StartInstance opens the transaction for its start event.
LEMMA BeginStartStep ==
    ASSUME TxInv, NEW c \in Client, NEW i \in Instance, BeginStart(c, i)
    PROVE  [Next]_vars /\ TxInv'
<1> DEFINE k == [kind |-> "start", inst |-> i]
<1>1. k \in Call /\ k.kind = "start" /\ k.inst = i
  BY DEF Call
<1>2. Begin(c, k, "seq") /\ UNCHANGED <<stored, volatile>> /\ i \in starting
  BY DEF BeginStart
<1>3. [Next]_vars
  BY <1>2 DEF vars, stored, volatile
<1>4. /\ OnlyOf(c) /\ call'[c] = k /\ ~InTx(c, "fail")
  BY <1>1, <1>2, Begun
<1>5. calls' = FailCalls(Client)'
  BY <1>1, <1>2, <1>4, CallsAfter, CallReturns DEF volatile, TxInv, InTx
<1>6. Refers(c)'
  BY <1>1, <1>2, <1>4 DEF Refers, Reports, InTx, volatile
<1>7. \A o \in Client : InTx(o, "start") => call[o].inst # i
  <2>1. SUFFICES ASSUME NEW o \in Client, InTx(o, "start"), call[o].inst = i
                 PROVE  FALSE
    OBVIOUS
  <2>2. call[o] \in Call
    BY SMTT(30), <2>1 DEF TxInv, TxTypeOK, InTx, NoCall
  <2>3. call[o] \in [kind : {"start", "advance"}, inst : Instance]
    BY <2>1, <2>2 DEF Call, InTx
  <2>4. call[o] = k
    BY <2>1, <2>3 DEF InTx
  <2>5. QED
    BY <2>4 DEF BeginStart
<1> HIDE DEF k
<1>8. QED
  BY <1>1, <1>2, <1>3, <1>5, <1>6, <1>7, BegunKept DEF volatile

\* The scheduler opens a transaction for an instance it has listed.
LEMMA BeginAdvanceStep ==
    ASSUME TxInv, NEW c \in Client, NEW i \in Instance, BeginAdvance(c, i)
    PROVE  [Next]_vars /\ TxInv'
<1> DEFINE k == [kind |-> "advance", inst |-> i]
<1>1. k \in Call /\ k.kind = "advance" /\ k.inst = i
  BY DEF Call
<1>2. Begin(c, k, "inst") /\ UNCHANGED <<stored, volatile>> /\ Exists(inst[i])
  BY SMTT(30) DEF BeginAdvance, Exists, NoRow
<1>3. [Next]_vars
  BY <1>2 DEF vars, stored, volatile
<1>4. /\ OnlyOf(c) /\ call'[c] = k /\ ~InTx(c, "fail")
  BY <1>1, <1>2, Begun
<1>5. calls' = FailCalls(Client)'
  BY <1>1, <1>2, <1>4, CallsAfter, CallReturns DEF volatile, TxInv, InTx
<1>6. Refers(c)'
  BY <1>1, <1>2, <1>4 DEF Refers, Reports, InTx, stored
<1> HIDE DEF k
<1>7. QED
  BY <1>1, <1>2, <1>3, <1>5, <1>6, BegunKept DEF volatile

\* OnTaskComplete and OnTaskFail are called for a task that is there.
LEMMA DeliveredTask ==
    ASSUME TxInv, NEW d \in held
    PROVE  /\ d \in Delivery /\ d.task \in TaskId /\ d.token \in Token
           /\ d = [task |-> d.task, token |-> d.token]
           /\ Exists(task[d.task]) /\ task[d.task] \in TaskRow
           /\ task[d.task].inst \in Instance /\ task[d.task].step \in StepId
           /\ task[d.task].attempt \in Nat
<1>1. TypeOK /\ RowsLinked
  BY DEF TxInv, Linked
<1>2. d \in Delivery
  BY <1>1 DEF TypeOK
<1>3. d.task \in TaskId /\ d.token \in Token /\ d = [task |-> d.task, token |-> d.token]
  BY <1>2 DEF Delivery
<1>4. Exists(task[d.task]) /\ task[d.task] \in TaskRow
  BY <1>1, <1>3, RowsExist DEF RowsLinked, Exists
<1>5. QED
  BY <1>2, <1>3, <1>4 DEF TaskRow

\* OnTaskComplete has read the task and opens its transaction.
LEMMA BeginCompleteStep ==
    ASSUME TxInv, NEW c \in Client, NEW d \in held, BeginComplete(c, d)
    PROVE  [Next]_vars /\ TxInv'
<1> DEFINE k == [kind |-> "complete", inst |-> task[d.task].inst,
                 step |-> task[d.task].step, task |-> d.task, token |-> d.token]
<1>1. /\ k \in Call /\ k.kind = "complete" /\ k.inst = task[d.task].inst
      /\ k.step = task[d.task].step /\ k.task = d.task /\ k.token = d.token
  BY DeliveredTask DEF Call
<1>2. Begin(c, k, "task") /\ UNCHANGED <<stored, volatile>>
  BY DEF BeginComplete
<1> HIDE DEF k
<1>3. [Next]_vars
  BY <1>2 DEF vars, stored, volatile
<1>4. /\ OnlyOf(c) /\ call'[c] = k /\ ~InTx(c, "fail")
  BY <1>1, <1>2, Begun
<1>5. calls' = FailCalls(Client)'
  BY <1>1, <1>2, <1>4, CallsAfter, CallReturns DEF volatile, TxInv, InTx
<1>6. Refers(c)'
  <2>1. /\ InTx(c, "complete")' /\ ~InTx(c, "start")' /\ ~InTx(c, "advance")'
        /\ task' = task /\ held' = held
    BY <1>1, <1>2, <1>4 DEF InTx, stored, volatile
  <2>2. [task |-> call'[c].task, token |-> call'[c].token] \in held
    BY <1>1, <1>4, DeliveredTask
  <2>3. QED
    BY <1>1, <1>4, <2>1, <2>2, DeliveredTask DEF Refers
<1>7. QED
  BY <1>1, <1>2, <1>3, <1>5, <1>6, BegunKept DEF volatile

\* OnTaskFail has read the task and opens its transaction: Kernel's
\* ReadFailingTask.
LEMMA BeginFailStep ==
    ASSUME TxInv, NEW c \in Client, NEW d \in held, NEW retryable \in BOOLEAN,
           NEW ticks \in Backoff, BeginFail(c, d, retryable, ticks)
    PROVE  [Next]_vars /\ TxInv'
<1> DEFINE k == [kind |-> "fail", inst |-> task[d.task].inst,
                 step |-> task[d.task].step, task |-> d.task, token |-> d.token,
                 attempt |-> task[d.task].attempt,
                 retryable |-> retryable, ticks |-> ticks]
<1>1. /\ k \in Call /\ k.kind = "fail" /\ k.inst = task[d.task].inst
      /\ k.step = task[d.task].step /\ k.task = d.task /\ k.token = d.token
      /\ k.attempt = task[d.task].attempt
  BY DeliveredTask DEF Call
<1>2. Begin(c, k, "inst") /\ ReadFailingTask(d)
  BY DEF BeginFail
<1> HIDE DEF k
<1>3. [Next]_vars
  BY <1>2, DeliveredTask DEF Next
<1>4. /\ OnlyOf(c) /\ call'[c] = k /\ ~InTx(c, "fail")
  BY <1>1, <1>2, Begun
<1>5. calls' = FailCalls(Client)'
  <2>1. FailCallOf(c)' = [task |-> d.task, token |-> d.token, attempt |-> task[d.task].attempt]
    BY <1>1, <1>4 DEF FailCallOf
  <2>2. InTx(c, "fail")'
    BY <1>1, <1>4 DEF InTx
  <2>3. QED
    BY <1>2, <1>4, <2>1, <2>2, CallsAfter, CallReturns DEF ReadFailingTask, TxInv
<1>6. Refers(c)'
  <2>1. /\ InTx(c, "fail")' /\ ~InTx(c, "start")' /\ ~InTx(c, "advance")'
        /\ ~InTx(c, "complete")' /\ task' = task
    BY <1>1, <1>2, <1>4 DEF InTx, stored, ReadFailingTask
  <2>2. QED
    BY <1>1, <1>4, <2>1, DeliveredTask DEF Refers
<1>7. QED
  BY <1>1, <1>2, <1>3, <1>5, <1>6, BegunKept DEF ReadFailingTask

-----------------------------------------------------------------------------
(* The statements.                                                         *)

\* Nobody but c has moved and the tables are as they were.
LEMMA StatementKept ==
    ASSUME TxInv, NEW c \in Client, OnlyOf(c), TxTypeOK', call'[c] = call[c],
           UNCHANGED <<stored, volatile>>, Good(c)', AllApart'
    PROVE  [Next]_vars /\ TxInv'
<1>1. [Next]_vars
  BY DEF vars, stored, volatile
<1>2. \A o \in Client : call'[o] = call[o]
  BY DEF OnlyOf
<1>3. calls' = FailCalls(Client)'
  BY <1>2, SameCalls DEF TxInv, volatile
<1>4. \A o \in Client \ {c} : KeptFor(o)
  BY UntouchedKept DEF stored, volatile, TxInv, Good, Refers
<1>5. QED
  BY <1>1, <1>3, <1>4, ClientMoved

\* A handler at the instance's row refers to an instance.
LEMMA InstanceThere ==
    ASSUME TxInv, NEW c \in Client, ~InTx(c, "start"), ~InTx(c, "none")
    PROVE  /\ call[c].inst \in Instance /\ inst[call[c].inst] # NoRow
           /\ inst[call[c].inst] \in InstanceRow
<1>1. TypeOK /\ RowsLinked
  BY DEF TxInv, Linked
<1>2. call[c] \in Call
  BY SMTT(30) DEF TxInv, TxTypeOK, InTx, NoCall
<1>3. call[c].inst \in Instance /\ call[c].kind \in {"start", "advance", "complete", "fail"}
  BY <1>2 DEF Call
<1>4. InTx(c, "advance") => inst[call[c].inst] # NoRow
  BY DEF TxInv, Good, Refers, Exists
<1>5. Reports(c) => inst[call[c].inst] # NoRow
  <2>1. SUFFICES ASSUME Reports(c) PROVE inst[call[c].inst] # NoRow
    OBVIOUS
  <2>2. call[c].task \in TaskId
    BY <1>2, <2>1 DEF Call, Reports, InTx
  <2>3. Exists(task[call[c].task]) /\ task[call[c].task].inst = call[c].inst
    BY <2>1 DEF TxInv, Good, Refers
  <2>4. QED
    BY <1>1, <2>2, <2>3 DEF RowsLinked, Exists
<1>6. QED
  BY <1>1, <1>3, <1>4, <1>5, RowsExist DEF InTx, Reports

\* SELECT ... FOR UPDATE of the instance.
LEMMA GetInstanceStep ==
    ASSUME TxInv, NEW c \in Client, GetInstanceForUpdate(c)
    PROVE  [Next]_vars /\ TxInv'
<1> DEFINE r == inst[call[c].inst]
<1>1. /\ pc[c] = "inst" /\ InstFree(c, call[c].inst)
      /\ row' = [row EXCEPT ![c] = r]
      /\ pc' = [pc EXCEPT ![c] = IF InTx(c, "fail") THEN "task" ELSE AfterReads(c, r)]
      /\ UNCHANGED <<stored, volatile, call, old, seq>>
  BY DEF GetInstanceForUpdate
<1>2. /\ Standing(c) /\ Decided(c) /\ Refers(c) /\ Fresh(c)
      /\ ~InTx(c, "start") /\ ~InTx(c, "none")
  BY <1>1 DEF TxInv, Good, Standing, InTx
<1>3. r # NoRow /\ r \in InstanceRow
  BY <1>2, InstanceThere
<1> HIDE DEF r
<1>4. AfterReads(c, r) \in {"seq", "commit"} /\ (AfterReads(c, r) = "seq" <=> Appends(c, r))
  BY DEF AfterReads
<1>5. OnlyOf(c)
  BY <1>1 DEF OnlyOf, TxInv, TxTypeOK
<1>6. TxTypeOK'
  BY <1>1, <1>3, <1>4 DEF TxInv, TxTypeOK
<1>7. /\ row'[c] = r /\ call'[c] = call[c] /\ old'[c] = old[c] /\ seq'[c] = seq[c]
      /\ pc'[c] = IF InTx(c, "fail") THEN "task" ELSE AfterReads(c, r)
  BY <1>1 DEF TxInv, TxTypeOK
<1>8. call[c].kind \in {"advance", "complete", "fail"} /\ seq[c] = 0
  BY SMTT(30), <1>1, <1>2 DEF TxInv, TxTypeOK, Standing, Call, InTx, NoCall
<1>9. Standing(c)'
  BY SMTT(30), <1>1, <1>2, <1>3, <1>4, <1>7, <1>8 DEF Standing, InTx
<1>10. Decided(c)'
  <2>1. old[c] # Unread => InTx(c, "complete")
    BY <1>1, <1>2 DEF Standing
  <2>2. old'[c] # Unread => old'[c].status \in Noop(c)' \/ old'[c].token = call'[c].token
    BY <1>2, <1>7, <2>1 DEF Decided, Noop, InTx
  <2>3. pc'[c] = "seq" => Appends(c, r)
    BY <1>4, <1>7
  <2>4. pc'[c] = "commit" => ~Appends(c, r)
    BY <1>4, <1>7
  <2>5. pc'[c] # "insert"
    BY <1>4, <1>7
  <2>6. Appends(c, row[c])' <=> Appends(c, r)
    BY <1>7 DEF Appends, AwaitsTask, InTx
  <2>7. QED
    BY <1>7, <1>8, <2>2, <2>3, <2>4, <2>5, <2>6 DEF Decided
<1>11. Refers(c)'
  BY <1>1, <1>2, <1>7 DEF Refers, Reports, InTx, stored, volatile
<1>12. Fresh(c)'
  BY <1>1, <1>2, <1>7 DEF Fresh, r, stored
<1>13. Numbered(c)'
  BY <1>4, <1>7, <1>8 DEF Numbered
<1>14. \A o \in Client \ {c} : Apart(c, o)'
  <2>1. SUFFICES ASSUME NEW o \in Client \ {c} PROVE Apart(c, o)'
    OBVIOUS
  <2>2. Apart(c, o)
    BY DEF TxInv, AllApart
  <2>3. row[o] # NoRow => call[o].inst # call[c].inst
    BY <1>1 DEF InstFree
  <2>4. QED
    BY <1>2, <1>5, <1>7, <1>8, <2>2, <2>3 DEF Apart, OnlyOf, InTx
<1>15. QED
  BY <1>1, <1>5, <1>6, <1>7, <1>9, <1>10, <1>11, <1>12, <1>13, <1>14,
     StayApart, StatementKept DEF TxInv, Good

\* A handler that reports refers to a task.
LEMMA TaskThere ==
    ASSUME TxInv, NEW c \in Client, Reports(c)
    PROVE  /\ call[c].task \in TaskId /\ Exists(task[call[c].task])
           /\ task[call[c].task] \in TaskRow
           /\ call[c].inst \in Instance /\ call[c].step \in StepId
           /\ call[c].token \in Token
           /\ InTx(c, "fail") => call[c].attempt \in Nat
<1>1. TypeOK
  BY DEF TxInv, Linked
<1>2. call[c] \in Call
  BY SMTT(30) DEF TxInv, TxTypeOK, Reports, InTx, NoCall
<1>3. call[c].task \in TaskId
  BY <1>2 DEF Call, Reports, InTx
<1>4. Exists(task[call[c].task])
  BY DEF TxInv, Good, Refers
<1>5. task[call[c].task] \in TaskRow
  BY <1>1, <1>3, <1>4, RowsExist DEF Exists
<1>6. QED
  BY <1>2, <1>3, <1>4, <1>5 DEF Call, Reports, InTx

\* CompleteTask, FailTask or RequeueTask locks the task, or rolls back.
LEMMA SettleStep ==
    ASSUME TxInv, NEW c \in Client, SettleTask(c)
    PROVE  [Next]_vars /\ TxInv'
<1> DEFINE t == call[c].task
           o2 == [status |-> task[t].status, token |-> task[t].token]
<1>1. /\ pc[c] = "task" /\ TaskFree(c, t)
      /\ UNCHANGED <<stored, held, signalling, batch>>
  BY DEF SettleTask
<1>2. CASE ~Accepted(t, call[c].token, Noop(c))
  BY <1>1, <1>2, RolledBack DEF SettleTask
<1>3. CASE Accepted(t, call[c].token, Noop(c))
  <2>1. /\ old' = [old EXCEPT ![c] = o2]
        /\ pc' = [pc EXCEPT ![c] = IF InTx(c, "complete") THEN "inst"
                                   ELSE AfterReads(c, row[c])]
        /\ UNCHANGED <<call, row, seq, calls, starting>>
    BY <1>3 DEF SettleTask
  <2>2. /\ Standing(c) /\ Decided(c) /\ Refers(c) /\ Fresh(c)
        /\ Reports(c) /\ seq[c] = 0 /\ old[c] = Unread
    <3>1. Good(c) /\ call[c] \in Call \cup {NoCall}
      BY DEF TxInv, TxTypeOK
    <3>2. call[c].kind \in {"start", "advance", "complete", "fail", "none"}
      BY SMTT(30), <3>1 DEF Call, NoCall
    <3>3. QED
      BY <1>1, <3>1, <3>2 DEF Good, Standing, Reports, InTx
  <2>3. t \in TaskId /\ Exists(task[t]) /\ task[t] \in TaskRow
    BY <2>2, TaskThere
  <2>4. /\ o2 # Unread
        /\ o2 \in [status : {"QUEUED", "LEASED", "DONE", "FAILED"},
                   token : Token \cup {NoToken}]
    BY <2>3 DEF TaskRow, Unread
  <2>5. o2.status = task[t].status /\ o2.token = task[t].token
    OBVIOUS
  <2> HIDE DEF o2
  <2>6. AfterReads(c, row[c]) \in {"seq", "commit"}
        /\ (AfterReads(c, row[c]) = "seq" <=> Appends(c, row[c]))
    BY DEF AfterReads
  <2>7. OnlyOf(c)
    BY <2>1 DEF OnlyOf, TxInv, TxTypeOK
  <2>8. TxTypeOK'
    BY <2>1, <2>4, <2>6 DEF TxInv, TxTypeOK
  <2>9. /\ old'[c] = o2 /\ call'[c] = call[c] /\ row'[c] = row[c] /\ seq'[c] = seq[c]
        /\ pc'[c] = IF InTx(c, "complete") THEN "inst" ELSE AfterReads(c, row[c])
    BY <2>1 DEF TxInv, TxTypeOK
  <2>10. Standing(c)'
    BY <1>1, <2>2, <2>4, <2>6, <2>9 DEF Standing, Reports, InTx
  <2>11. Decided(c)'
    <3>1. Noop(c)' = Noop(c) /\ (Appends(c, row[c])' <=> Appends(c, row[c]))
      BY <2>9 DEF Noop, Appends, AwaitsTask, Retries, InTx
    <3>2. o2.status \in Noop(c) \/ o2.token = call[c].token
      BY <1>3, <2>5 DEF Accepted
    <3>3. QED
      BY <2>2, <2>6, <2>9, <3>1, <3>2 DEF Decided
  <2>12. Refers(c)'
    BY <1>1, <2>1, <2>2, <2>9 DEF Refers, Reports, InTx, stored
  <2>13. Fresh(c)'
    BY <1>1, <2>2, <2>5, <2>9 DEF Fresh, stored
  <2>14. Numbered(c)'
    BY <2>2, <2>6, <2>9 DEF Numbered
  <2>15. \A o \in Client \ {c} : Apart(c, o)'
    <3>1. SUFFICES ASSUME NEW o \in Client \ {c} PROVE Apart(c, o)'
      OBVIOUS
    <3>2. Apart(c, o)
      BY DEF TxInv, AllApart
    <3>3. old[o] # Unread => call[o].task # call[c].task
      BY <1>1 DEF TaskFree
    <3>4. QED
      BY <2>2, <2>7, <2>9, <3>2, <3>3 DEF Apart, OnlyOf, InTx
  <2>16. UNCHANGED <<stored, volatile>>
    BY <1>1, <2>1 DEF volatile
  <2>17. QED
    BY <2>7, <2>8, <2>9, <2>10, <2>11, <2>12, <2>13, <2>14, <2>15, <2>16,
       StayApart, StatementKept DEF TxInv, Good
<1>4. QED
  BY <1>2, <1>3

\* A call in flight is about an instance, and its history is a sequence.
LEMMA HistoryThere ==
    ASSUME TxInv, NEW c \in Client, ~InTx(c, "none")
    PROVE  /\ call[c].inst \in Instance
           /\ history[call[c].inst] \in Seq(Event)
           /\ Len(history[call[c].inst]) \in Nat
<1>1. call[c] \in Call
  BY SMTT(30) DEF TxInv, TxTypeOK, InTx, NoCall
<1>2. call[c].inst \in Instance
  BY <1>1 DEF Call
<1>3. QED
  BY SMTT(30), <1>2 DEF TxInv, Linked, TypeOK

\* AppendEvent's subquery reads the next seq.
LEMMA NextSeqStep ==
    ASSUME TxInv, NEW c \in Client, NextSeq(c)
    PROVE  [Next]_vars /\ TxInv'
<1> DEFINE n == Len(history[call[c].inst])
<1>1. /\ pc[c] = "seq" /\ seq' = [seq EXCEPT ![c] = n + 1]
      /\ pc' = [pc EXCEPT ![c] = "insert"]
      /\ UNCHANGED <<stored, volatile, call, row, old>>
  BY DEF NextSeq
<1>2. Good(c) /\ ~InTx(c, "none")
  BY <1>1 DEF TxInv, Good, Standing
<1>3. n \in Nat
  BY <1>2, HistoryThere
<1>4. OnlyOf(c)
  BY <1>1 DEF OnlyOf, TxInv, TxTypeOK
<1>5. /\ pc'[c] = "insert" /\ seq'[c] = n + 1
      /\ call'[c] = call[c] /\ row'[c] = row[c] /\ old'[c] = old[c]
  BY <1>1 DEF TxInv, TxTypeOK
<1> HIDE DEF n
<1>6. TxTypeOK'
  BY SMTT(30), <1>1, <1>3 DEF TxInv, TxTypeOK
<1>7. Standing(c)'
  BY SMTT(30), <1>1, <1>2, <1>3, <1>5 DEF Good, Standing, InTx
<1>8. Decided(c)'
  BY <1>1, <1>2, <1>5 DEF Good, Decided, Noop, Appends, AwaitsTask, Retries, InTx
<1>9. Refers(c)' /\ Fresh(c)'
  BY <1>1, <1>2, <1>5 DEF Good, Refers, Fresh, Reports, InTx, stored, volatile
<1>10. Numbered(c)'
  BY SMTT(30), <1>1, <1>3, <1>5 DEF Numbered, n, stored
<1>11. AllApart'
  BY <1>4, <1>5, FewerLocks DEF TxInv, InTx
<1>12. QED
  BY <1>1, <1>4, <1>5, <1>6, <1>7, <1>8, <1>9, <1>10, <1>11, StatementKept DEF Good

\* The insert goes through, or the transaction rolls back.
LEMMA AppendEventStep ==
    ASSUME TxInv, NEW c \in Client, AppendEvent(c)
    PROVE  [Next]_vars /\ TxInv'
<1> DEFINE n == Len(history[call[c].inst])
           fits == seq[c] > n /\ ~VersionConflict(c)
<1>1. /\ pc[c] = "insert" /\ \A o \in Client \ {c} : ~SeqHeldBy(c, o)
      /\ UNCHANGED <<stored, held, signalling, batch>>
  BY DEF AppendEvent
<1>2. CASE ~fits
  BY <1>1, <1>2, RolledBack DEF AppendEvent
<1>3. CASE fits
  <2>1. /\ pc' = [pc EXCEPT ![c] = "commit"]
        /\ UNCHANGED <<call, row, old, seq, calls, starting>>
    BY <1>3 DEF AppendEvent
  <2>2. Good(c) /\ ~InTx(c, "none")
    BY <1>1 DEF TxInv, Good, Standing
  <2>3. n \in Nat /\ seq[c] \in Nat /\ seq[c] # 0
    BY <1>1, <2>2, HistoryThere DEF TxInv, TxTypeOK, Good, Standing
  <2>4. seq[c] = n + 1
    BY SMTT(30), <1>1, <1>3, <2>2, <2>3 DEF Good, Numbered
  <2>5. OnlyOf(c)
    BY <2>1 DEF OnlyOf, TxInv, TxTypeOK
  <2>6. /\ pc'[c] = "commit" /\ seq'[c] = seq[c]
        /\ call'[c] = call[c] /\ row'[c] = row[c] /\ old'[c] = old[c]
    BY <2>1 DEF TxInv, TxTypeOK
  <2> HIDE DEF n
  <2>7. TxTypeOK'
    BY <2>1 DEF TxInv, TxTypeOK
  <2>8. Standing(c)'
    BY <1>1, <2>2, <2>6 DEF Good, Standing, InTx
  <2>9. Decided(c)'
    BY <1>1, <2>2, <2>3, <2>6 DEF Good, Decided, Noop, Appends, AwaitsTask, Retries, InTx
  <2>10. Refers(c)' /\ Fresh(c)'
    BY <1>1, <2>1, <2>2, <2>6 DEF Good, Refers, Fresh, Reports, InTx, stored
  <2>11. Numbered(c)'
    BY <1>1, <2>4, <2>6 DEF Numbered, n, stored
  <2>12. \A o \in Client \ {c} : Apart(c, o)'
    <3>1. SUFFICES ASSUME NEW o \in Client \ {c} PROVE Apart(c, o)'
      OBVIOUS
    <3>2. Apart(c, o) /\ Good(o)
      BY DEF TxInv, AllApart
    <3>3. pc[o] = "commit" /\ seq[o] # 0 => call[o].inst # call[c].inst
      BY <1>1, <2>4, <3>2 DEF SeqHeldBy, Good, Numbered, n
    <3>4. QED
      BY <2>5, <2>6, <3>2, <3>3 DEF Apart, OnlyOf, InTx
  <2>13. UNCHANGED <<stored, volatile>>
    BY <1>1, <2>1 DEF volatile
  <2>14. QED
    BY <2>5, <2>6, <2>7, <2>8, <2>9, <2>10, <2>11, <2>12, <2>13,
       StayApart, StatementKept DEF TxInv, Good
<1>4. QED
  BY <1>2, <1>3

-----------------------------------------------------------------------------
(* The commit.                                                             *)

\* A transaction writes to the rows it has locked, adds rows, and appends to the
\* history of its instance; without the lock it appends the start event only.
WritesInstance(c) ==
    /\ \A i \in Instance : i # call[c].inst \/ row[c] = NoRow => inst'[i] = inst[i]
    /\ row[c] # NoRow => Exists(inst'[call[c].inst])

WritesTasks(c) ==
    \A t \in TaskId : Exists(task[t]) =>
       /\ Exists(task'[t]) /\ task'[t].inst = task[t].inst /\ task'[t].step = task[t].step
       /\ t # call[c].task \/ old[c] = Unread =>
             task'[t].status = task[t].status /\ task'[t].token = task[t].token

WritesHistory(c) ==
    \/ seq[c] = 0 /\ history' = history
    \/ /\ seq[c] # 0
       /\ \E events \in Seq(Event) :
             /\ AppendEvents(call[c].inst, events)
             /\ InTx(c, "start") => Len(events) = 1 /\ events[1].type = "WORKFLOW_STARTED"

Writes(c) == WritesInstance(c) /\ WritesTasks(c) /\ WritesHistory(c) /\ held' = held

\* What is before the end of a sequence stays where it is when it is extended.
LEMMA Extended ==
    ASSUME NEW S, NEW s \in Seq(S), NEW e \in Seq(S)
    PROVE  /\ Len(s \o e) = Len(s) + Len(e) /\ Len(s) \in Nat /\ Len(e) \in Nat
           /\ \A n \in 1..Len(s) : (s \o e)[n] = s[n]
           /\ \A n \in 1..Len(e) : (s \o e)[Len(s) + n] = e[n]
           /\ SubSeq(s, 1, Len(s)) = s
  BY SMTT(30)

\* A single event appended is the last one.
LEMMA OneMore ==
    ASSUME NEW s \in Seq(Event), NEW e \in Seq(Event), Len(e) = 1
    PROVE  (s \o e)[Len(s) + 1] = e[1]
  BY SMTT(30)

\* Events are written behind those that are there.
LEMMA EventsAppended ==
    ASSUME TxInv, NEW c \in Client, pc[c] = "commit", seq[c] # 0, NEW events,
           WriteEvents(c, events)
    PROVE  AppendEvents(call[c].inst, events)
<1> DEFINE h == history[call[c].inst]
<1>1. Good(c) /\ ~InTx(c, "none")
  BY DEF TxInv, Good, Standing
<1>2. h \in Seq(Event) /\ Len(h) \in Nat
  BY <1>1, HistoryThere
<1>3. seq[c] = Len(h) + 1
  BY <1>1 DEF Good, Numbered
<1> HIDE DEF h
<1>4. SubSeq(h, 1, seq[c] - 1) = h
  <2>1. seq[c] - 1 = Len(h)
    BY SMTT(30), <1>2, <1>3
  <2>2. QED
    BY <1>2, <2>1, Extended
<1>5. history' = [history EXCEPT ![call[c].inst] = SubSeq(h, 1, seq[c] - 1) \o events]
  BY DEF WriteEvents, h
<1>6. QED
  BY <1>4, <1>5 DEF AppendEvents, h

\* The numbers other clients have read or inserted stay right.
LEMMA NumbersKept ==
    ASSUME TxInv, NEW c \in Client, pc[c] = "commit", Writes(c), NEW o \in Client \ {c},
           pc[o] \in {"insert", "commit"}, seq[o] # 0
    PROVE  LET h2 == history'[call[o].inst]
           IN  /\ pc[o] = "insert" =>
                     /\ seq[o] <= Len(h2) + 1
                     /\ ~InTx(o, "start") /\ seq[o] <= Len(h2)
                           => h2[seq[o]].type = "WORKFLOW_STARTED"
               /\ pc[o] = "commit" => seq[o] = Len(h2) + 1
<1> DEFINE h == history[call[o].inst]
           h2 == history'[call[o].inst]
<1>1. /\ Good(o) /\ Good(c) /\ Apart(c, o)
      /\ ~InTx(o, "none") /\ seq[o] \in Nat
  BY DEF TxInv, AllApart, Good, Standing, TxTypeOK
<1>2. h \in Seq(Event) /\ Len(h) \in Nat /\ call[o].inst \in Instance
  BY <1>1, HistoryThere
<1>3. /\ pc[o] = "insert" => /\ seq[o] <= Len(h) + 1
                             /\ ~InTx(o, "start") /\ seq[o] <= Len(h)
                                   => h[seq[o]].type = "WORKFLOW_STARTED"
      /\ pc[o] = "commit" => seq[o] = Len(h) + 1
  BY <1>1 DEF Good, Numbered
<1>4. CASE seq[c] = 0 \/ call[c].inst # call[o].inst
  <2>1. h2 = h
    BY <1>2, <1>4 DEF Writes, WritesHistory, AppendEvents, TxInv, Linked, TypeOK
  <2>2. QED
    BY <1>3, <2>1
<1>5. CASE seq[c] # 0 /\ call[c].inst = call[o].inst
  <2>1. PICK events \in Seq(Event) :
           /\ AppendEvents(call[c].inst, events)
           /\ InTx(c, "start") => Len(events) = 1 /\ events[1].type = "WORKFLOW_STARTED"
    BY <1>5 DEF Writes, WritesHistory
  <2>2. h2 = h \o events
    BY <1>2, <1>5, <2>1 DEF AppendEvents, TxInv, Linked, TypeOK
  <2>3. pc[o] = "insert"
    BY <1>1, <1>5 DEF Apart
  <2> HIDE DEF h, h2
  <2>4. seq[o] <= Len(h2) + 1
    BY SMTT(30), <1>1, <1>2, <1>3, <2>2, <2>3, Extended
  <2>5. ASSUME ~InTx(o, "start"), seq[o] <= Len(h2)
        PROVE  h2[seq[o]].type = "WORKFLOW_STARTED"
    <3>1. row[o] # NoRow
      BY <1>1, <2>3, <2>5 DEF Good, Standing, Decided, Appends, InTx
    <3>2. row[c] = NoRow
      BY <1>1, <1>5, <3>1 DEF Apart
    <3>3. InTx(c, "start")
      BY <1>1, <1>5, <3>2 DEF Good, Standing, Decided, Appends, InTx
    <3>4. CASE seq[o] <= Len(h)
      BY SMTT(30), <1>1, <1>2, <1>3, <2>2, <2>3, <2>5, <3>4, Extended
    <3>5. CASE seq[o] = Len(h) + 1
      <4>1. Len(events) = 1 /\ events[1].type = "WORKFLOW_STARTED"
        BY <2>1, <3>3
      <4>2. h2[Len(h) + 1] = events[1]
        BY <1>2, <2>2, <4>1, OneMore
      <4>3. QED
        BY <3>5, <4>1, <4>2
    <3>6. QED
      BY SMTT(30), <1>1, <1>2, <1>3, <2>3, <3>4, <3>5
  <2>6. QED
    BY <2>3, <2>4, <2>5 DEF h2
<1>6. QED
  BY <1>4, <1>5

\* What a transaction writes leaves alone what other clients rely on.
LEMMA WritesKept ==
    ASSUME TxInv, NEW c \in Client, pc[c] = "commit", Writes(c), EndTx(c),
           NEW o \in Client \ {c}
    PROVE  KeptFor(o)
<1>1. Good(o) /\ Apart(c, o) /\ Apart(o, c)
  BY DEF TxInv, AllApart
<1>2. InTx(o, "start") => call[o].inst \in starting'
  BY StartsKept
<1>3. InTx(o, "advance") => Exists(inst'[call[o].inst])
  <2>1. SUFFICES ASSUME InTx(o, "advance") PROVE Exists(inst'[call[o].inst])
    OBVIOUS
  <2>2. call[o].inst \in Instance /\ inst[call[o].inst] # NoRow
    BY <2>1, InstanceThere DEF InTx
  <2>3. QED
    BY <2>2 DEF Writes, WritesInstance, Exists
<1>4. Reports(o) => /\ Exists(task'[call[o].task])
                    /\ task'[call[o].task].inst = task[call[o].task].inst
                    /\ task'[call[o].task].step = task[call[o].task].step
  BY TaskThere DEF Writes, WritesTasks
<1>5. InTx(o, "complete") => [task |-> call[o].task, token |-> call[o].token] \in held'
  BY <1>1 DEF Good, Refers, Writes
<1>6. row[o] # NoRow => inst'[call[o].inst] = inst[call[o].inst]
  <2>1. SUFFICES ASSUME row[o] # NoRow PROVE inst'[call[o].inst] = inst[call[o].inst]
    OBVIOUS
  <2>2. ~InTx(o, "start") /\ ~InTx(o, "none")
    BY <1>1, <2>1 DEF Good, Standing, InTx
  <2>3. call[o].inst \in Instance
    BY <2>2, InstanceThere
  <2>4. QED
    BY <1>1, <2>1, <2>3 DEF Apart, Writes, WritesInstance
<1>7. old[o] # Unread => /\ task'[call[o].task].status = task[call[o].task].status
                         /\ task'[call[o].task].token = task[call[o].task].token
  <2>1. SUFFICES ASSUME old[o] # Unread
                 PROVE  /\ task'[call[o].task].status = task[call[o].task].status
                        /\ task'[call[o].task].token = task[call[o].task].token
    OBVIOUS
  <2>2. Reports(o)
    BY <1>1, <2>1 DEF Good, Standing, Reports
  <2>3. call[o].task \in TaskId /\ Exists(task[call[o].task])
    BY <2>2, TaskThere
  <2>4. call[o].task # call[c].task \/ old[c] = Unread
    BY <1>1, <2>1 DEF Apart
  <2>5. QED
    BY <2>3, <2>4 DEF Writes, WritesTasks
<1>8. QED
  BY <1>2, <1>3, <1>4, <1>5, <1>6, <1>7, NumbersKept DEF KeptFor

\* A commit of a step of Kernel that writes no more than it may keeps the invariant.
LEMMA Committed ==
    ASSUME TxInv, NEW c \in Client, pc[c] = "commit", EndTx(c), Writes(c), [Next]_vars
    PROVE  TxInv'
  BY Ended, WritesKept, ClientMoved

\* A handler that wrote events and was not the start handler holds its instance.
LEMMA Committing ==
    ASSUME TxInv, NEW c \in Client, pc[c] = "commit"
    PROVE  /\ ~InTx(c, "none")
           /\ InTx(c, "start") => row[c] = NoRow /\ old[c] = Unread
           /\ InTx(c, "advance") => old[c] = Unread
           /\ ~InTx(c, "start") => /\ row[c] # NoRow
                                   /\ row[c] = inst[call[c].inst]
                                   /\ row[c] \in InstanceRow
                                   /\ call[c].inst \in Instance
           /\ Reports(c) => /\ old[c] # Unread
                            /\ old[c].status = task[call[c].task].status
                            /\ old[c].token = task[call[c].task].token
           /\ seq[c] # 0 <=> Appends(c, row[c])
<1>1. Good(c) /\ call[c] \in Call \cup {NoCall}
  BY DEF TxInv, TxTypeOK
<1>2. call[c].kind \in {"start", "advance", "complete", "fail", "none"}
  BY SMTT(30), <1>1 DEF Call, NoCall
<1>3. /\ ~InTx(c, "none")
      /\ InTx(c, "start") => row[c] = NoRow /\ old[c] = Unread
      /\ InTx(c, "advance") => old[c] = Unread
      /\ ~InTx(c, "start") => row[c] # NoRow
      /\ Reports(c) => old[c] # Unread
  BY <1>1, <1>2 DEF Good, Standing, Reports, InTx
<1>4. ~InTx(c, "start") => call[c].inst \in Instance /\ inst[call[c].inst] \in InstanceRow
  BY <1>3, InstanceThere
<1>5. QED
  BY <1>1, <1>3, <1>4 DEF Good, Fresh, Decided

\* Handlers other than OnTaskFail and StartInstance leave no trace of their call.
LEMMA QuietEnd ==
    ASSUME TxInv, NEW c \in Client, EndTx(c)
    PROVE  /\ ~InTx(c, "fail") => calls' = calls
           /\ ~InTx(c, "start") => starting' = starting
           /\ InTx(c, "start") => starting' = starting \ {call[c].inst}
           /\ InTx(c, "fail") => Return(FailCallOf(c)) /\ FailCallOf(c) \in calls
  BY CallReturns DEF EndTx, TxInv, Return

\* One event about a step is a sequence of events.
LEMMA OneEvent ==
    ASSUME TxInv, NEW c \in Client, pc[c] = "commit", seq[c] # 0, ~InTx(c, "start"),
           NEW type \in EventType, NEW step \in StepId, NEW ref \in Nat,
           WriteEvents(c, <<Ev(type, step, ref)>>)
    PROVE  WritesHistory(c) /\ AppendEvents(call[c].inst, <<Ev(type, step, ref)>>)
<1>1. <<Ev(type, step, ref)>> \in Seq(Event)
  BY EventTyped
<1>2. AppendEvents(call[c].inst, <<Ev(type, step, ref)>>)
  BY EventsAppended
<1>3. QED
  BY <1>1, <1>2 DEF WritesHistory

\* StartInstance's transaction is Kernel's RecordStart.
LEMMA CommitStartStep ==
    ASSUME TxInv, NEW c \in Client, pc[c] = "commit", CommitStart(c), EndTx(c),
           UNCHANGED <<timer, signal, held, signalling, batch>>
    PROVE  [Next]_vars /\ Writes(c)
<1> DEFINE i == call[c].inst
           e == Ev("WORKFLOW_STARTED", Def.initial, NoRef)
<1>1. InTx(c, "start") /\ ~InTx(c, "fail")
  BY DEF CommitStart, InTx
<1>2. row[c] = NoRow /\ old[c] = Unread /\ seq[c] # 0
  BY <1>1, Committing DEF Appends
<1>3. i \in starting /\ i \in Instance
  BY <1>1 DEF TxInv, Good, Refers, Linked, TypeOK
<1>4. AppendEvents(i, <<e>>)
  BY <1>2, EventsAppended DEF CommitStart
<1>5. <<e>> \in Seq(Event) /\ Len(<<e>>) = 1 /\ <<e>>[1].type = "WORKFLOW_STARTED"
  <2>1. <<e>> \in Seq(Event)
    BY EventTyped, SuccessorsExist DEF EventType, NoRef
  <2>2. QED
    BY <2>1 DEF Ev
<1> HIDE DEF e
<1>6. RecordStart(i)
  BY <1>1, <1>3, <1>4, QuietEnd DEF CommitStart, RecordStart, e
<1>7. WritesHistory(c)
  BY <1>2, <1>4, <1>5 DEF WritesHistory
<1>8. WritesInstance(c) /\ WritesTasks(c)
  BY <1>2 DEF CommitStart, WritesInstance, WritesTasks
<1>9. QED
  BY <1>3, <1>6, <1>7, <1>8 DEF Next, Writes

\* A concurrent Advance was first: nothing happens in Kernel.
LEMMA CommitNothingStep ==
    ASSUME TxInv, NEW c \in Client, pc[c] = "commit", CommitNothing(c), EndTx(c),
           UNCHANGED <<timer, signal, held, signalling, batch>>
    PROVE  [Next]_vars /\ Writes(c)
<1>1. InTx(c, "advance") /\ ~InTx(c, "start") /\ ~InTx(c, "fail") /\ ~InTx(c, "complete")
  BY DEF CommitNothing, InTx
<1>2. UNCHANGED vars
  BY <1>1, QuietEnd DEF CommitNothing, vars
<1>3. seq[c] = 0
  BY <1>1, Committing DEF CommitNothing, Appends
<1>4. inst[call[c].inst] # NoRow
  BY <1>1, Committing
<1>5. WritesInstance(c) /\ WritesTasks(c) /\ WritesHistory(c)
  BY <1>3, <1>4 DEF CommitNothing, WritesInstance, WritesTasks, WritesHistory, Exists
<1>6. QED
  BY <1>2, <1>5 DEF Writes

\* UpdateInstance writes the row that is locked.
LEMMA InstanceWritten ==
    ASSUME TxInv, NEW c \in Client, pc[c] = "commit", ~InTx(c, "start"),
           NEW r \in InstanceRow, WriteInstance(c, r)
    PROVE  WritesInstance(c) /\ UpdateInstance(call[c].inst, r)
<1>1. call[c].inst \in Instance /\ row[c] # NoRow
  BY Committing
<1>2. [r EXCEPT !.rowVersion = r.rowVersion + 1] \in InstanceRow
  BY SMTT(30) DEF InstanceRow
<1>3. [r EXCEPT !.rowVersion = r.rowVersion + 1] # NoRow
  BY <1>2 DEF InstanceRow, NoRow
<1>4. QED
  BY <1>1, <1>3 DEF WriteInstance, WritesInstance, UpdateInstance, Exists, TxInv, Linked, TypeOK

\* A row that is not written is still there.
LEMMA InstanceNotWritten ==
    ASSUME TxInv, NEW c \in Client, pc[c] = "commit", inst' = inst
    PROVE  WritesInstance(c)
  BY Committing DEF WritesInstance, Exists

\* enterStep of an activity is Kernel's EnterActivity.
LEMMA CommitActivityStep ==
    ASSUME TxInv, NEW c \in Client, pc[c] = "commit", CommitActivity(c), EndTx(c),
           UNCHANGED <<timer, signal, held, signalling, batch>>
    PROVE  [Next]_vars /\ Writes(c)
<1> DEFINE i == call[c].inst
           new == [status |-> "QUEUED", inst |-> i, step |-> inst[i].step,
                   visit |-> inst[i].rowVersion, payload |-> inst[i].context, attempt |-> 1,
                   visibleIn |-> 0, token |-> NoToken, expiresIn |-> 0]
<1>1. InTx(c, "advance") /\ ~InTx(c, "start") /\ ~InTx(c, "fail") /\ ~InTx(c, "complete")
  BY DEF CommitActivity, InTx
<1>2. /\ row[c] = inst[i] /\ row[c] # NoRow /\ inst[i] \in InstanceRow /\ i \in Instance
      /\ old[c] = Unread
  BY <1>1, Committing
<1>3. inst[i].status = "RUNNABLE" /\ seq[c] # 0 /\ Def.steps[inst[i].step].type = "activity"
  BY <1>1, <1>2, Committing DEF CommitActivity, Appends
<1>4. inst[i].step \in StepId
  BY <1>2 DEF InstanceRow
<1>5. WritesHistory(c) /\ AppendEvents(i, <<Ev("TASK_SCHEDULED", inst[i].step, NoRef)>>)
  BY <1>1, <1>2, <1>3, <1>4, OneEvent DEF CommitActivity, EventType, NoRef
<1>6. WritesInstance(c) /\ Park(i)
  <2>1. [inst[i] EXCEPT !.status = "WAITING"] \in InstanceRow
    BY <1>2 DEF InstanceRow
  <2>2. WriteInstance(c, [inst[i] EXCEPT !.status = "WAITING"])
    BY <1>2 DEF CommitActivity
  <2>3. QED
    BY <1>1, <2>1, <2>2, InstanceWritten DEF Park
<1>7. PICK t \in TaskId :
         /\ ~Exists(task[t])
         /\ task' = IF KeyTaken(i, inst[i].step, inst[i].rowVersion)
                      THEN task ELSE [task EXCEPT ![t] = new]
  BY <1>2 DEF CommitActivity
<1>8. EnqueueTask(i)
  BY <1>7 DEF EnqueueTask, ContextPayload
<1>9. WritesTasks(c)
  BY <1>7 DEF WritesTasks, TxInv, Linked, TypeOK
<1>10. EnterActivity(i)
  <2>1. Runnable(i, "activity")
    BY <1>2, <1>3 DEF Runnable, Exists, StepOf
  <2>2. UNCHANGED <<timer, signal, outbox, volatile>>
    BY <1>1, QuietEnd DEF CommitActivity, volatile
  <2>3. QED
    BY <1>5, <1>6, <1>8, <2>1, <2>2 DEF EnterActivity
<1>11. QED
  BY <1>2, <1>5, <1>6, <1>9, <1>10 DEF Next, Advance, Writes

\* enterStep of an end step is Kernel's EnterEnd.
LEMMA CommitEndStep ==
    ASSUME TxInv, NEW c \in Client, pc[c] = "commit", CommitEnd(c), EndTx(c),
           UNCHANGED <<timer, signal, held, signalling, batch>>
    PROVE  [Next]_vars /\ Writes(c)
<1> DEFINE i == call[c].inst
<1>1. InTx(c, "advance") /\ ~InTx(c, "start") /\ ~InTx(c, "fail") /\ ~InTx(c, "complete")
  BY DEF CommitEnd, InTx
<1>2. row[c] = inst[i] /\ row[c] # NoRow /\ inst[i] \in InstanceRow /\ i \in Instance
  BY <1>1, Committing
<1>3. inst[i].status = "RUNNABLE" /\ seq[c] # 0 /\ Def.steps[inst[i].step].type = "end"
  BY <1>1, <1>2, Committing DEF CommitEnd, Appends
<1>4. inst[i].step \in StepId
  BY <1>2 DEF InstanceRow
<1>5. WritesHistory(c) /\ AppendEvents(i, <<Ev("WORKFLOW_SUCCEEDED", inst[i].step, NoRef)>>)
  BY <1>1, <1>2, <1>3, <1>4, OneEvent DEF CommitEnd, EventType, NoRef
<1>6. WritesInstance(c) /\ Finish(i, "SUCCEEDED")
  <2>1. [inst[i] EXCEPT !.status = "SUCCEEDED"] \in InstanceRow
    BY <1>2 DEF InstanceRow
  <2>2. WriteInstance(c, [inst[i] EXCEPT !.status = "SUCCEEDED"])
    BY <1>2 DEF CommitEnd
  <2>3. QED
    BY <1>1, <2>1, <2>2, InstanceWritten DEF Finish
<1>7. WritesTasks(c)
  BY DEF CommitEnd, WritesTasks
<1>8. EnterEnd(i)
  <2>1. Runnable(i, "end")
    BY <1>2, <1>3 DEF Runnable, Exists, StepOf
  <2>2. UNCHANGED <<task, timer, signal, volatile>>
    BY <1>1, QuietEnd DEF CommitEnd, volatile
  <2>3. EnqueueOutbox(i, "WORKFLOW_SUCCEEDED")
    BY DEF CommitEnd
  <2>4. QED
    BY <1>5, <1>6, <2>1, <2>2, <2>3 DEF EnterEnd
<1>9. QED
  BY <1>2, <1>5, <1>6, <1>7, <1>8 DEF Next, Advance, Writes

\* The handlers that report write the task that is locked.
LEMMA TaskWritten ==
    ASSUME TxInv, NEW c \in Client, pc[c] = "commit", Reports(c), NEW status,
           status \in {"DONE", "FAILED"}, WriteTask(c, status)
    PROVE  WritesTasks(c) /\ Settle(call[c].task, Noop(c), status)
<1> DEFINE t == call[c].task
<1>1. old[c] # Unread /\ old[c].status = task[t].status
  BY Committing
<1>2. t \in TaskId /\ task[t] \in TaskRow /\ Exists(task[t])
  BY TaskThere
<1>3. Settle(t, Noop(c), status)
  BY <1>1 DEF WriteTask, Settle
<1>4. CASE task' = task
  BY <1>3, <1>4 DEF WritesTasks
<1>5. CASE task' = [task EXCEPT ![t].status = status]
  <2>1. task'[t] = [task[t] EXCEPT !.status = status] /\ \A u \in TaskId : u # t => task'[u] = task[u]
    BY <1>2, <1>5 DEF TxInv, Linked, TypeOK
  <2>2. /\ task'[t].status = status /\ task'[t].inst = task[t].inst
        /\ task'[t].step = task[t].step
    BY <1>2, <2>1 DEF TaskRow
  <2>3. Exists(task'[t])
    BY SMTT(30), <2>2 DEF Exists, NoRow
  <2>4. QED
    BY <1>1, <1>3, <2>1, <2>2, <2>3 DEF WritesTasks
<1>6. QED
  BY <1>1, <1>4, <1>5 DEF WriteTask

\* A report that is not awaited any more appends nothing.
LEMMA NoEvent ==
    ASSUME TxInv, NEW c \in Client, pc[c] = "commit", Reports(c), ~AwaitsTask(row[c], c),
           history' = history
    PROVE  WritesHistory(c)
  BY Committing DEF WritesHistory, Appends, Reports, InTx

\* What a report finds: its task's instance and step, and a token it may use.
LEMMA Reporting ==
    ASSUME TxInv, NEW c \in Client, pc[c] = "commit", Reports(c)
    PROVE  LET t == call[c].task
               i == call[c].inst
               s == call[c].step
           IN  /\ task[t].inst = i /\ task[t].step = s
               /\ i \in Instance /\ s \in StepId /\ t \in TaskId /\ t \in Nat
               /\ row[c] = inst[i] /\ inst[i] \in InstanceRow
               /\ Def.steps[s].next \in StepId
               /\ Accepted(t, call[c].token, Noop(c))
               /\ AwaitsTask(row[c], c) <=> Parked(i, s)
               /\ AwaitsTask(row[c], c) <=> seq[c] # 0
<1> DEFINE t == call[c].task
           i == call[c].inst
           s == call[c].step
<1>1. /\ t \in TaskId /\ Exists(task[t]) /\ s \in StepId
  BY TaskThere
<1>2. Good(c) /\ ~InTx(c, "start") /\ ~InTx(c, "advance")
  BY DEF TxInv, Reports, InTx
<1>3. row[c] = inst[i] /\ inst[i] \in InstanceRow /\ i \in Instance
  BY <1>2, Committing
<1>4. task[t].inst = i /\ task[t].step = s
  BY <1>2 DEF Good, Refers
<1>5. Def.steps[s].next \in StepId
  <2>1. Def.steps[task[t].step].type = "activity"
    BY <1>1 DEF TxInv, Linked, RowsLinked
  <2>2. QED
    BY <1>1, <1>4, <2>1, SuccessorsExist
<1>6. Accepted(t, call[c].token, Noop(c))
  BY <1>2, Committing DEF Good, Decided, Accepted
<1>7. AwaitsTask(row[c], c) <=> Parked(i, s)
  BY <1>3 DEF AwaitsTask, Parked
<1>8. AwaitsTask(row[c], c) <=> seq[c] # 0
  BY <1>2, Committing DEF Appends, Reports
<1>9. t \in Nat
  BY <1>1, IdAssumption
<1>10. QED
  BY <1>1, <1>3, <1>4, <1>5, <1>6, <1>7, <1>8, <1>9

\* OnTaskComplete's transaction is Kernel's OnTaskComplete.
LEMMA CommitCompleteStep ==
    ASSUME TxInv, NEW c \in Client, pc[c] = "commit", CommitComplete(c), EndTx(c),
           UNCHANGED <<timer, signal, held, signalling, batch>>
    PROVE  [Next]_vars /\ Writes(c)
<1> DEFINE i == call[c].inst
           t == call[c].task
           s == call[c].step
           d == [task |-> t, token |-> call[c].token]
           to == Def.steps[s].next
           context == [inst[i].context EXCEPT ![s] = t]
           moved == [inst[i] EXCEPT !.status = "RUNNABLE", !.step = to, !.context = context]
<1>1. InTx(c, "complete") /\ Reports(c) /\ ~InTx(c, "start") /\ ~InTx(c, "fail")
  BY DEF CommitComplete, Reports, InTx
<1>2. /\ task[t].inst = i /\ task[t].step = s
      /\ i \in Instance /\ s \in StepId /\ t \in TaskId /\ t \in Nat
      /\ row[c] = inst[i] /\ inst[i] \in InstanceRow /\ to \in StepId
      /\ Accepted(t, call[c].token, Noop(c))
      /\ AwaitsTask(row[c], c) <=> Parked(i, s)
      /\ AwaitsTask(row[c], c) <=> seq[c] # 0
  BY <1>1, Reporting
<1>3. Noop(c) = CompleteNoop
  BY <1>1 DEF Noop
<1>4. WritesTasks(c) /\ Settle(t, CompleteNoop, "DONE")
  BY <1>1, <1>3, TaskWritten DEF CommitComplete
<1>5. d \in held /\ d \in Delivery /\ d.task = t /\ d.token = call[c].token
  <2>1. d \in held
    BY <1>1 DEF TxInv, Good, Refers
  <2>2. QED
    BY <2>1 DEF TxInv, Linked, TypeOK
<1>6. CASE Parked(i, s)
  <2>1. AwaitsTask(row[c], c) /\ seq[c] # 0
    BY <1>2, <1>6
  <2>2. moved \in InstanceRow
    BY <1>2 DEF InstanceRow, Context
  <2>3. WriteInstance(c, moved) /\ WriteEvents(c, <<Ev("TASK_COMPLETED", s, t)>>)
    BY <1>2, <2>1 DEF CommitComplete
  <2>4. WritesHistory(c) /\ AppendEvents(i, <<Ev("TASK_COMPLETED", s, t)>>)
    BY <1>1, <1>2, <2>1, <2>3, OneEvent DEF EventType
  <2>5. WritesInstance(c) /\ UpdateInstance(i, moved)
    BY <1>1, <2>2, <2>3, InstanceWritten
  <2>6. Move(i, to, context)
    BY <2>5 DEF Move
  <2>7. QED
    <3>1. UNCHANGED <<timer, signal, outbox, volatile>>
      BY <1>1, QuietEnd DEF CommitComplete, volatile
    <3> HIDE DEF d
    <3>2. OnTaskComplete(d)
      BY <1>2, <1>3, <1>4, <1>5, <1>6, <2>4, <2>6, <3>1 DEF OnTaskComplete
    <3>3. QED
      BY <1>4, <1>5, <2>4, <2>5, <3>2 DEF Next, Writes
<1>7. CASE ~Parked(i, s)
  <2>1. inst' = inst /\ history' = history
    BY <1>2, <1>7 DEF CommitComplete
  <2>2. WritesInstance(c) /\ WritesHistory(c)
    BY <1>1, <1>2, <1>7, <2>1, InstanceNotWritten, NoEvent
  <2>3. UNCHANGED <<timer, signal, outbox, volatile>>
    BY <1>1, QuietEnd DEF CommitComplete, volatile
  <2> HIDE DEF d
  <2>4. OnTaskComplete(d)
    BY <1>2, <1>3, <1>4, <1>5, <1>7, <2>1, <2>3 DEF OnTaskComplete
  <2>5. QED
    BY <1>4, <1>5, <2>2, <2>4 DEF Next, Writes
<1>8. QED
  BY <1>6, <1>7

\* OnTaskFail's transaction for a stale report is Kernel's FailStale.
LEMMA CommitStaleStep ==
    ASSUME TxInv, NEW c \in Client, pc[c] = "commit", CommitStale(c), EndTx(c),
           UNCHANGED <<timer, signal, held, signalling, batch>>
    PROVE  [Next]_vars /\ Writes(c)
<1> DEFINE t == call[c].task
           k == FailCallOf(c)
<1>1. InTx(c, "fail") /\ Reports(c) /\ ~InTx(c, "start") /\ ~InTx(c, "complete")
  BY DEF CommitStale, Reports, InTx
<1>2. /\ task[t].inst = call[c].inst /\ task[t].step = call[c].step
      /\ Accepted(t, call[c].token, Noop(c))
      /\ AwaitsTask(row[c], c) <=> Parked(call[c].inst, call[c].step)
  BY <1>1, Reporting
<1>3. Noop(c) = FailNoop /\ ~AwaitsTask(row[c], c)
  BY <1>1 DEF CommitStale, Noop
<1>4. WritesTasks(c) /\ Settle(t, FailNoop, "FAILED")
  BY <1>1, <1>3, TaskWritten DEF CommitStale
<1>5. WritesInstance(c) /\ WritesHistory(c)
  BY <1>1, <1>3, InstanceNotWritten, NoEvent DEF CommitStale
<1>6. k.task = t /\ k.token = call[c].token /\ k \in calls /\ Return(k) /\ starting' = starting
  BY <1>1, QuietEnd DEF FailCallOf
<1> HIDE DEF k
<1>7. FailStale(k)
  BY <1>2, <1>3, <1>4, <1>6 DEF FailStale, CommitStale
<1>8. QED
  BY <1>4, <1>5, <1>6, <1>7 DEF Next, OnTaskFail, Writes

\* OnTaskFail's transaction for a retry is Kernel's FailRetry.
LEMMA CommitRetryStep ==
    ASSUME TxInv, NEW c \in Client, pc[c] = "commit", CommitRetry(c), EndTx(c),
           UNCHANGED <<timer, signal, held, signalling, batch>>
    PROVE  [Next]_vars /\ Writes(c)
<1> DEFINE i == call[c].inst
           t == call[c].task
           s == call[c].step
           k == FailCallOf(c)
           new == [task[t] EXCEPT !.status = "QUEUED", !.attempt = call[c].attempt + 1,
                                  !.visibleIn = call[c].ticks, !.token = NoToken,
                                  !.expiresIn = 0]
<1>1. InTx(c, "fail") /\ Reports(c) /\ ~InTx(c, "start") /\ ~InTx(c, "complete")
  BY DEF CommitRetry, Reports, InTx
<1>2. /\ task[t].inst = i /\ task[t].step = s
      /\ i \in Instance /\ s \in StepId /\ t \in TaskId /\ t \in Nat
      /\ Accepted(t, call[c].token, Noop(c))
      /\ AwaitsTask(row[c], c) <=> Parked(i, s)
      /\ AwaitsTask(row[c], c) <=> seq[c] # 0
  BY <1>1, Reporting
<1>3. Noop(c) = RequeueNoop /\ AwaitsTask(row[c], c) /\ Retries(c)
  BY <1>1 DEF CommitRetry, Noop
<1>4. call[c].retryable \in BOOLEAN /\ call[c].ticks \in Backoff
  <2>1. call[c] \in Call
    BY SMTT(30), <1>1 DEF TxInv, TxTypeOK, InTx, NoCall
  <2>2. QED
    BY <1>1, <2>1 DEF Call, InTx
<1>5. old[c] # Unread /\ old[c].status = task[t].status
  BY <1>1, Committing
<1>6. RequeueTask(t, call[c].attempt + 1, call[c].ticks)
  BY <1>3, <1>5 DEF CommitRetry, RequeueTask
<1>7. WritesTasks(c)
  <2>1. task[t] \in TaskRow
    BY <1>1, TaskThere
  <2>2. /\ new.status = "QUEUED" /\ new.inst = task[t].inst /\ new.step = task[t].step
    BY <2>1 DEF TaskRow
  <2>3. Exists(new)
    BY <2>2 DEF Exists, NoRow
  <2>4. task' = task \/ task' = [task EXCEPT ![t] = new]
    BY DEF CommitRetry
  <2> HIDE DEF new
  <2>5. QED
    BY <1>2, <1>5, <2>2, <2>3, <2>4 DEF WritesTasks, TxInv, Linked, TypeOK
<1>8. WritesHistory(c) /\ AppendEvents(i, <<Ev("TASK_RETRY_SCHEDULED", s, t)>>)
  BY <1>1, <1>2, <1>3, OneEvent DEF CommitRetry, EventType
<1>9. WritesInstance(c)
  BY InstanceNotWritten DEF CommitRetry
<1>10. /\ k.task = t /\ k.token = call[c].token /\ k.attempt = call[c].attempt
       /\ k \in calls /\ Return(k) /\ starting' = starting
  BY <1>1, QuietEnd DEF FailCallOf
<1> HIDE DEF k
<1>11. FailRetry(k, call[c].retryable, call[c].ticks)
  BY <1>2, <1>3, <1>6, <1>8, <1>10 DEF FailRetry, CommitRetry, Retries
<1>12. QED
  BY <1>4, <1>7, <1>8, <1>9, <1>10, <1>11 DEF Next, OnTaskFail, Writes

\* OnTaskFail's transaction for a terminal failure is Kernel's FailTerminal.
LEMMA CommitFailureStep ==
    ASSUME TxInv, NEW c \in Client, pc[c] = "commit", CommitFailure(c), EndTx(c),
           UNCHANGED <<timer, signal, held, signalling, batch>>
    PROVE  [Next]_vars /\ Writes(c)
<1> DEFINE i == call[c].inst
           t == call[c].task
           s == call[c].step
           k == FailCallOf(c)
           events == <<Ev("TASK_FAILED", s, t), Ev("WORKFLOW_FAILED", s, NoRef)>>
<1>1. InTx(c, "fail") /\ Reports(c) /\ ~InTx(c, "start") /\ ~InTx(c, "complete")
  BY DEF CommitFailure, Reports, InTx
<1>2. /\ task[t].inst = i /\ task[t].step = s
      /\ i \in Instance /\ s \in StepId /\ t \in TaskId /\ t \in Nat
      /\ row[c] = inst[i] /\ inst[i] \in InstanceRow
      /\ Accepted(t, call[c].token, Noop(c))
      /\ AwaitsTask(row[c], c) <=> Parked(i, s)
      /\ AwaitsTask(row[c], c) <=> seq[c] # 0
  BY <1>1, Reporting
<1>3. Noop(c) = FailNoop /\ AwaitsTask(row[c], c) /\ ~Retries(c)
  BY <1>1 DEF CommitFailure, Noop
<1>4. call[c].retryable \in BOOLEAN
  <2>1. call[c] \in Call
    BY SMTT(30), <1>1 DEF TxInv, TxTypeOK, InTx, NoCall
  <2>2. QED
    BY <1>1, <2>1 DEF Call, InTx
<1>5. WritesTasks(c) /\ Settle(t, FailNoop, "FAILED")
  BY <1>1, <1>3, TaskWritten DEF CommitFailure
<1>6. WritesHistory(c) /\ AppendEvents(i, events)
  <2>1. Ev("TASK_FAILED", s, t) \in Event /\ Ev("WORKFLOW_FAILED", s, NoRef) \in Event
    BY <1>2, EventTyped DEF EventType, NoRef
  <2>2. events \in Seq(Event)
    BY SMTT(30), <2>1
  <2>3. WriteEvents(c, events)
    BY DEF CommitFailure
  <2> HIDE DEF events
  <2>4. AppendEvents(i, events)
    BY <1>2, <1>3, <2>3, EventsAppended
  <2>5. QED
    BY <1>1, <1>2, <1>3, <2>2, <2>4 DEF WritesHistory
<1>7. WritesInstance(c) /\ Finish(i, "FAILED")
  <2>1. [inst[i] EXCEPT !.status = "FAILED"] \in InstanceRow
    BY <1>2 DEF InstanceRow
  <2>2. WriteInstance(c, [inst[i] EXCEPT !.status = "FAILED"])
    BY <1>2 DEF CommitFailure
  <2>3. QED
    BY <1>1, <2>1, <2>2, InstanceWritten DEF Finish
<1>8. /\ k.task = t /\ k.token = call[c].token /\ k.attempt = call[c].attempt
      /\ k \in calls /\ Return(k) /\ starting' = starting
  BY <1>1, QuietEnd DEF FailCallOf
<1>9. EnqueueOutbox(i, "WORKFLOW_FAILED")
  BY DEF CommitFailure
<1> HIDE DEF k
<1>10. FailTerminal(k, call[c].retryable)
  BY <1>2, <1>3, <1>5, <1>6, <1>7, <1>8, <1>9 DEF FailTerminal, Retries
<1>11. QED
  BY <1>4, <1>5, <1>6, <1>7, <1>8, <1>10 DEF Next, OnTaskFail, Writes

\* A commit is one step of Kernel.
LEMMA CommitStep ==
    ASSUME TxInv, NEW c \in Client, Commit(c)
    PROVE  [Next]_vars /\ TxInv'
<1>1. pc[c] = "commit" /\ EndTx(c) /\ UNCHANGED <<timer, signal, held, signalling, batch>>
  BY DEF Commit
<1>2. [Next]_vars /\ Writes(c)
  BY <1>1, CommitStartStep, CommitActivityStep, CommitEndStep, CommitNothingStep,
     CommitCompleteStep, CommitStaleStep, CommitRetryStep, CommitFailureStep DEF Commit
<1>3. QED
  BY <1>1, <1>2, Committed


-----------------------------------------------------------------------------
(* Statements that are transactions of their own.                          *)

\* A statement of its own leaves alone the task rows that are locked.
LockedTasksKept ==
    \A t \in TaskId : Exists(task[t]) =>
       /\ Exists(task'[t]) /\ task'[t].inst = task[t].inst /\ task'[t].step = task[t].step
       /\ ~TaskUnlocked(t) => task'[t].status = task[t].status /\ task'[t].token = task[t].token

\* Polls, heartbeats, the sweeper and the clock leave alone the rows that are locked.
LEMMA QueueKeepsLocked ==
    ASSUME TxInv
    PROVE  /\ UNCHANGED task => LockedTasksKept
           /\ \A t \in TaskId, token \in Token :
                 TaskUnlocked(t) /\ LeaseTask(t, token) => LockedTasksKept
           /\ \A d \in Delivery : HeartbeatTask(d) => LockedTasksKept
           /\ (\A t \in TaskId : Expired(t) => TaskUnlocked(t)) /\ ExpireLeases
                 => LockedTasksKept
           /\ Tick => LockedTasksKept
<1>1. TypeOK
  BY DEF TxInv, Linked
<1>2. \A t \in TaskId : Exists(task[t]) => task[t] \in TaskRow
  BY <1>1, RowsExist DEF Exists
<1>3. \A r \in TaskRow : Exists(r)
  BY SMTT(30) DEF Exists, TaskRow, NoRow
<1>4. UNCHANGED task => LockedTasksKept
  BY DEF LockedTasksKept
<1>5. ASSUME NEW t \in TaskId, NEW token \in Token, TaskUnlocked(t), LeaseTask(t, token)
      PROVE  LockedTasksKept
  <2> DEFINE new == [task[t] EXCEPT !.status = "LEASED", !.token = token, !.expiresIn = LeaseFor]
  <2>1. Exists(task[t]) => Exists(new) /\ new.inst = task[t].inst /\ new.step = task[t].step
    BY <1>2, <1>3, TimeAssumption DEF TaskRow
  <2>2. task' = [task EXCEPT ![t] = new]
    BY <1>5 DEF LeaseTask
  <2> HIDE DEF new
  <2>3. QED
    BY <1>1, <1>5, <2>1, <2>2 DEF LockedTasksKept, TypeOK
<1>6. ASSUME NEW d \in Delivery, HeartbeatTask(d) PROVE LockedTasksKept
  <2> DEFINE t == d.task
             new == [task[t] EXCEPT !.expiresIn = LeaseFor]
  <2>1. Exists(task[t]) =>
           /\ Exists(new) /\ new.inst = task[t].inst /\ new.step = task[t].step
           /\ new.status = task[t].status /\ new.token = task[t].token
    BY SMTT(30), <1>2, <1>3, TimeAssumption DEF TaskRow, Delivery
  <2>2. task' = [task EXCEPT ![t] = new]
    BY <1>6 DEF HeartbeatTask
  <2> HIDE DEF new
  <2>3. QED
    BY <1>1, <2>1, <2>2 DEF LockedTasksKept, TypeOK, Delivery
<1>7. ASSUME \A t \in TaskId : Expired(t) => TaskUnlocked(t), ExpireLeases
      PROVE  LockedTasksKept
  <2>1. SUFFICES ASSUME NEW t \in TaskId, Exists(task[t])
        PROVE  /\ Exists(task'[t])
               /\ task'[t].inst = task[t].inst /\ task'[t].step = task[t].step
               /\ ~TaskUnlocked(t) =>
                     task'[t].status = task[t].status /\ task'[t].token = task[t].token
    BY DEF LockedTasksKept
  <2>2. CASE Expired(t)
    <3>1. task'[t] = [task[t] EXCEPT !.status = "QUEUED", !.token = NoToken, !.expiresIn = 0]
      BY <1>7, <2>2 DEF ExpireLeases
    <3>2. TaskUnlocked(t)
      BY <1>7, <2>2
    <3>3. task[t] \in TaskRow
      BY <1>2, <2>1
    <3>4. /\ task'[t].status = "QUEUED"
          /\ task'[t].inst = task[t].inst /\ task'[t].step = task[t].step
      BY <3>1, <3>3 DEF TaskRow
    <3>5. Exists(task'[t])
      BY SMTT(30), <3>4 DEF Exists, NoRow
    <3>6. QED
      BY <3>2, <3>4, <3>5
  <2>3. CASE ~Expired(t)
    BY <1>7, <2>1, <2>3 DEF ExpireLeases
  <2>4. QED
    BY <2>2, <2>3
<1>8. ASSUME Tick PROVE LockedTasksKept
  <2>1. SUFFICES ASSUME NEW t \in TaskId, Exists(task[t])
        PROVE  /\ Exists(task'[t])
               /\ task'[t].inst = task[t].inst /\ task'[t].step = task[t].step
               /\ ~TaskUnlocked(t) =>
                     task'[t].status = task[t].status /\ task'[t].token = task[t].token
    BY DEF LockedTasksKept
  <2>2. CASE Open(t)
    <3>1. task'[t] = [task[t] EXCEPT !.visibleIn = Less(@), !.expiresIn = Less(@)]
      BY <1>8, <2>2 DEF Tick
    <3>2. task[t] \in TaskRow
      BY <1>2, <2>1
    <3>3. /\ task'[t].inst = task[t].inst /\ task'[t].step = task[t].step
          /\ task'[t].status = task[t].status /\ task'[t].token = task[t].token
      BY <3>1, <3>2 DEF TaskRow
    <3>4. task'[t].status \in {"QUEUED", "LEASED"}
      BY <2>2, <3>3 DEF Open
    <3>5. Exists(task'[t])
      BY SMTT(30), <3>4 DEF Exists, NoRow
    <3>6. QED
      BY <3>3, <3>5
  <2>3. CASE ~Open(t)
    BY <1>8, <2>1, <2>3 DEF Tick
  <2>4. QED
    BY <2>2, <2>3
<1>9. QED
  BY <1>4, <1>5, <1>6, <1>7, <1>8

\* What it takes to keep the invariant when no client moves.
LEMMA NobodyMoved ==
    ASSUME TxInv, [Next]_vars, UNCHANGED txVars, UNCHANGED <<history, calls>>,
           LockedTasksKept,
           \A i \in Instance : Exists(inst[i]) => inst'[i] = inst[i],
           \A o \in Client : InTx(o, "start") => call[o].inst \in starting',
           \A o \in Client : InTx(o, "complete") =>
              [task |-> call[o].task, token |-> call[o].token] \in held'
    PROVE  TxInv'
<1>1. Linked'
  BY NextLinked DEF TxInv
<1>2. TxTypeOK' /\ AllApart'
  BY DEF TxInv, TxTypeOK, AllApart, Apart, txVars, InTx
<1>3. calls' = FailCalls(Client)'
  BY DEF TxInv, FailCalls, txVars, InTx
<1>4. ASSUME NEW o \in Client PROVE Good(o)'
  <2>1. Good(o)
    BY DEF TxInv
  <2>2. InTx(o, "advance") => Exists(inst'[call[o].inst])
    BY <2>1, InstanceThere DEF InTx, Exists
  <2>3. Reports(o) => call[o].task \in TaskId /\ Exists(task[call[o].task])
    BY TaskThere
  <2>4. row[o] # NoRow => inst'[call[o].inst] = inst[call[o].inst]
    <3>1. SUFFICES ASSUME row[o] # NoRow PROVE inst'[call[o].inst] = inst[call[o].inst]
      OBVIOUS
    <3>2. ~InTx(o, "start") /\ ~InTx(o, "none")
      BY <2>1, <3>1 DEF Good, Standing, InTx
    <3>3. QED
      BY <3>2, InstanceThere DEF Exists
  <2>5. old[o] # Unread => Reports(o) /\ ~TaskUnlocked(call[o].task)
    BY <2>1 DEF Good, Standing, Reports, TaskUnlocked
  <2>6. KeptFor(o)
    BY <2>1, <2>2, <2>3, <2>4, <2>5 DEF KeptFor, LockedTasksKept, Numbered
  <2>7. QED
    BY <2>1, <2>6, StaysGood DEF txVars
<1>5. QED
  BY <1>1, <1>2, <1>3, <1>4 DEF TxInv

\* A statement that is a transaction of its own is a step of Kernel.
LEMMA SingleStep ==
    ASSUME TxInv, Single, UNCHANGED txVars
    PROVE  [Next]_vars /\ TxInv'
<1>1. [Next]_vars
  BY DEF Single, Next
<1>2. /\ \A o \in Client : InTx(o, "start") =>
            call[o].inst \in starting /\ call[o] = [kind |-> "start", inst |-> call[o].inst]
      /\ \A o \in Client : InTx(o, "complete") =>
            [task |-> call[o].task, token |-> call[o].token] \in held
  <2>1. \A o \in Client : InTx(o, "start") =>
           call[o] = [kind |-> "start", inst |-> call[o].inst]
    <3>1. ASSUME NEW o \in Client, InTx(o, "start")
          PROVE  call[o] = [kind |-> "start", inst |-> call[o].inst]
      BY SMTT(30), <3>1 DEF TxInv, TxTypeOK, Call, NoCall, InTx
    <3>2. QED
      BY <3>1
  <2>2. QED
    BY <2>1 DEF TxInv, Good, Refers
<1>3. CASE \E i \in Instance, key \in Key : StartInstance(i, key)
  <2>1. PICK i \in Instance, key \in Key : StartInstance(i, key)
    BY <1>3
  <2>2. \A j \in Instance : Exists(inst[j]) => inst'[j] = inst[j]
    BY <2>1 DEF StartInstance, TxInv, Linked, TypeOK
  <2>3. UNCHANGED <<task, history, calls, held>> /\ starting \subseteq starting'
    BY <2>1 DEF StartInstance
  <2>4. QED
    BY <1>1, <1>2, <2>2, <2>3, QueueKeepsLocked, NobodyMoved
<1>4. CASE \E i \in Instance : /\ \A o \in Client : call[o] # [kind |-> "start", inst |-> i]
                               /\ AbortStart(i)
  <2>1. PICK i \in Instance : /\ \A o \in Client : call[o] # [kind |-> "start", inst |-> i]
                              /\ AbortStart(i)
    BY <1>4
  <2>2. UNCHANGED <<inst, task, history, calls, held>> /\ starting' = starting \ {i}
    BY <2>1 DEF AbortStart, stored
  <2>3. \A o \in Client : InTx(o, "start") => call[o].inst \in starting'
    BY <1>2, <2>1, <2>2
  <2>4. QED
    BY <1>1, <1>2, <2>2, <2>3, QueueKeepsLocked, NobodyMoved
<1>5. CASE \E t \in TaskId, token \in Token : TaskUnlocked(t) /\ LeaseTask(t, token)
  <2>1. LockedTasksKept
    BY <1>5, QueueKeepsLocked
  <2>2. UNCHANGED <<inst, history, calls, starting>> /\ held \subseteq held'
    BY <1>5 DEF LeaseTask
  <2>3. QED
    BY <1>1, <1>2, <2>1, <2>2, NobodyMoved
<1>6. CASE \/ \E d \in Delivery : TaskUnlocked(d.task) /\ HeartbeatTask(d)
           \/ (\A t \in TaskId : Expired(t) => TaskUnlocked(t)) /\ ExpireLeases
           \/ Tick
  <2>1. LockedTasksKept
    BY <1>6, QueueKeepsLocked
  <2>2. UNCHANGED <<inst, history, calls, starting, held>>
    BY <1>6 DEF HeartbeatTask, ExpireLeases, Tick, volatile
  <2>3. QED
    BY <1>1, <1>2, <2>1, <2>2, NobodyMoved
<1>7. CASE \E d \in Delivery :
              /\ \A o \in Client : InTx(o, "complete") =>
                    d # [task |-> call[o].task, token |-> call[o].token]
              /\ ForgetDelivery(d)
  <2>1. UNCHANGED <<inst, task, history, calls, starting>>
    BY <1>7 DEF ForgetDelivery, stored
  <2>2. \A o \in Client : InTx(o, "complete") =>
           [task |-> call[o].task, token |-> call[o].token] \in held'
    BY <1>2, <1>7 DEF ForgetDelivery
  <2>3. QED
    BY <1>1, <1>2, <2>1, <2>2, QueueKeepsLocked, NobodyMoved
<1>8. QED
  BY <1>3, <1>4, <1>5, <1>6, <1>7 DEF Single


-----------------------------------------------------------------------------
(* Theorems.                                                               *)

\* With no transaction under way, the invariant holds.
LEMMA TxInitOK == TxInit => TxInv
<1> SUFFICES ASSUME TxInit PROVE TxInv
  OBVIOUS
<1>1. \A c \in Client : /\ pc[c] = "idle" /\ call[c] = NoCall /\ row[c] = NoRow
                        /\ old[c] = Unread /\ seq[c] = 0
  BY DEF TxInit
<1>2. TxTypeOK /\ Linked
  BY InitLinked DEF TxInit, TxTypeOK
<1>3. \A c \in Client : /\ InTx(c, "none") /\ ~InTx(c, "start") /\ ~InTx(c, "advance")
                        /\ ~InTx(c, "complete") /\ ~InTx(c, "fail")
  BY SMTT(30), <1>1 DEF InTx, NoCall
<1>4. calls = FailCalls(Client)
  BY <1>3 DEF TxInit, Init, FailCalls
<1>5. ASSUME NEW c \in Client PROVE Good(c)
  BY <1>1, <1>3 DEF Good, Standing, Decided, Refers, Reports, Fresh, Numbered
<1>6. AllApart
  BY <1>1, <1>3 DEF AllApart, Apart
<1>7. QED
  BY <1>2, <1>4, <1>5, <1>6 DEF TxInv

\* Every step of the transactions keeps the invariant and is a step of Kernel, or
\* one that Kernel does not see.
LEMMA TxNextOK == TxInv /\ [TxNext]_<<vars, txVars>> => [Next]_vars /\ TxInv'
<1> SUFFICES ASSUME TxInv, [TxNext]_<<vars, txVars>> PROVE [Next]_vars /\ TxInv'
  OBVIOUS
<1>1. CASE UNCHANGED <<vars, txVars>>
  <2>1. UNCHANGED <<history, calls, inst, task, starting, held>> /\ UNCHANGED txVars
    BY <1>1 DEF vars
  <2>2. LockedTasksKept
    BY <2>1, QueueKeepsLocked
  <2>3. \A o \in Client : /\ InTx(o, "start") => call[o].inst \in starting'
                          /\ InTx(o, "complete") =>
                                [task |-> call[o].task, token |-> call[o].token] \in held'
    BY <2>1 DEF TxInv, Good, Refers
  <2>4. [Next]_vars
    BY <1>1
  <2>5. QED
    BY <2>1, <2>2, <2>3, <2>4, NobodyMoved
<1>2. ASSUME NEW c \in Client, NEW i \in Instance, BeginStart(c, i) \/ BeginAdvance(c, i)
      PROVE  [Next]_vars /\ TxInv'
  BY <1>2, BeginStartStep, BeginAdvanceStep
<1>3. ASSUME NEW c \in Client, NEW d \in held,
             \/ BeginComplete(c, d)
             \/ \E retryable \in BOOLEAN, ticks \in Backoff : BeginFail(c, d, retryable, ticks)
      PROVE  [Next]_vars /\ TxInv'
  BY <1>3, BeginCompleteStep, BeginFailStep
<1>4. ASSUME NEW c \in Client, Statement(c) PROVE [Next]_vars /\ TxInv'
  BY <1>4, GetInstanceStep, SettleStep, NextSeqStep, AppendEventStep, CommitStep
     DEF Statement
<1>5. ASSUME NEW c \in Client, Rollback(c) PROVE [Next]_vars /\ TxInv'
  BY <1>5, RolledBack DEF Rollback
<1>6. CASE DeadlockDetected
  BY <1>5, <1>6 DEF DeadlockDetected
<1>7. CASE Single /\ UNCHANGED txVars
  BY <1>7, SingleStep
<1>8. QED
  BY <1>1, <1>2, <1>3, <1>4, <1>5, <1>6, <1>7 DEF TxNext

\* The engine's handlers are atomic on Postgres: for any number of connections,
\* what the transactions of StartInstance, Advance, OnTaskComplete and OnTaskFail
\* do a statement at a time, with rollbacks anywhere, is a behaviour of Kernel,
\* where each is one step.
THEOREM TransactionsAreAtomic == TxSpec => ImplementsKernel
<1>1. TxInit => TxInv /\ Init
  BY TxInitOK DEF TxInit
<1>2. TxInv /\ [TxNext]_<<vars, txVars>> => [Next]_vars /\ TxInv'
  BY TxNextOK
<1>3. QED
  BY <1>1, <1>2, PTL DEF TxSpec, ImplementsKernel, Spec

\* A row read FOR UPDATE is current until the transaction ends (ReadsAreCurrent).
THEOREM LocksHold == TxSpec => []ReadsAreCurrent
<1>1. TxInv => ReadsAreCurrent
  BY DEF TxInv, Good, Fresh, ReadsAreCurrent
<1>2. QED
  BY <1>1, TxInitOK, TxNextOK, PTL DEF TxSpec

\* The only event that ever takes a history seq from a handler is the start event,
\* which StartInstance writes without the instance lock (SeqLostOnlyToStart).
THEOREM SeqCollidesWithStart == TxSpec => []SeqLostOnlyToStart
<1>1. TxInv => SeqLostOnlyToStart
  BY DEF TxInv, Good, Numbered, SeqLostOnlyToStart
<1>2. QED
  BY <1>1, TxInitOK, TxNextOK, PTL DEF TxSpec

\* Transactions that wait for each other are the completion and the failure of one
\* task (DeadlockIsCompleteVersusFail): no other two handlers lock rows in opposite
\* orders, however many connections there are.
THEOREM DeadlockNeedsBothReports == TxSpec => []DeadlockIsCompleteVersusFail
<1>1. TxInv => DeadlockIsCompleteVersusFail
  BY CyclesAreReports
<1>2. QED
  BY <1>1, TxInitOK, TxNextOK, PTL DEF TxSpec

=============================================================================
