------------------------------ MODULE Workflow ------------------------------
(***************************************************************************)
(* What the kernel promises a caller who sees only instances and signals:  *)
(* an instance walks the graph of its definition, one step at a time, and  *)
(* each signal it acts on is acted on once.  Tasks, leases, retries,       *)
(* timers, histories, crashes and concurrent handlers are not visible.     *)
(***************************************************************************)
EXTENDS Definition

CONSTANTS Def, Instance, Name, SignalId

VARIABLES
    at,         \* the status and the current step of each instance
    inbox       \* the signals that arrived, pending or consumed

vars == <<at, inbox>>

Nowhere == [status |-> "ABSENT"]

At(status, step) == [status |-> status, step |-> step]

StepAt(i) == Def.steps[at[i].step]

Init ==
    /\ at    = [i \in Instance |-> Nowhere]
    /\ inbox = [s \in SignalId |-> Nowhere]

Start(i) ==
    /\ at[i] = Nowhere
    /\ at' = [at EXCEPT ![i] = At("RUNNABLE", Def.initial)]
    /\ UNCHANGED inbox

\* Work, a wait or a sleep begins.
Begin(i) ==
    /\ at[i].status = "RUNNABLE"
    /\ StepAt(i).type # "end"
    /\ at' = [at EXCEPT ![i] = At("WAITING", at[i].step)]
    /\ UNCHANGED inbox

\* The activity is done, or the sleep is over.
Complete(i) ==
    /\ at[i].status = "WAITING"
    /\ StepAt(i).type \in {"activity", "sleep_until"}
    /\ at' = [at EXCEPT ![i] = At("RUNNABLE", StepAt(i).next)]
    /\ UNCHANGED inbox

TimeOut(i) ==
    /\ at[i].status = "WAITING"
    /\ StepAt(i).type = "wait_signal"
    /\ StepAt(i).timeoutAfter > 0
    /\ at' = [at EXCEPT ![i] = At("RUNNABLE", StepAt(i).timeoutNext)]
    /\ UNCHANGED inbox

\* The signals a step at which instance i waits could act on.
Waiting(i) ==
    {s \in SignalId : /\ inbox[s].status = "PENDING"
                      /\ inbox[s].inst = i
                      /\ inbox[s].name = StepAt(i).signal}

\* Of the signals that have arrived, before or after the wait began, under the
\* name the step waits for, the oldest is used up.
Act(i) ==
    /\ at[i].status \in {"RUNNABLE", "WAITING"}
    /\ StepAt(i).type = "wait_signal"
    /\ \E s \in Waiting(i) :
          /\ \A r \in Waiting(i) : s <= r
          /\ inbox' = [inbox EXCEPT ![s].status = "CONSUMED"]
    /\ at' = [at EXCEPT ![i] = At("RUNNABLE", StepAt(i).next)]

Succeed(i) ==
    /\ at[i].status = "RUNNABLE"
    /\ StepAt(i).type = "end"
    /\ at' = [at EXCEPT ![i] = At("SUCCEEDED", at[i].step)]
    /\ UNCHANGED inbox

Fail(i) ==
    /\ at[i].status = "WAITING"
    /\ StepAt(i).type = "activity"
    /\ at' = [at EXCEPT ![i] = At("FAILED", at[i].step)]
    /\ UNCHANGED inbox

\* A signal arrives.  Signals are numbered by the time they bear, which need not
\* be the order in which they arrive.
Send(i, name, s) ==
    /\ at[i] # Nowhere
    /\ inbox[s] = Nowhere
    /\ inbox' = [inbox EXCEPT ![s] = [status |-> "PENDING",
                                      inst   |-> i,
                                      name   |-> name]]
    /\ UNCHANGED at

Next ==
    \E i \in Instance :
        \/ Start(i)
        \/ Begin(i)
        \/ Complete(i)
        \/ TimeOut(i)
        \/ Act(i)
        \/ Succeed(i)
        \/ Fail(i)
        \/ \E name \in Name, s \in SignalId : Send(i, name, s)

Spec == Init /\ [][Next]_vars

=============================================================================
