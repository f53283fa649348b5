----------------------------- MODULE Refinement -----------------------------
(***************************************************************************)
(* The kernel implements Workflow: the mapping forgets all of an instance  *)
(* row but its status and its step, all of a signal but what the caller    *)
(* gave and whether it is consumed, and all other tables.                  *)
(***************************************************************************)
EXTENDS KernelProperties

WhereIs(i) ==
    IF Exists(inst[i])
      THEN [status |-> inst[i].status, step |-> inst[i].step]
      ELSE NoRow

Where == [i \in Instance |-> WhereIs(i)]

Arrived(s) ==
    IF Exists(signal[s])
      THEN [status |-> signal[s].status, inst |-> signal[s].inst,
            name |-> signal[s].name]
      ELSE NoRow

Arrivals == [s \in SignalId |-> Arrived(s)]

W == INSTANCE Workflow WITH at <- Where, inbox <- Arrivals

\* Whatever the workers, the loops and the callers of the API do, and wherever
\* they are cut short, an instance walks its definition: it leaves an activity
\* or a sleep for its next step, a wait for its next step by using up the oldest
\* signal of its name that has arrived, or for its timeout step if it has a timeout; it succeeds
\* only at an end step, fails only in an activity, and stays where it ended.
ImplementsWorkflow == W!Spec

=============================================================================
