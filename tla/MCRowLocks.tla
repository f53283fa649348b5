----------------------------- MODULE MCRowLocks -----------------------------
(***************************************************************************)
(* Definitions for model checking the row locks: one activity, tried       *)
(* twice, and an end step.                                                 *)
(***************************************************************************)
EXTENDS RowLocks, TLC

Done == [type |-> "end", activity |-> NoName, retry |-> NoRetry,
         signal |-> NoName, timeoutNext |-> NoStep, timeoutAfter |-> 0,
         sleepFor |-> 0, next |-> NoStep]

TaskDef ==
    [initial |-> "work",
     steps |-> "work" :> [Done EXCEPT !.type = "activity", !.activity = "ok",
                                      !.retry = 2, !.next = "done"] @@
               "done" :> Done]

\* Clients and tokens are interchangeable.
ClientTokenSymmetry == Permutations(Client) \cup Permutations(Token)

TaskSteps == DOMAIN TaskDef.steps

=============================================================================
