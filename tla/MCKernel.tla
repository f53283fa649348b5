------------------------------ MODULE MCKernel ------------------------------
(***************************************************************************)
(* Definitions for model checking the kernel.  One tick stands for a       *)
(* timeout, a sleep, a lease or a backoff: only the order in which they    *)
(* run out matters.                                                        *)
(***************************************************************************)
EXTENDS Refinement, TLC

End == [type |-> "end", activity |-> NoName, retry |-> NoRetry,
        signal |-> NoName, timeoutNext |-> NoStep, timeoutAfter |-> 0,
        sleepFor |-> 0, next |-> NoStep]

Activity(retry, next) ==
    [End EXCEPT !.type = "activity", !.activity = "ok", !.retry = retry,
                !.next = next]

WaitSignal(next, after, timeoutNext) ==
    [End EXCEPT !.type = "wait_signal", !.signal = "ok", !.next = next,
                !.timeoutAfter = after, !.timeoutNext = timeoutNext]

SleepUntil(ticks, next) ==
    [End EXCEPT !.type = "sleep_until", !.sleepFor = ticks, !.next = next]

\* workflows/order_approval.json, with one attempt for each activity.
OrderDef ==
    [initial |-> "reserve",
     steps |-> "reserve"  :> Activity(1, "approval") @@
               "approval" :> WaitSignal("capture", 1, "cancel") @@
               "capture"  :> Activity(1, "done") @@
               "cancel"   :> Activity(1, "done") @@
               "done"     :> End]

OrderSteps == DOMAIN OrderDef.steps

\* A review loop: work, wait for a request to rework it, sleep, work again.  When
\* no request comes in time, the work is held until it is signed off.
LoopDef ==
    [initial |-> "work",
     steps |-> "work"   :> Activity(1, "review") @@
               "review" :> WaitSignal("nap", 1, "hold") @@
               "nap"    :> SleepUntil(1, "work") @@
               "hold"   :> WaitSignal("done", 0, NoStep) @@
               "done"   :> End]

LoopSteps == DOMAIN LoopDef.steps

\* One activity and one wait with a timeout.
ShortDef ==
    [initial |-> "work",
     steps |-> "work"   :> Activity(2, "review") @@
               "review" :> WaitSignal("done", 1, "lapsed") @@
               "done"   :> End @@
               "lapsed" :> End]

ShortSteps == DOMAIN ShortDef.steps

\* One wait that never times out.
GateDef ==
    [initial |-> "gate",
     steps |-> "gate" :> WaitSignal("done", 0, NoStep) @@ "done" :> End]

GateSteps == DOMAIN GateDef.steps

Symmetry == Permutations(Token) \cup Permutations(Loop)

=============================================================================
