----------------------------- MODULE MCValidate -----------------------------
(***************************************************************************)
(* Documents for checking Validate: every graph on three steps whose edges *)
(* are next and timeout_next, and small documents that break one rule.     *)
(***************************************************************************)
EXTENDS Validate

End == [type |-> "end", activity |-> NoName, retry |-> NoRetry,
        signal |-> NoName, timeoutNext |-> NoStep, timeoutAfter |-> 0,
        sleepFor |-> 0, next |-> NoStep]

Wait(next, timeoutNext) ==
    [End EXCEPT !.type = "wait_signal", !.signal = "ok", !.next = next,
                !.timeoutNext = timeoutNext, !.timeoutAfter = 1]

Doc(initial, ids, steps) ==
    [name |-> "flow", version |-> 1, initial |-> initial, ids |-> ids,
     steps |-> steps]

ThreeIds == {"a", "b", "c"}

Node == {End} \cup {Wait(n, t) : n \in ThreeIds, t \in ThreeIds \cup {NoStep}}

Graphs ==
    {Doc("a", <<"a", "b", "c">>, <<s, t, u>>) : s \in Node, t \in Node, u \in Node}

\* One step of any shape, with an end step under an id that may clash.
Shapes ==
    {[End EXCEPT !.type = type, !.activity = name, !.signal = name,
                 !.retry = retry, !.next = next, !.timeoutNext = timeoutNext,
                 !.timeoutAfter = ticks, !.sleepFor = ticks] :
        type \in StepType \cup {"other"}, name \in {NoName, "ok"},
        retry \in {NoRetry, 0, 1}, next \in {NoStep, "b", "z"},
        timeoutNext \in {NoStep, "b"}, ticks \in {-1, 0, 1}}

Malformed ==
    {Doc("a", <<"a", "b">>, <<s, End>>) : s \in Shapes}
        \cup {Doc(i, <<x, y>>, <<Wait("a", "a"), End>>) :
                i \in {NoStep, "a", "z"}, x \in {NoStep, "a"}, y \in {"a", "b"}}
        \cup {Doc("a", <<>>, <<>>)}
        \cup {[Doc("a", <<"a">>, <<End>>) EXCEPT !.name = n, !.version = v] :
                n \in {NoName, "flow"}, v \in {0, 1}}

AllDocuments == Graphs \cup Malformed

=============================================================================
