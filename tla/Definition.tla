----------------------------- MODULE Definition -----------------------------
(***************************************************************************)
(* Workflow definitions (model/definition.go): the step graph an instance  *)
(* walks, and what Validate demands of it before it is registered.         *)
(*                                                                         *)
(* A definition is a record [initial, steps]; steps maps a step id to its  *)
(* step.  Durations are numbers of clock ticks.  Names and payloads that   *)
(* no transition looks at (workflow name, activity type, input) are left   *)
(* out.  The empty string stands for a field the JSON document omits.      *)
(***************************************************************************)
EXTENDS Integers

NoName == ""
NoStep == ""

\* A step whose document has no "retry" object (a nil *RetryPolicy).
NoRetry == -1

StepType == {"activity", "wait_signal", "sleep_until", "end"}

\* The ids are the keys of the map Validate builds, so they are unique; retry
\* is the policy's max_attempts.
Step(ids, names) ==
    [type         : StepType,
     activity     : names \cup {NoName},
     retry        : Int,
     signal       : names \cup {NoName},
     timeoutNext  : ids \cup {NoStep},
     timeoutAfter : Int,
     sleepFor     : Int,
     next         : ids \cup {NoStep}]

\* The fields each step type must carry.
FieldsPresent(s) ==
    /\ s.type \in StepType
    /\ s.type # "end" => s.next # NoStep
    /\ s.type = "activity" => /\ s.activity # NoName
                              /\ s.retry # NoRetry => s.retry >= 1
    /\ s.type = "wait_signal" => /\ s.signal # NoName
                                 /\ s.timeoutAfter > 0 => s.timeoutNext # NoStep
    /\ s.type = "sleep_until" => s.sleepFor > 0

\* Every successor a step names is a step of the definition.
RefsExist(steps, s) ==
    {s.next, s.timeoutNext} \ {NoStep} \subseteq DOMAIN steps

Successors(steps, id) == {steps[id].next, steps[id].timeoutNext} \ {NoStep}

\* Closed under the edges a run may follow.
Closed(steps, S) == \A id \in S : Successors(steps, id) \subseteq S

\* "At least one end step is reachable from initial": no set of steps that
\* holds initial and is closed under next/timeout_next avoids every end step.
ReachesEnd(def) ==
    \A S \in SUBSET DOMAIN def.steps :
        def.initial \in S /\ Closed(def.steps, S)
            => \E id \in S : def.steps[id].type = "end"

\* What Validate accepts.
WellFormed(def) ==
    /\ NoStep \notin DOMAIN def.steps
    /\ def.initial \in DOMAIN def.steps
    /\ \A id \in DOMAIN def.steps :
          FieldsPresent(def.steps[id]) /\ RefsExist(def.steps, def.steps[id])
    /\ ReachesEnd(def)

DefaultMaxAttempts == 3

\* The attempt budget of a step: its own policy's, or the default policy's.
EffectiveRetry(s) == IF s.retry = NoRetry THEN DefaultMaxAttempts ELSE s.retry

=============================================================================
