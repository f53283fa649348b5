------------------------------ MODULE Validate ------------------------------
(***************************************************************************)
(* Definition.Validate and reachesEnd (model/definition.go): the checks a  *)
(* document passes before it is registered, the last of them a breadth-    *)
(* first search for an end step.                                           *)
(*                                                                         *)
(* Only whether Validate returns an error is kept, not which one, so the   *)
(* checks before the search are one step.                                  *)
(***************************************************************************)
EXTENDS Definition, Sequences

CONSTANT Document   \* the documents that may be submitted

VARIABLES
    doc,        \* the document under validation
    seen,       \* steps the search has expanded
    queue,      \* steps it still has to look at
    verdict     \* "pending", "searching", "accepted" or "rejected"

vars == <<doc, seen, queue, verdict>>

\* A document lists its steps; step n has the id doc.ids[n].
Ids(d) == {d.ids[n] : n \in DOMAIN d.ids}

\* The map Validate builds from the list.
StepMap(d) ==
    [id \in Ids(d) |-> d.steps[CHOOSE n \in DOMAIN d.ids : d.ids[n] = id]]

Def(d) == [initial |-> d.initial, steps |-> StepMap(d)]

Unique(d) == \A m, n \in DOMAIN d.ids : d.ids[m] = d.ids[n] => m = n

\* Everything before the search.
Structured(d) ==
    /\ d.name # NoName
    /\ d.version >= 1
    /\ d.ids # <<>>
    /\ NoStep \notin Ids(d)
    /\ Unique(d)
    /\ d.initial \in Ids(d)
    /\ \A id \in Ids(d) : /\ FieldsPresent(StepMap(d)[id])
                          /\ RefsExist(StepMap(d), StepMap(d)[id])

\* A successor joins the queue unless it is absent or already expanded.
Push(q, id, done) ==
    IF id # NoStep /\ id \notin done THEN Append(q, id) ELSE q

\* Mutant: the search follows next only.
PushNext(q, step, done) == Push(q, step.next, done)

PushSuccessors(q, step, done) ==
    Push(Push(q, step.next, done), step.timeoutNext, done)

-----------------------------------------------------------------------------
Init ==
    /\ doc \in Document
    /\ seen = {}
    /\ queue = <<>>
    /\ verdict = "pending"

CheckStructure ==
    /\ verdict = "pending"
    /\ \/ /\ Structured(doc)
          /\ verdict' = "searching"
          /\ queue' = <<doc.initial>>
       \/ /\ ~Structured(doc)
          /\ verdict' = "rejected"
          /\ UNCHANGED queue
    /\ UNCHANGED <<doc, seen>>

\* Mutant: the loop continues before it has dequeued the step.
SkipKeepsQueue ==
    /\ verdict = "searching"
    /\ queue # <<>>
    /\ Head(queue) \in seen
    /\ UNCHANGED vars

SkipSeen ==
    /\ verdict = "searching"
    /\ queue # <<>>
    /\ Head(queue) \in seen
    /\ queue' = Tail(queue)
    /\ UNCHANGED <<doc, seen, verdict>>

FoundEnd ==
    /\ verdict = "searching"
    /\ queue # <<>>
    /\ Head(queue) \notin seen
    /\ StepMap(doc)[Head(queue)].type = "end"
    /\ seen' = seen \cup {Head(queue)}
    /\ queue' = Tail(queue)
    /\ verdict' = "accepted"
    /\ UNCHANGED doc

Expand ==
    /\ verdict = "searching"
    /\ queue # <<>>
    /\ Head(queue) \notin seen
    /\ StepMap(doc)[Head(queue)].type # "end"
    /\ seen' = seen \cup {Head(queue)}
    /\ queue' = PushSuccessors(Tail(queue), StepMap(doc)[Head(queue)], seen')
    /\ UNCHANGED <<doc, verdict>>

Exhausted ==
    /\ verdict = "searching"
    /\ queue = <<>>
    /\ verdict' = "rejected"
    /\ UNCHANGED <<doc, seen, queue>>

Next == CheckStructure \/ SkipSeen \/ FoundEnd \/ Expand \/ Exhausted

Spec == Init /\ [][Next]_vars

\* Validate is a loop that nothing interrupts.
FairSpec == Spec /\ WF_vars(Next)

-----------------------------------------------------------------------------
(* What Validate promises.                                                 *)

\* The search stays inside the document: it only ever looks up steps that
\* exist, each expanded at most once, and the verdict is one of four.
TypeOK ==
    /\ doc \in Document
    /\ seen \subseteq Ids(doc)
    /\ queue \in Seq(Ids(doc))
    /\ verdict \in {"pending", "searching", "accepted", "rejected"}

\* Validate accepts exactly the well-formed documents: the breadth-first search
\* decides whether every set closed under next/timeout_next that holds initial
\* holds an end step, on cyclic graphs and shared successors too.
VerdictCorrect ==
    LET good == Structured(doc) /\ ReachesEnd(Def(doc))
    IN  /\ verdict = "accepted" => good
        /\ verdict = "rejected" => ~good

\* Validate returns on every document, cyclic ones included.
Terminates == <>(verdict \in {"accepted", "rejected"})

=============================================================================
