------------------------------- MODULE Outbox -------------------------------
(***************************************************************************)
(* The publisher side of the transactional outbox (engine/outbox.go and    *)
(* the outbox table of the stores): transactions insert records, and the   *)
(* publisher relays what they have committed to a sink.                    *)
(*                                                                         *)
(* Postgres draws a record's id when it is inserted, not when it is        *)
(* committed: records become visible out of id order, and ids of           *)
(* transactions that roll back are never seen.                             *)
(***************************************************************************)
EXTENDS Naturals, FiniteSets

CONSTANTS
    Record,     \* outbox ids
    Publisher,  \* processes that run the publisher
    Limit       \* records a pass takes

VARIABLES
    row,        \* outbox
    pass,       \* the records each publisher has listed and not yet taken
    current,    \* the record it has published and not yet marked, if any
    received    \* the records that reached the sink

vars == <<row, pass, current, received>>

-----------------------------------------------------------------------------
(* The transactions that write the outbox.                                 *)

\* EnqueueOutbox, in a transaction that is still open.
EnqueueOutbox(r) ==
    /\ \A q \in Record : row[q] # "NONE" <=> q < r
    /\ row' = [row EXCEPT ![r] = "OPEN"]
    /\ UNCHANGED <<pass, current, received>>

EndTx(r, status) ==
    /\ row[r] = "OPEN"
    /\ row' = [row EXCEPT ![r] = status]
    /\ UNCHANGED <<pass, current, received>>

-----------------------------------------------------------------------------
(* RunOnce.                                                                *)

\* Mutant: only the records after the last sent.
UnsentAfterLast ==
    {r \in Record : row[r] = "UNSENT" /\ \A q \in Record : row[q] = "SENT" => q < r}

Unsent == {r \in Record : row[r] = "UNSENT"}

\* The first records in id order, up to the limit.
First(S) == {r \in S : Cardinality({q \in S : q < r}) < Limit}

UnsentOutbox(p) ==
    /\ pass[p] = {} /\ current[p] = {}
    /\ Unsent # {}
    /\ pass' = [pass EXCEPT ![p] = First(Unsent)]
    /\ UNCHANGED <<row, current, received>>

\* The record whose turn it is.
Turn(p, r) ==
    /\ current[p] = {}
    /\ r \in pass[p]
    /\ \A q \in pass[p] : r <= q

Publish(p, r) ==
    /\ Turn(p, r)
    /\ pass' = [pass EXCEPT ![p] = pass[p] \ {r}]
    /\ current' = [current EXCEPT ![p] = {r}]
    /\ received' = received \cup {r}
    /\ UNCHANGED row

\* Mutant: the record is marked all the same.
PublishFailsMarked(p, r) ==
    /\ Turn(p, r)
    /\ pass' = [pass EXCEPT ![p] = pass[p] \ {r}]
    /\ row' = [row EXCEPT ![r] = "SENT"]
    /\ UNCHANGED <<current, received>>

\* The sink fails: the record is left for the next pass.
PublishFails(p, r) ==
    /\ Turn(p, r)
    /\ pass' = [pass EXCEPT ![p] = pass[p] \ {r}]
    /\ UNCHANGED <<row, current, received>>

MarkOutboxSent(p, r) ==
    /\ r \in current[p]
    /\ row' = [row EXCEPT ![r] = "SENT"]
    /\ current' = [current EXCEPT ![p] = {}]
    /\ UNCHANGED <<pass, received>>

MarkFails(p, r) ==
    /\ r \in current[p]
    /\ current' = [current EXCEPT ![p] = {}]
    /\ UNCHANGED <<row, pass, received>>

\* The process dies in mid-pass.
Crash(p) ==
    /\ pass[p] # {} \/ current[p] # {}
    /\ pass' = [pass EXCEPT ![p] = {}]
    /\ current' = [current EXCEPT ![p] = {}]
    /\ UNCHANGED <<row, received>>

-----------------------------------------------------------------------------
Init ==
    /\ row      = [r \in Record |-> "NONE"]
    /\ pass     = [p \in Publisher |-> {}]
    /\ current  = [p \in Publisher |-> {}]
    /\ received = {}

Next ==
    \/ \E r \in Record : \/ EnqueueOutbox(r)
                         \/ EndTx(r, "UNSENT")
                         \/ EndTx(r, "ROLLED_BACK")
    \/ \E p \in Publisher :
          \/ UnsentOutbox(p)
          \/ \E r \in Record : \/ Publish(p, r)
                               \/ PublishFails(p, r)
                               \/ MarkOutboxSent(p, r)
                               \/ MarkFails(p, r)
          \/ Crash(p)

Spec == Init /\ [][Next]_vars

-----------------------------------------------------------------------------
(* What the publisher promises.                                            *)

\* Rows, passes and the sink keep their shape, and a pass holds at most Limit
\* records.
TypeOK ==
    /\ row \in [Record -> {"NONE", "OPEN", "ROLLED_BACK", "UNSENT", "SENT"}]
    /\ \A p \in Publisher :
          /\ pass[p] \subseteq Record
          /\ Cardinality(pass[p]) <= Limit
          /\ current[p] \subseteq Record
    /\ received \subseteq Record

\* The sink learns only what is true: no record of a transaction that is open
\* or was rolled back is published.
PublishedIsCommitted ==
    \A r \in received : row[r] \in {"UNSENT", "SENT"}

\* At least once: a record is marked sent only after it has reached the sink,
\* whatever fails in between and however many publishers overlap.
SentIsPublished == \A r \in Record : row[r] = "SENT" => r \in received

=============================================================================
