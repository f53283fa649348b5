------------------------------ MODULE Cluster -------------------------------
(***************************************************************************)
(* Replicas of the engine and the outbox they relay (cmd/engine/main.go):  *)
(* the publisher of Outbox runs in the replica that Leader made leader.    *)
(*                                                                         *)
(* A pass begins only while its process leads.  SIGTERM cancels the        *)
(* context, but a pass goes on: the sink does not look at the context, the *)
(* database does.  The lock is released before the process is gone, so the *)
(* last pass of a former leader may overlap with its successor's.          *)
(***************************************************************************)
EXTENDS Leader

CONSTANTS
    Record,     \* outbox ids
    Limit       \* records a pass takes

ASSUME ClusterAssumption ==
    /\ Record \subseteq Nat
    /\ Limit \in Nat \ {0}

VARIABLES
    row, pass, current, received,   \* Outbox's
    cut         \* auxiliary: records published and then, by that process, not marked

O == INSTANCE Outbox WITH Publisher <- Replica

outboxVars == <<row, pass, current, received>>

clusterVars == <<vars, outboxVars, cut>>

NoPass(r) == pass[r] = {} /\ current[r] = {}

-----------------------------------------------------------------------------
(* A process and its publisher.                                            *)

\* The publisher goes on while the process does.
Stays(r) ==
    /\ \/ Boot(r) /\ NoPass(r)
       \/ AcquireLeadership(r)
       \/ Release(r)
       \/ SessionEnds(r)
       \/ SessionLost(r)
    /\ UNCHANGED <<outboxVars, cut>>

Cancel(r) ==
    /\ Shutdown(r)
    /\ cut' = cut \cup current[r]
    /\ UNCHANGED outboxVars

Dies(r) ==
    /\ Crash(r)
    /\ pass' = [pass EXCEPT ![r] = {}]
    /\ current' = [current EXCEPT ![r] = {}]
    /\ cut' = cut \cup current[r]
    /\ UNCHANGED <<row, received>>

\* main has released the lock and returns.
Exit(r) ==
    /\ proc[r] = "down"
    /\ O!Crash(r)
    /\ cut' = cut \cup current[r]
    /\ UNCHANGED vars

-----------------------------------------------------------------------------
(* The publisher.                                                          *)

Leads(r) == proc[r] = "leader"

\* Mutant: every replica runs the publisher.
ListAnywhere(r) ==
    /\ O!UnsentOutbox(r)
    /\ UNCHANGED <<vars, cut>>

List(r) ==
    /\ Leads(r)
    /\ O!UnsentOutbox(r)
    /\ UNCHANGED <<vars, cut>>

Relay(r, rec) ==
    /\ O!Publish(r, rec)
    /\ cut' = IF Leads(r) THEN cut ELSE cut \cup {rec}
    /\ UNCHANGED vars

\* An update that was on its way when the context was cancelled may get through.
Mark(r, rec) ==
    /\ proc[r] \in {"leader", "resigning"}
    /\ O!MarkOutboxSent(r, rec)
    /\ UNCHANGED <<vars, cut>>

Skip(r, rec) ==
    /\ \/ O!PublishFails(r, rec) /\ UNCHANGED cut
       \/ O!MarkFails(r, rec) /\ cut' = cut \cup {rec}
    /\ UNCHANGED vars

Write(rec) ==
    /\ \/ O!EnqueueOutbox(rec)
       \/ O!EndTx(rec, "UNSENT")
       \/ O!EndTx(rec, "ROLLED_BACK")
    /\ UNCHANGED <<vars, cut>>

-----------------------------------------------------------------------------
ClusterInit == Init /\ O!Init /\ cut = {}

ClusterNext ==
    \/ \E r \in Replica :
          \/ Stays(r)
          \/ Cancel(r)
          \/ Dies(r)
          \/ Exit(r)
          \/ List(r)
          \/ \E rec \in Record : Relay(r, rec) \/ Mark(r, rec) \/ Skip(r, rec)
    \/ \E rec \in Record : Write(rec)

ClusterSpec == ClusterInit /\ [][ClusterNext]_clusterVars

\* What is down is restarted and what boots or shuts down gets through; Postgres
\* notices a dead session; the publisher of a leader ticks, and neither the sink
\* nor the update fails, nor does the process die or resign, at every try.
FairClusterSpec ==
    /\ ClusterSpec
    /\ \A r \in Replica :
          /\ SF_clusterVars(Stays(r) /\ AcquireLeadership(r))
          /\ WF_clusterVars(Stays(r) /\ (Boot(r) \/ Release(r)))
          /\ WF_clusterVars(Stays(r) /\ SessionEnds(r))
          /\ WF_clusterVars(Exit(r))
    /\ SF_clusterVars(\E r \in Replica : List(r))
    /\ \A rec \in Record : /\ SF_clusterVars(\E r \in Replica : Leads(r) /\ Relay(r, rec))
                           /\ SF_clusterVars(\E r \in Replica : Leads(r) /\ Mark(r, rec))

-----------------------------------------------------------------------------
(* What the cluster promises.                                              *)

\* The sink learns only what is true: no record of a transaction that is open
\* or was rolled back is published, whoever leads.
PublishedIsCommitted == O!PublishedIsCommitted

\* At least once: a record is marked sent only after it has reached the sink,
\* whatever fails in between and however the passes of two leaders overlap.
SentIsPublished == O!SentIsPublished

\* Publishing twice is always owed to something: as long as no session was lost, a
\* leader publishes a record again only when an earlier publication of it was cut
\* off from its MarkOutboxSent by a failure, a shutdown or a crash.  Not so a
\* former leader: what its last pass has listed it may publish although its
\* successor has sent it.
RepublishedOnlyIfCut ==
    [][\A r \in Replica, rec \in Record :
          /\ Relay(r, rec)
          /\ Leads(r) /\ losses = 0 /\ rec \in received
          => rec \in cut]_clusterVars

\* As long as there is a leader again and again, every committed record reaches the
\* sink and is marked sent, although ids are committed out of order, leaders come
\* and go in mid-pass and a record may fail many times.
EveryRecordSent ==
    []<>(Leading # {}) =>
        \A rec \in Record : row[rec] = "UNSENT" ~> row[rec] = "SENT"

=============================================================================
