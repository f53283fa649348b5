---------------------------- MODULE ProcessProofs ---------------------------
(***************************************************************************)
(* Proofs about the processes around the database.                         *)
(*                                                                         *)
(* Leader election and the relay that the leader runs, for any finite set  *)
(* of replicas and any set of outbox records: at most one replica more     *)
(* leads than there were sessions lost under a live leader, the relay      *)
(* delivers at least once, and it delivers a record again only when a      *)
(* publication was cut off from its mark.                                  *)
(*                                                                         *)
(* The worker, for any number of tasks, activity types, slots and attempts *)
(* and any length of the lease: no more handlers run than there are slots, *)
(* and the heartbeats keep the lease of a running handler.                 *)
(***************************************************************************)
EXTENDS Cluster, Worker, FiniteSetTheorems, TLAPS

\* A leaf is left to Zenon unless it names the SMT solver.
USE ZenonT(30)

-----------------------------------------------------------------------------
(* Leaders.  The inductive invariant counts the leaders that do not hold   *)
(* the lock.                                                               *)

Orphans == Leading \ {lock}

OrphansCounted == IsFiniteSet(Orphans) /\ Cardinality(Orphans) <= losses

LeaderInv == TypeOK /\ OrphansCounted

\* A set of replicas is finite, and a subset of it has no more elements.
LEMMA SmallerSet ==
    ASSUME NEW S \in SUBSET Replica, NEW T \in SUBSET S
    PROVE  /\ IsFiniteSet(S) /\ IsFiniteSet(T)
           /\ Cardinality(S) \in Nat /\ Cardinality(T) \in Nat
           /\ Cardinality(T) <= Cardinality(S)
<1>1. IsFiniteSet(S)
  BY LeaderAssumption, FS_Subset
<1>2. IsFiniteSet(T) /\ Cardinality(T) <= Cardinality(S)
  BY <1>1, FS_Subset
<1> QED BY <1>1, <1>2, FS_CardinalityType

\* A step that adds no leader without the lock keeps the count.
LEMMA FewerOrphans ==
    ASSUME LeaderInv, TypeOK', Orphans' \subseteq Orphans, losses' = losses
    PROVE  LeaderInv'
<1>1. Orphans \in SUBSET Replica
  BY DEF Orphans, Leading
<1>2. /\ IsFiniteSet(Orphans')
      /\ Cardinality(Orphans') \in Nat /\ Cardinality(Orphans) \in Nat
      /\ Cardinality(Orphans') <= Cardinality(Orphans)
  BY <1>1, SmallerSet
<1>3. Cardinality(Orphans) <= losses /\ losses \in Nat
  BY DEF LeaderInv, OrphansCounted, TypeOK
<1> QED BY SMTT(30), <1>2, <1>3 DEF LeaderInv, OrphansCounted

\* Every step but SessionLost adds no orphan: a replica becomes leader only by
\* taking the lock, and the lock is freed only with its leader.
LEMMA NoNewOrphan ==
    ASSUME LeaderInv, NEW r \in Replica,
           \/ Boot(r) \/ AcquireLeadership(r) \/ Shutdown(r) \/ Release(r)
           \/ Crash(r) \/ SessionEnds(r)
    PROVE  TypeOK' /\ Orphans' \subseteq Orphans /\ losses' = losses
<1> USE LeaderAssumption DEF LeaderInv, TypeOK, State, Orphans, Leading
<1>1. CASE Boot(r)
  BY <1>1 DEF Boot
<1>2. CASE AcquireLeadership(r)
  BY <1>2 DEF AcquireLeadership, TryAdvisoryLock
<1>3. CASE Shutdown(r)
  BY <1>3 DEF Shutdown
<1>4. CASE Release(r)
  BY <1>4 DEF Release, Freed
<1>5. CASE Crash(r)
  BY <1>5 DEF Crash, Freed
<1>6. CASE SessionEnds(r)
  BY <1>6 DEF SessionEnds
<1> QED BY <1>1, <1>2, <1>3, <1>4, <1>5, <1>6

\* SessionLost adds one orphan and counts it.
LEMMA LossCounted ==
    ASSUME LeaderInv, NEW r \in Replica, SessionLost(r)
    PROVE  LeaderInv'
<1>1. TypeOK' /\ losses' = losses + 1 /\ losses \in Nat
  BY SMTT(30), LeaderAssumption DEF LeaderInv, TypeOK, SessionLost
<1>2. Orphans' = Orphans \cup {r} /\ Orphans \in SUBSET Replica
  BY LeaderAssumption DEF SessionLost, Orphans, Leading
<1>3. IsFiniteSet(Orphans) /\ Cardinality(Orphans) <= losses
  BY DEF LeaderInv, OrphansCounted
<1>4. /\ IsFiniteSet(Orphans \cup {r})
      /\ \/ Cardinality(Orphans \cup {r}) = Cardinality(Orphans)
         \/ Cardinality(Orphans \cup {r}) = Cardinality(Orphans) + 1
  BY <1>3, FS_AddElement
<1>5. Cardinality(Orphans) \in Nat
  BY <1>3, FS_CardinalityType
<1>6. Cardinality(Orphans \cup {r}) <= losses + 1
  BY SMTT(30), <1>1, <1>3, <1>4, <1>5
<1> QED BY <1>1, <1>2, <1>4, <1>6 DEF LeaderInv, OrphansCounted

\* A replica that leads is an orphan or the holder of the lock.
LEMMA LeadersCounted == LeaderInv => LeadersAccounted
<1> SUFFICES ASSUME LeaderInv PROVE LeadersAccounted
  OBVIOUS
<1>1. IsFiniteSet(Orphans) /\ Cardinality(Orphans) <= losses /\ losses \in Nat
  BY DEF LeaderInv, OrphansCounted, TypeOK
<1>2. /\ IsFiniteSet(Orphans \cup {lock})
      /\ \/ Cardinality(Orphans \cup {lock}) = Cardinality(Orphans)
         \/ Cardinality(Orphans \cup {lock}) = Cardinality(Orphans) + 1
  BY <1>1, FS_AddElement
<1>3. Leading \subseteq Orphans \cup {lock}
  BY DEF Orphans
<1>4. /\ Cardinality(Leading) <= Cardinality(Orphans \cup {lock})
      /\ IsFiniteSet(Leading)
  BY <1>2, <1>3, FS_Subset
<1>5. /\ Cardinality(Leading) \in Nat
      /\ Cardinality(Orphans) \in Nat
  BY <1>1, <1>4, FS_CardinalityType
<1> QED BY SMTT(30), <1>1, <1>2, <1>4, <1>5 DEF LeadersAccounted

\* No replica leads before one has booted.
LEMMA InitCounted == Init => LeaderInv
<1> SUFFICES ASSUME Init PROVE LeaderInv
  OBVIOUS
<1>1. TypeOK /\ Orphans = {} /\ losses = 0
  BY LeaderAssumption DEF Init, TypeOK, State, Orphans, Leading
<1> QED BY SMTT(30), <1>1, FS_EmptySet DEF LeaderInv, OrphansCounted

\* Every step of Leader keeps the count.
LEMMA NextCounted == LeaderInv /\ [Next]_vars => LeaderInv'
<1> SUFFICES ASSUME LeaderInv, [Next]_vars PROVE LeaderInv'
  OBVIOUS
<1>1. CASE UNCHANGED vars
  BY <1>1 DEF vars, LeaderInv, TypeOK, OrphansCounted, Orphans, Leading
<1>2. CASE Next
  BY <1>2, NoNewOrphan, FewerOrphans, LossCounted DEF Next
<1> QED BY <1>1, <1>2

-----------------------------------------------------------------------------
(* The cluster is Leader and Outbox at work together.                      *)

RelayTypes ==
    /\ row \in [Record -> {"NONE", "OPEN", "ROLLED_BACK", "UNSENT", "SENT"}]
    /\ pass \in [Replica -> SUBSET Record]
    /\ current \in [Replica -> SUBSET Record]
    /\ received \subseteq Record

\* What a replica does is a step of Leader and a step of Outbox, or leaves one of
\* the two alone.
LEMMA ClusterSteps ==
    RelayTypes /\ [ClusterNext]_clusterVars => [Next]_vars /\ [O!Next]_(O!vars)
<1> SUFFICES ASSUME RelayTypes, [ClusterNext]_clusterVars
             PROVE  [Next]_vars /\ [O!Next]_(O!vars)
  OBVIOUS
<1>1. CASE UNCHANGED clusterVars
  BY <1>1 DEF clusterVars, outboxVars, O!vars
<1>2. ASSUME NEW r \in Replica, Stays(r) \/ Cancel(r) PROVE [Next]_vars /\ [O!Next]_(O!vars)
  BY <1>2 DEF Stays, Cancel, Next, outboxVars, O!vars
<1>3. ASSUME NEW r \in Replica, Dies(r) PROVE [Next]_vars /\ [O!Next]_(O!vars)
  <2>1. Next
    BY <1>3 DEF Dies, Next
  <2>2. CASE NoPass(r)
    <3>1. UNCHANGED <<row, received>> /\ pass' = [pass EXCEPT ![r] = {}]
          /\ current' = [current EXCEPT ![r] = {}]
      BY <1>3 DEF Dies
    <3>2. QED
      BY <2>1, <2>2, <3>1 DEF RelayTypes, NoPass, O!vars
  <2>3. CASE ~NoPass(r)
    <3>1. O!Crash(r)
      BY <1>3, <2>3 DEF Dies, NoPass, O!Crash
    <3>2. QED
      BY <2>1, <3>1 DEF O!Next
  <2>4. QED
    BY <2>2, <2>3
<1>4. ASSUME NEW r \in Replica, Exit(r) \/ List(r) PROVE [Next]_vars /\ [O!Next]_(O!vars)
  BY <1>4 DEF Exit, List, O!Next
<1>5. ASSUME NEW r \in Replica, NEW rec \in Record,
             Relay(r, rec) \/ Mark(r, rec) \/ Skip(r, rec)
      PROVE  [Next]_vars /\ [O!Next]_(O!vars)
  BY <1>5 DEF Relay, Mark, Skip, O!Next
<1>6. ASSUME NEW rec \in Record, Write(rec) PROVE [Next]_vars /\ [O!Next]_(O!vars)
  BY <1>6 DEF Write, O!Next
<1>7. QED
  BY <1>1, <1>2, <1>3, <1>4, <1>5, <1>6 DEF ClusterNext

-----------------------------------------------------------------------------
(* The relay, whoever runs it.                                             *)

Committed(rec) == row[rec] \in {"UNSENT", "SENT"}

\* A pass holds committed records, one of which it has published and not marked.
PassesOK ==
    \A r \in Replica :
       /\ \A rec \in pass[r] \cup current[r] : Committed(rec)
       /\ current[r] \subseteq received
       /\ pass[r] \cap current[r] = {}
       /\ \A a, b \in current[r] : a = b

RelayInv ==
    RelayTypes /\ PassesOK /\ O!PublishedIsCommitted /\ O!SentIsPublished

\* A record that is committed stays so, and no row is set back.
LEMMA RowsGo ==
    ASSUME RelayTypes, [O!Next]_(O!vars)
    PROVE  /\ row' \in [Record -> {"NONE", "OPEN", "ROLLED_BACK", "UNSENT", "SENT"}]
           /\ \A rec \in Record : Committed(rec) => Committed(rec)'
           /\ \A rec \in Record : row[rec] = "SENT" => row'[rec] = "SENT"
           /\ \A rec \in Record : row'[rec] = "SENT" /\ row[rec] # "SENT" =>
                 \E r \in Replica : rec \in current[r]
           /\ received \subseteq received'
<1> USE DEF RelayTypes, Committed
<1>1. CASE UNCHANGED O!vars
  BY <1>1 DEF O!vars
<1>2. ASSUME NEW rec \in Record, O!EnqueueOutbox(rec)
      PROVE  row[rec] = "NONE" /\ row' = [row EXCEPT ![rec] = "OPEN"] /\ received' = received
  BY SMTT(30), <1>2, ClusterAssumption DEF O!EnqueueOutbox
<1>3. ASSUME NEW rec \in Record, O!EndTx(rec, "UNSENT") \/ O!EndTx(rec, "ROLLED_BACK")
      PROVE  /\ row[rec] = "OPEN" /\ received' = received
             /\ \/ row' = [row EXCEPT ![rec] = "UNSENT"]
                \/ row' = [row EXCEPT ![rec] = "ROLLED_BACK"]
  BY <1>3 DEF O!EndTx
<1>4. ASSUME NEW r \in Replica,
             \/ O!UnsentOutbox(r) \/ O!Crash(r)
             \/ \E rec \in Record : O!Publish(r, rec) \/ O!PublishFails(r, rec) \/ O!MarkFails(r, rec)
      PROVE  row' = row /\ received \subseteq received'
  BY <1>4 DEF O!UnsentOutbox, O!Crash, O!Publish, O!PublishFails, O!MarkFails
<1>5. ASSUME NEW r \in Replica, NEW rec \in Record, O!MarkOutboxSent(r, rec)
      PROVE  rec \in current[r] /\ row' = [row EXCEPT ![rec] = "SENT"] /\ received' = received
  BY <1>5 DEF O!MarkOutboxSent
<1>6. QED
  BY SMTT(30), <1>1, <1>2, <1>3, <1>4, <1>5 DEF O!Next

\* Before the first record there is nothing to relay.
LEMMA InitRelay == O!Init => RelayInv
  BY DEF O!Init, RelayInv, RelayTypes, PassesOK, Committed, O!PublishedIsCommitted,
         O!SentIsPublished

\* Every step of the relay keeps its invariant.
LEMMA NextRelay == RelayInv /\ [O!Next]_(O!vars) => RelayInv'
<1> SUFFICES ASSUME RelayInv, [O!Next]_(O!vars) PROVE RelayInv'
  OBVIOUS
<1>1. /\ row' \in [Record -> {"NONE", "OPEN", "ROLLED_BACK", "UNSENT", "SENT"}]
      /\ \A rec \in Record : Committed(rec) => Committed(rec)'
      /\ \A rec \in Record : row'[rec] = "SENT" /\ row[rec] # "SENT" =>
            \E r \in Replica : rec \in current[r]
      /\ received \subseteq received'
  BY RowsGo DEF RelayInv
<1>2. CASE UNCHANGED <<pass, current, received>>
  BY <1>1, <1>2 DEF RelayInv, RelayTypes, PassesOK, Committed, O!PublishedIsCommitted,
                    O!SentIsPublished
<1>3. ASSUME NEW r \in Replica, NEW p \in SUBSET Record, NEW k \in SUBSET Record,
             pass' = [pass EXCEPT ![r] = p], current' = [current EXCEPT ![r] = k],
             \A rec \in p \cup k : Committed(rec), p \cap k = {},
             \A a, b \in k : a = b,
             received' = received \cup k
      PROVE  RelayInv'
  <2>1. RelayTypes'
    BY <1>1, <1>3 DEF RelayInv, RelayTypes
  <2>2. PassesOK'
    BY SMTT(30), <1>1, <1>3 DEF RelayInv, RelayTypes, PassesOK, Committed
  <2>3. O!PublishedIsCommitted'
    BY <1>1, <1>3 DEF RelayInv, RelayTypes, O!PublishedIsCommitted, Committed
  <2>4. O!SentIsPublished'
    BY <1>1, <1>3 DEF RelayInv, RelayTypes, PassesOK, O!SentIsPublished
  <2>5. QED
    BY <2>1, <2>2, <2>3, <2>4 DEF RelayInv
<1>4. CASE UNCHANGED O!vars
  BY <1>2, <1>4 DEF O!vars
<1>5. ASSUME NEW rec \in Record,
             O!EnqueueOutbox(rec) \/ O!EndTx(rec, "UNSENT") \/ O!EndTx(rec, "ROLLED_BACK")
      PROVE  RelayInv'
  BY <1>2, <1>5 DEF O!EnqueueOutbox, O!EndTx
<1>6. ASSUME NEW r \in Replica, O!UnsentOutbox(r) PROVE RelayInv'
  <2> DEFINE p == O!First(O!Unsent)
             k == {}
  <2>1. current' = [current EXCEPT ![r] = k] /\ received' = received \cup k
    BY <1>6 DEF O!UnsentOutbox, RelayInv, RelayTypes
  <2>2. p \in SUBSET Record /\ k \in SUBSET Record /\ \A rec \in p \cup k : Committed(rec)
    BY DEF O!First, O!Unsent, Committed
  <2>3. pass' = [pass EXCEPT ![r] = p] /\ p \cap k = {} /\ \A a, b \in k : a = b
    BY <1>6 DEF O!UnsentOutbox
  <2> HIDE DEF p, k
  <2>4. QED
    BY <1>3, <2>1, <2>2, <2>3
<1>7. ASSUME NEW r \in Replica, O!Crash(r) PROVE RelayInv'
  <2>1. received' = received \cup {}
    BY <1>7 DEF O!Crash
  <2>2. QED
    BY <1>3, <1>7, <2>1 DEF O!Crash
<1>8. ASSUME NEW r \in Replica, NEW rec \in Record, O!Publish(r, rec) PROVE RelayInv'
  <2> DEFINE p == pass[r] \ {rec}
             k == {rec}
  <2>1. rec \in pass[r] /\ pass[r] \subseteq Record /\ \A a \in pass[r] : Committed(a)
    BY <1>8 DEF O!Publish, O!Turn, RelayInv, RelayTypes, PassesOK
  <2>2. p \in SUBSET Record /\ k \in SUBSET Record /\ \A a \in p \cup k : Committed(a)
    BY <2>1
  <2>3. p \cap k = {} /\ \A a, b \in k : a = b
    OBVIOUS
  <2>4. /\ pass' = [pass EXCEPT ![r] = p] /\ current' = [current EXCEPT ![r] = k]
        /\ received' = received \cup k
    BY <1>8 DEF O!Publish
  <2> HIDE DEF p, k
  <2>5. QED
    BY <1>3, <2>2, <2>3, <2>4
<1>9. ASSUME NEW r \in Replica, NEW rec \in Record, O!PublishFails(r, rec) PROVE RelayInv'
  <2> DEFINE p == pass[r] \ {rec}
             k == {}
  <2>1. p \in SUBSET Record /\ k \in SUBSET Record /\ \A a \in p \cup k : Committed(a)
    BY DEF RelayInv, RelayTypes, PassesOK
  <2>2. p \cap k = {} /\ \A a, b \in k : a = b
    OBVIOUS
  <2>3. /\ pass' = [pass EXCEPT ![r] = p] /\ current' = [current EXCEPT ![r] = k]
        /\ received' = received \cup k
    BY <1>9 DEF O!PublishFails, O!Turn, RelayInv, RelayTypes
  <2> HIDE DEF p, k
  <2>4. QED
    BY <1>3, <2>1, <2>2, <2>3
<1>10. ASSUME NEW r \in Replica, NEW rec \in Record, O!MarkOutboxSent(r, rec) \/ O!MarkFails(r, rec)
       PROVE  RelayInv'
  <2> DEFINE p == pass[r]
             k == {}
  <2>1. p \in SUBSET Record /\ k \in SUBSET Record /\ \A a \in p \cup k : Committed(a)
    BY DEF RelayInv, RelayTypes, PassesOK
  <2>2. p \cap k = {} /\ \A a, b \in k : a = b
    OBVIOUS
  <2>3. /\ pass' = [pass EXCEPT ![r] = p] /\ current' = [current EXCEPT ![r] = k]
        /\ received' = received \cup k
    BY <1>10 DEF O!MarkOutboxSent, O!MarkFails, RelayInv, RelayTypes
  <2> HIDE DEF p, k
  <2>4. QED
    BY <1>3, <2>1, <2>2, <2>3
<1>11. QED
  BY <1>4, <1>5, <1>6, <1>7, <1>8, <1>9, <1>10 DEF O!Next

-----------------------------------------------------------------------------
(* Who runs it.                                                            *)

\* A process begins without a pass, and gets one only when it leads.
BeginsEmpty == \A r \in Replica : proc[r] \in {"booting", "standby"} => NoPass(r)

\* As long as no session was lost, who leads or resigns holds the lock, and what
\* was published and not cut off is in the leader's hands or marked for good.
Settled ==
    losses = 0 =>
       /\ \A r \in Replica : proc[r] \in {"leader", "resigning"} => lock = r
       /\ \A rec \in received \ cut :
             \/ \E r \in Replica : Leads(r) /\ rec \in current[r]
             \/ row[rec] = "SENT" /\ \A r \in Replica : Leads(r) => rec \notin pass[r]

ClusterInv == LeaderInv /\ RelayInv /\ BeginsEmpty /\ Settled

\* The cluster starts with nothing running.
LEMMA InitCluster == ClusterInit => ClusterInv
  BY InitCounted, InitRelay DEF ClusterInit, ClusterInv, Init, O!Init, BeginsEmpty, NoPass, Settled

\* Booting, electing, shutting down and dying keep what the relay relies on.
LEMMA ProcessKept ==
    ASSUME ClusterInv, NEW r \in Replica, Stays(r) \/ Cancel(r) \/ Dies(r) \/ Exit(r)
    PROVE  BeginsEmpty' /\ Settled'
<1> USE DEF LeaderInv, TypeOK, RelayInv, RelayTypes, Leads, NoPass
<1>1. CASE Boot(r) /\ NoPass(r) /\ UNCHANGED <<outboxVars, cut>>
  BY <1>1 DEF Boot, outboxVars, ClusterInv, BeginsEmpty, Settled
<1>2. CASE AcquireLeadership(r) /\ UNCHANGED <<outboxVars, cut>>
  <2>1. NoPass(r)
    BY <1>2 DEF AcquireLeadership, ClusterInv, BeginsEmpty
  <2>2. BeginsEmpty'
    BY <1>2, <2>1 DEF AcquireLeadership, TryAdvisoryLock, outboxVars, ClusterInv, BeginsEmpty
  <2>3. Settled'
    BY <1>2, <2>1, LeaderAssumption DEF AcquireLeadership, TryAdvisoryLock, outboxVars,
       ClusterInv, Settled
  <2>4. QED
    BY <2>2, <2>3
<1>3. CASE (Release(r) \/ SessionEnds(r) \/ SessionLost(r)) /\ UNCHANGED <<outboxVars, cut>>
  BY SMTT(30), <1>3, LeaderAssumption DEF Release, Freed, SessionEnds, SessionLost, outboxVars, ClusterInv,
     BeginsEmpty, Settled
<1>4. CASE Cancel(r)
  BY SMTT(30), <1>4 DEF Cancel, Shutdown, outboxVars, ClusterInv, BeginsEmpty, Settled
<1>5. CASE Dies(r)
  BY <1>5 DEF Dies, Crash, Freed, ClusterInv, BeginsEmpty, Settled
<1>6. CASE Exit(r)
  BY <1>6 DEF Exit, O!Crash, vars, ClusterInv, BeginsEmpty, Settled
<1>7. QED
  BY <1>1, <1>2, <1>3, <1>4, <1>5, <1>6 DEF Stays

\* So do the passes.
LEMMA PassKept ==
    ASSUME ClusterInv, NEW r \in Replica,
           \/ List(r)
           \/ \E rec \in Record : Relay(r, rec) \/ Mark(r, rec) \/ Skip(r, rec)
    PROVE  BeginsEmpty' /\ Settled'
<1> USE DEF RelayInv, RelayTypes, Leads, NoPass, vars, ClusterInv
<1>1. CASE List(r)
  <2>1. \A rec \in O!First(O!Unsent) : row[rec] = "UNSENT"
    BY DEF O!First, O!Unsent
  <2>2. QED
    BY <1>1, <2>1 DEF List, O!UnsentOutbox, BeginsEmpty, Settled
<1>2. ASSUME NEW rec \in Record, Relay(r, rec) PROVE BeginsEmpty' /\ Settled'
  BY SMTT(30), <1>2 DEF Relay, O!Publish, O!Turn, BeginsEmpty, Settled
<1>3. ASSUME NEW rec \in Record, Mark(r, rec) PROVE BeginsEmpty' /\ Settled'
  BY SMTT(30), <1>3 DEF Mark, O!MarkOutboxSent, BeginsEmpty, Settled, PassesOK
<1>4. ASSUME NEW rec \in Record, Skip(r, rec) PROVE BeginsEmpty' /\ Settled'
  BY SMTT(30), <1>4 DEF Skip, O!PublishFails, O!Turn, O!MarkFails, BeginsEmpty, Settled, PassesOK
<1>5. QED
  BY <1>1, <1>2, <1>3, <1>4

\* And the transactions that write records.
LEMMA WriteKept ==
    ASSUME ClusterInv, NEW rec \in Record, Write(rec)
    PROVE  BeginsEmpty' /\ Settled'
<1>1. UNCHANGED <<proc, lock, losses, pass, current, received, cut>>
  BY DEF Write, vars, O!EnqueueOutbox, O!EndTx
<1>2. \A a \in Record : row[a] = "SENT" => row'[a] = "SENT"
  <2>1. [O!Next]_(O!vars)
    BY DEF Write, O!Next
  <2>2. QED
    BY <2>1, RowsGo DEF ClusterInv, RelayInv
<1>3. QED
  BY <1>1, <1>2 DEF ClusterInv, RelayInv, RelayTypes, BeginsEmpty, NoPass, Settled, Leads

\* Every step of the cluster keeps the invariant.
LEMMA NextCluster == ClusterInv /\ [ClusterNext]_clusterVars => ClusterInv'
<1> SUFFICES ASSUME ClusterInv, [ClusterNext]_clusterVars PROVE ClusterInv'
  OBVIOUS
<1>1. LeaderInv' /\ RelayInv'
  BY ClusterSteps, NextCounted, NextRelay DEF ClusterInv, RelayInv
<1>2. CASE UNCHANGED clusterVars
  BY <1>1, <1>2 DEF clusterVars, vars, outboxVars, ClusterInv, BeginsEmpty, NoPass, Settled, Leads
<1>3. CASE ClusterNext
  <2>1. BeginsEmpty' /\ Settled'
    BY <1>3, ProcessKept, PassKept, WriteKept DEF ClusterNext
  <2>2. QED
    BY <1>1, <2>1 DEF ClusterInv
<1>4. QED
  BY <1>2, <1>3

-----------------------------------------------------------------------------
(* Leaders and the relay: theorems.                                        *)

\* The loops of at most 1 + losses replicas run, whatever replicas boot, crash,
\* shut down or come back in whatever order: without a session lost under a
\* live leader there is a single active scheduler.
THEOREM SingleLeader == ClusterSpec => []LeadersAccounted
<1>1. ClusterInv => LeadersAccounted
  BY LeadersCounted DEF ClusterInv
<1>2. QED
  BY InitCluster, NextCluster, <1>1, PTL DEF ClusterSpec

\* The outbox is relayed at least once and only when committed, however the passes
\* of leaders, former leaders and leaders without the lock overlap.
THEOREM RelaySafe == ClusterSpec => [](PublishedIsCommitted /\ SentIsPublished)
<1>1. ClusterInv => PublishedIsCommitted /\ SentIsPublished
  BY DEF ClusterInv, RelayInv, PublishedIsCommitted, SentIsPublished
<1>2. QED
  BY InitCluster, NextCluster, <1>1, PTL DEF ClusterSpec

\* Until a session is lost, a leader publishes a record again only when a
\* publication was cut off from its MarkOutboxSent by a failure, a shutdown or a
\* crash: a change of leaders alone repeats nothing.
THEOREM RepeatsAreOwed == ClusterSpec => RepublishedOnlyIfCut
<1>1. ASSUME ClusterInv, NEW r \in Replica, NEW rec \in Record, Relay(r, rec), Leads(r),
             losses = 0, rec \in received
      PROVE  rec \in cut
  BY <1>1 DEF ClusterInv, Settled, Leads, Relay, O!Publish, O!Turn
<1>2. ClusterInv => [\A r \in Replica, rec \in Record :
                        /\ Relay(r, rec)
                        /\ Leads(r) /\ losses = 0 /\ rec \in received
                        => rec \in cut]_clusterVars
  BY <1>1
<1>3. QED
  BY InitCluster, NextCluster, <1>2, PTL DEF ClusterSpec, RepublishedOnlyIfCut

-----------------------------------------------------------------------------
(* The worker: the rows of the queue and the pool of slots.                *)

TaskRow == [status    : {"QUEUED", "LEASED", "DONE", "FAILED"},
            attempt   : 1..MaxAttempts,
            token     : Token \cup {NoToken},
            expiresIn : 0..LeaseFor]

\* The handlers that run fill no more than the slots.
PoolBounded == IsFiniteSet(busy) /\ Cardinality(busy) <= Slots

WorkerTypes ==
    /\ task \in [Task -> TaskRow]
    /\ poll \in [Activity -> Delivery \cup {Polling, Stopped}]
    /\ busy \subseteq Dispatch
    /\ cancelled \in BOOLEAN
    /\ lost \in 0..MaxLost

\* The constants in arithmetic.
LEMMA Numbers ==
    /\ Slots \in Nat /\ LeaseFor \in Nat /\ LeaseFor > 0 /\ MaxAttempts \in Nat
    /\ MaxAttempts > 0 /\ MaxLost \in Nat
    /\ Interval \in 0..LeaseFor /\ Interval < LeaseFor /\ Silent \in 0..Silent
    /\ Silent > LeaseFor /\ Interval \in 0..Silent
  BY SMTT(30), WorkerAssumption DEF Interval, Silent

\* A row has the fields it is made of.
LEMMA RowMade ==
    ASSUME NEW status \in {"QUEUED", "LEASED", "DONE", "FAILED"},
           NEW attempt \in 1..MaxAttempts, NEW token \in Token \cup {NoToken},
           NEW n \in 0..LeaseFor
    PROVE  /\ Row(status, attempt, token, n) \in TaskRow
           /\ Row(status, attempt, token, n).status = status
           /\ Row(status, attempt, token, n).attempt = attempt
           /\ Row(status, attempt, token, n).token = token
           /\ Row(status, attempt, token, n).expiresIn = n
  BY DEF Row, TaskRow

\* Taking one goroutine's record for another does not fill the pool, and one
\* that ends leaves it emptier.
LEMMA PoolReplaced ==
    ASSUME PoolBounded, NEW d \in busy, NEW e, busy' = (busy \ {d}) \cup {e} \/ busy' = busy \ {d}
    PROVE  PoolBounded'
<1>1. /\ IsFiniteSet(busy \ {d}) /\ Cardinality(busy \ {d}) = Cardinality(busy) - 1
      /\ IsFiniteSet(busy) /\ Cardinality(busy) \in Nat /\ Cardinality(busy) <= Slots
  BY FS_RemoveElement, FS_CardinalityType DEF PoolBounded
<1>2. Cardinality(busy) > 0
  <2>1. busy # {}
    OBVIOUS
  <2>2. Cardinality(busy) # 0
    BY <1>1, <2>1, FS_EmptySet
  <2> QED BY SMTT(30), <1>1, <2>2
<1>3. IsFiniteSet((busy \ {d}) \cup {e})
      /\ Cardinality((busy \ {d}) \cup {e}) <= Cardinality(busy \ {d}) + 1
  <2>1. /\ IsFiniteSet((busy \ {d}) \cup {e})
        /\ Cardinality((busy \ {d}) \cup {e}) =
             IF e \in busy \ {d} THEN Cardinality(busy \ {d}) ELSE Cardinality(busy \ {d}) + 1
    BY <1>1, FS_AddElement
  <2>2. Cardinality(busy \ {d}) \in Nat
    BY <1>1, FS_CardinalityType
  <2> QED BY SMTT(30), <2>1, <2>2
<1>4. CASE busy' = (busy \ {d}) \cup {e}
  <2>1. Cardinality((busy \ {d}) \cup {e}) \in Nat
    BY <1>3, FS_CardinalityType
  <2>2. Cardinality((busy \ {d}) \cup {e}) <= Slots
    BY SMTT(30), <1>1, <1>2, <1>3, <2>1, Numbers
  <2> QED BY <1>3, <1>4, <2>2 DEF PoolBounded
<1>5. CASE busy' = busy \ {d}
  <2>1. Cardinality(busy \ {d}) <= Slots
    BY SMTT(30), <1>1, <1>2, Numbers
  <2> QED BY <1>1, <1>5, <2>1 DEF PoolBounded
<1> QED BY <1>4, <1>5

\* A slot is taken only when one is free.
LEMMA PoolTaken ==
    ASSUME PoolBounded, Cardinality(busy) < Slots, NEW e, busy' = busy \cup {e}
    PROVE  PoolBounded'
<1>1. IsFiniteSet(busy) /\ Cardinality(busy) \in Nat
  BY FS_CardinalityType DEF PoolBounded
<1>2. /\ IsFiniteSet(busy')
      /\ Cardinality(busy') = IF e \in busy THEN Cardinality(busy) ELSE Cardinality(busy) + 1
  BY <1>1, FS_AddElement
<1>3. Cardinality(busy') <= Slots
  BY SMTT(30), <1>1, <1>2, Numbers
<1> QED BY <1>2, <1>3 DEF PoolBounded

\* The dispatch record d one tick later.
Ticked(d) == [d EXCEPT !.beat = IF d.beat = Silent THEN Silent ELSE d.beat - 1]

\* The clock changes the records, not their number.
LEMMA PoolTicked ==
    ASSUME PoolBounded, busy' = {Ticked(d) : d \in busy}
    PROVE  PoolBounded'
<1> DEFINE f == [d \in busy |-> Ticked(d)]
<1>1. f \in [busy -> busy'] /\ \A e \in busy' : \E d \in busy : f[d] = e
  OBVIOUS
<1> HIDE DEF f
<1>2. f \in Surjection(busy, busy')
  BY <1>1 DEF Surjection
<1>3. IsFiniteSet(busy') /\ Cardinality(busy') <= Cardinality(busy)
  BY <1>2, FS_Surjection DEF PoolBounded
<1>4. Cardinality(busy') \in Nat /\ Cardinality(busy) \in Nat
  BY <1>3, FS_CardinalityType DEF PoolBounded
<1>5. Cardinality(busy') <= Slots
  BY SMTT(30), <1>3, <1>4, Numbers DEF PoolBounded
<1> QED BY <1>3, <1>5 DEF PoolBounded

-----------------------------------------------------------------------------
(* Leases.  The inductive invariant says by how much a lease outlives the  *)
(* next heartbeat, and that a task that waits for a slot has just been     *)
(* leased.                                                                 *)

\* The worker is alive, its calls get through and no task waits for a slot.
Undisturbed == lost = 0 /\ ~cancelled /\ Cardinality(Task) <= Slots

\* The lease outlives the next heartbeat; a report is sent before it ends.
Kept(d) ==
    /\ Holds(d)
    /\ d.phase = "running" => task[d.task].expiresIn > d.beat
    /\ task[d.task].expiresIn > 0

\* No two goroutines work on one task.
OnePerTask == \A d, e \in busy : d.task = e.task => d = e

\* A poll loop that has a task and no slot yet has only just leased it.
JustLeased(a) ==
    poll[a] \in Delivery =>
        /\ ActivityOf[poll[a].task] = a
        /\ Holds(poll[a])
        /\ task[poll[a].task].expiresIn = LeaseFor
        /\ \A d \in busy : d.task # poll[a].task

Leased ==
    /\ \A d \in busy : Kept(d)
    /\ OnePerTask
    /\ \A a \in Activity : JustLeased(a)

WorkerInv == WorkerTypes /\ PoolBounded /\ (Undisturbed => Leased)

\* A poll loop that holds nothing holds no delivery.
LEMMA IdleLoops == Polling \notin Delivery /\ Stopped \notin Delivery
  BY WorkerAssumption DEF Polling, Stopped, Delivery

\* The fields of a goroutine's record.
LEMMA Fields ==
    ASSUME WorkerTypes, NEW d \in busy
    PROVE  /\ d \in Dispatch /\ d.task \in Task /\ d.token \in Token /\ d.beat \in 0..Silent
           /\ d.phase \in {"running", "completing", "failing"}
           /\ task[d.task] \in TaskRow
  BY DEF WorkerTypes, Dispatch

\* The fields of a row.
LEMMA RowFields ==
    ASSUME WorkerTypes, NEW t \in Task
    PROVE  /\ task[t] \in TaskRow
           /\ task[t].status \in {"QUEUED", "LEASED", "DONE", "FAILED"}
           /\ task[t].attempt \in 1..MaxAttempts
           /\ task[t].token \in Token \cup {NoToken}
           /\ task[t].expiresIn \in 0..LeaseFor
  BY DEF WorkerTypes, TaskRow

\* Writing one row.
LEMMA RowWritten ==
    ASSUME WorkerTypes, NEW t \in Task, NEW r \in TaskRow, task' = [task EXCEPT ![t] = r]
    PROVE  /\ task' \in [Task -> TaskRow] /\ task'[t] = r
           /\ \A u \in Task : u # t => task'[u] = task[u]
  BY DEF WorkerTypes

\* The first state.
LEMMA InitWorker == WorkerInit => WorkerInv
<1> SUFFICES ASSUME WorkerInit PROVE WorkerInv
  OBVIOUS
<1>1. 1 \in 1..MaxAttempts /\ 0 \in 0..LeaseFor /\ 0 \in 0..MaxLost
  BY SMTT(30), Numbers
<1>2. Row("QUEUED", 1, NoToken, 0) \in TaskRow
  BY <1>1, RowMade
<1>3. WorkerTypes
  BY <1>1, <1>2 DEF WorkerInit, WorkerTypes
<1>4. PoolBounded
  <2>1. IsFiniteSet({}) /\ Cardinality({}) = 0
    BY FS_EmptySet
  <2>2. 0 <= Slots
    BY SMTT(30), Numbers
  <2> QED BY <2>1, <2>2 DEF WorkerInit, PoolBounded
<1>5. Leased
  BY IdleLoops DEF WorkerInit, Leased, OnePerTask, JustLeased
<1> QED BY <1>3, <1>4, <1>5 DEF WorkerInv

\* A call that is lost, or a cancelled context, ends what is promised.
LEMMA Disturbed ==
    ASSUME WorkerTypes, WorkerTypes', PoolBounded', cancelled' \/ lost' = lost + 1
    PROVE  WorkerInv'
<1>1. lost' = lost + 1 => lost' # 0
  BY SMTT(30) DEF WorkerTypes
<1> QED BY <1>1 DEF WorkerInv, Undisturbed

\* Calls lost so far, after one more.
LEMMA LostCounted ==
    ASSUME WorkerTypes, Lose
    PROVE  lost' \in 0..MaxLost /\ lost' = lost + 1
  BY SMTT(30), Numbers DEF WorkerTypes, Lose

\* Leasing a task of the queue.
LEMMA LeaseWrites ==
    ASSUME WorkerTypes, NEW t \in Task, NEW token \in Token, LeaseTasks(t, token)
    PROVE  /\ task' \in [Task -> TaskRow]
           /\ task'[t].status = "LEASED" /\ task'[t].token = token
           /\ task'[t].expiresIn = LeaseFor
           /\ \A u \in Task : u # t => task'[u] = task[u]
           /\ task[t].status = "QUEUED"
<1> DEFINE r == Row("LEASED", task[t].attempt, token, LeaseFor)
<1>1. LeaseFor \in 0..LeaseFor
  BY SMTT(30), Numbers
<1>2. task[t].attempt \in 1..MaxAttempts
  BY RowFields
<1>3. r \in TaskRow /\ r.status = "LEASED" /\ r.token = token /\ r.expiresIn = LeaseFor
  BY SMTT(30), <1>1, <1>2, RowMade
<1>4. task' = [task EXCEPT ![t] = r] /\ task[t].status = "QUEUED"
  BY DEF LeaseTasks
<1> HIDE DEF r
<1> QED BY <1>3, <1>4, RowWritten

\* A task of the queue is no goroutine's and no poll loop's.
LEMMA QueuedIsFree ==
    ASSUME WorkerTypes, Leased, NEW t \in Task, task[t].status = "QUEUED"
    PROVE  /\ \A d \in busy : d.task # t
           /\ \A a \in Activity : poll[a] \in Delivery => poll[a].task # t
<1>1. ASSUME NEW d \in busy PROVE task[d.task].status = "LEASED"
  BY DEF Leased, Kept, Holds
<1>2. ASSUME NEW a \in Activity, poll[a] \in Delivery
      PROVE  task[poll[a].task].status = "LEASED"
  BY <1>2 DEF Leased, JustLeased, Holds
<1> QED BY <1>1, <1>2

\* Poll leases a task that nobody holds.
LEMMA PollKeeps ==
    ASSUME WorkerInv, NEW t \in Task, NEW token \in Token, Poll(t, token)
    PROVE  WorkerInv'
<1> DEFINE a == ActivityOf[t]
           got == [task |-> t, token |-> token]
<1>1. a \in Activity /\ got \in Delivery /\ got.task = t /\ got.token = token
  BY DEF Activity, Delivery
<1>2. /\ LeaseTasks(t, token) /\ poll' = [poll EXCEPT ![a] = got]
      /\ UNCHANGED <<busy, cancelled, lost>>
  BY DEF Poll
<1>3. WorkerTypes
  BY DEF WorkerInv
<1>4. /\ task' \in [Task -> TaskRow]
      /\ task'[t].status = "LEASED" /\ task'[t].token = token
      /\ task'[t].expiresIn = LeaseFor
      /\ \A u \in Task : u # t => task'[u] = task[u]
      /\ task[t].status = "QUEUED"
  BY <1>2, <1>3, LeaseWrites
<1>5. /\ poll'[a] = got /\ \A b \in Activity : b # a => poll'[b] = poll[b]
      /\ poll' \in [Activity -> Delivery \cup {Polling, Stopped}]
  BY <1>1, <1>2, <1>3 DEF WorkerTypes
<1>6. ActivityOf[t] = a
  OBVIOUS
<1> HIDE DEF a, got
<1>7. WorkerTypes' /\ PoolBounded'
  BY <1>2, <1>3, <1>4, <1>5 DEF WorkerTypes, WorkerInv, PoolBounded
<1>8. ASSUME Undisturbed' PROVE Leased'
  <2>1. Leased
    BY <1>2, <1>8 DEF Undisturbed, WorkerInv
  <2>2. /\ \A d \in busy : d.task # t
        /\ \A b \in Activity : poll[b] \in Delivery => poll[b].task # t
    BY <1>3, <1>4, <2>1, QueuedIsFree
  <2>3. ASSUME NEW d \in busy PROVE Kept(d)'
    <3>1. Kept(d) /\ task'[d.task] = task[d.task]
      BY <1>3, <1>4, <2>1, <2>2, Fields DEF Leased
    <3> QED BY <3>1 DEF Kept, Holds
  <2>4. OnePerTask'
    BY <1>2, <2>1 DEF Leased, OnePerTask
  <2>5. JustLeased(a)'
    BY <1>1, <1>2, <1>4, <1>5, <1>6, <2>2 DEF JustLeased, Holds
  <2>6. ASSUME NEW b \in Activity, b # a, poll[b] \in Delivery PROVE JustLeased(b)'
    <3>1. /\ poll'[b] = poll[b] /\ poll[b].task \in Task
          /\ task'[poll[b].task] = task[poll[b].task]
      BY <1>4, <1>5, <2>2, <2>6 DEF Delivery
    <3>2. /\ ActivityOf[poll[b].task] = b /\ Holds(poll[b])
          /\ task[poll[b].task].expiresIn = LeaseFor
          /\ \A d \in busy : d.task # poll[b].task
      BY <2>1, <2>6 DEF Leased, JustLeased
    <3>3. Holds(poll[b])'
      BY <3>1, <3>2 DEF Holds
    <3> QED BY <1>2, <3>1, <3>2, <3>3 DEF JustLeased
  <2>7. ASSUME NEW b \in Activity, b # a, poll[b] \notin Delivery PROVE JustLeased(b)'
    BY <1>5, <2>7 DEF JustLeased
  <2> QED BY <1>2, <2>3, <2>4, <2>5, <2>6, <2>7 DEF Leased
<1> QED BY <1>7, <1>8 DEF WorkerInv

\* The answer to a poll is lost.
LEMMA PollLostKeeps ==
    ASSUME WorkerInv, NEW t \in Task, NEW token \in Token, PollLost(t, token)
    PROVE  WorkerInv'
<1>1. /\ LeaseTasks(t, token) /\ Lose /\ UNCHANGED <<poll, busy, cancelled>>
      /\ WorkerTypes /\ PoolBounded
  BY DEF PollLost, WorkerInv
<1>2. task' \in [Task -> TaskRow]
  BY <1>1, LeaseWrites
<1>3. lost' \in 0..MaxLost /\ lost' = lost + 1
  BY <1>1, LostCounted
<1>4. WorkerTypes' /\ PoolBounded'
  BY <1>1, <1>2, <1>3 DEF WorkerTypes, PoolBounded
<1> QED BY <1>1, <1>3, <1>4, Disturbed

\* The slot is taken in the instant the task was leased.
LEMMA TakeSlotKeeps ==
    ASSUME WorkerInv, NEW a \in Activity, TakeSlot(a)
    PROVE  WorkerInv'
<1>1. /\ poll[a] \in Delivery /\ Cardinality(busy) < Slots
      /\ poll' = [poll EXCEPT ![a] = Polling] /\ UNCHANGED <<task, cancelled, lost>>
  BY DEF TakeSlot
<1>2. poll[a].task \in Task /\ poll[a].token \in Token
  BY <1>1 DEF Delivery
<1>3. PICK new : /\ busy' = busy \cup {new}
                 /\ new \in Dispatch /\ new.task = poll[a].task /\ new.token = poll[a].token
                 /\ new.beat = Interval /\ new.phase = "running"
  <2> DEFINE n == [task |-> poll[a].task, token |-> poll[a].token,
                   beat |-> Interval, phase |-> "running"]
  <2>1. busy' = busy \cup {n}
    BY DEF TakeSlot
  <2>2. /\ n \in Dispatch /\ n.task = poll[a].task /\ n.token = poll[a].token
        /\ n.beat = Interval /\ n.phase = "running"
    BY <1>2, Numbers DEF Dispatch
  <2> HIDE DEF n
  <2> QED BY <2>1, <2>2
<1>4. /\ poll'[a] = Polling /\ \A b \in Activity : b # a => poll'[b] = poll[b]
      /\ poll' \in [Activity -> Delivery \cup {Polling, Stopped}]
  BY <1>1 DEF WorkerInv, WorkerTypes
<1>5. WorkerTypes'
  BY <1>1, <1>3, <1>4 DEF WorkerInv, WorkerTypes
<1>6. PoolBounded'
  BY <1>1, <1>3, PoolTaken DEF WorkerInv
<1>7. ASSUME Undisturbed' PROVE Leased'
  <2>1. Leased
    BY <1>1, <1>7 DEF Undisturbed, WorkerInv
  <2>2. /\ ActivityOf[poll[a].task] = a /\ Holds(poll[a])
        /\ task[poll[a].task].expiresIn = LeaseFor
        /\ \A d \in busy : d.task # poll[a].task
    BY <1>1, <2>1 DEF Leased, JustLeased
  <2>3. Kept(new)'
    <3>1. Holds(new)'
      BY <1>1, <1>3, <2>2 DEF Holds
    <3>2. task'[new.task].expiresIn > new.beat /\ task'[new.task].expiresIn > 0
      BY SMTT(30), <1>1, <1>3, <2>2, Numbers
    <3> QED BY <3>1, <3>2 DEF Kept
  <2>4. ASSUME NEW d \in busy PROVE Kept(d)'
    BY <1>1, <2>1 DEF Leased, Kept, Holds
  <2>5. OnePerTask'
    <3>1. ASSUME NEW d \in busy', NEW e \in busy', d.task = e.task PROVE d = e
      BY <1>1, <1>3, <2>1, <2>2, <3>1 DEF Leased, OnePerTask
    <3> QED BY <3>1 DEF OnePerTask
  <2>6. JustLeased(a)'
    BY <1>4, IdleLoops DEF JustLeased
  <2>7. ASSUME NEW b \in Activity, b # a, poll[b] \in Delivery PROVE JustLeased(b)'
    <3>1. /\ ActivityOf[poll[b].task] = b /\ Holds(poll[b])
          /\ task[poll[b].task].expiresIn = LeaseFor
          /\ \A d \in busy : d.task # poll[b].task
      BY <2>1, <2>7 DEF Leased, JustLeased
    <3>2. new.task # poll[b].task
      BY <1>3, <2>2, <2>7, <3>1
    <3>3. Holds(poll[b])'
      BY <1>1, <1>4, <2>7, <3>1 DEF Holds
    <3> QED BY <1>1, <1>3, <1>4, <2>7, <3>1, <3>2, <3>3 DEF JustLeased
  <2>8. ASSUME NEW b \in Activity, b # a, poll[b] \notin Delivery PROVE JustLeased(b)'
    BY <1>4, <2>8 DEF JustLeased
  <2>9. \A d \in busy' : Kept(d)'
    BY <1>3, <2>3, <2>4
  <2> QED BY <2>5, <2>6, <2>7, <2>8, <2>9 DEF Leased
<1> QED BY <1>5, <1>6, <1>7 DEF WorkerInv

\* A poll loop ends when the context is cancelled, and the signal that does it.
LEMMA StopKeeps ==
    ASSUME WorkerInv, (\E a \in Activity : StopPolling(a)) \/ CancelWorker
    PROVE  WorkerInv'
<1>1. CASE CancelWorker
  <2>1. cancelled' = TRUE /\ UNCHANGED <<task, poll, busy, lost>>
    BY <1>1 DEF CancelWorker
  <2>2. WorkerTypes' /\ PoolBounded'
    BY <2>1 DEF WorkerInv, WorkerTypes, PoolBounded
  <2> QED BY <2>1, <2>2, Disturbed DEF WorkerInv
<1>2. ASSUME NEW a \in Activity, StopPolling(a) PROVE WorkerInv'
  <2>1. /\ cancelled' /\ poll' = [poll EXCEPT ![a] = Stopped]
        /\ UNCHANGED <<task, busy, cancelled, lost>>
    BY <1>2 DEF StopPolling
  <2>2. WorkerTypes' /\ PoolBounded'
    BY <2>1 DEF WorkerInv, WorkerTypes, PoolBounded
  <2> QED BY <2>1, <2>2, Disturbed DEF WorkerInv
<1> QED BY <1>1, <1>2

\* A goroutine goes on working on its task, whose row alone it may have written.
LEMMA GoesOn ==
    ASSUME WorkerTypes, Leased, NEW d \in busy, NEW e, e.task = d.task, e.token = d.token,
           busy' = (busy \ {d}) \cup {e}, poll' = poll, Kept(e)',
           \A u \in Task : u # d.task => task'[u] = task[u]
    PROVE  Leased'
<1>1. ASSUME NEW x \in busy, x # d PROVE Kept(x)'
  <2>1. x.task \in Task /\ x.task # d.task /\ Kept(x)
    BY <1>1, Fields DEF Leased, OnePerTask
  <2>2. task'[x.task] = task[x.task]
    BY <2>1
  <2> QED BY <2>1, <2>2 DEF Kept, Holds
<1>2. \A x \in busy' : Kept(x)'
  BY <1>1
<1>3. ASSUME NEW x \in busy', NEW y \in busy', x.task = y.task PROVE x = y
  BY <1>3 DEF Leased, OnePerTask
<1>4. ASSUME NEW a \in Activity, poll[a] \in Delivery PROVE JustLeased(a)'
  <2>1. /\ ActivityOf[poll[a].task] = a /\ Holds(poll[a])
        /\ task[poll[a].task].expiresIn = LeaseFor
        /\ \A x \in busy : x.task # poll[a].task
    BY <1>4 DEF Leased, JustLeased
  <2>2. poll'[a] = poll[a] /\ task'[poll[a].task] = task[poll[a].task]
    BY <1>4, <2>1 DEF Delivery
  <2>3. Holds(poll[a])'
    BY <2>1, <2>2 DEF Holds
  <2>4. \A x \in busy' : x.task # poll[a].task
    BY <2>1
  <2> QED BY <2>1, <2>2, <2>3, <2>4 DEF JustLeased
<1>5. ASSUME NEW a \in Activity, poll[a] \notin Delivery PROVE JustLeased(a)'
  BY <1>5 DEF JustLeased
<1> QED BY <1>2, <1>3, <1>4, <1>5 DEF Leased, OnePerTask

\* A goroutine ends, having written no row but its task's.
LEMMA Ends ==
    ASSUME WorkerTypes, Leased, NEW d \in busy, busy' = busy \ {d}, poll' = poll,
           \A u \in Task : u # d.task => task'[u] = task[u]
    PROVE  Leased'
<1>1. ASSUME NEW x \in busy, x # d PROVE Kept(x)'
  <2>1. x.task \in Task /\ x.task # d.task /\ Kept(x)
    BY <1>1, Fields DEF Leased, OnePerTask
  <2>2. task'[x.task] = task[x.task]
    BY <2>1
  <2> QED BY <2>1, <2>2 DEF Kept, Holds
<1>2. OnePerTask'
  BY DEF Leased, OnePerTask
<1>3. ASSUME NEW a \in Activity, poll[a] \in Delivery PROVE JustLeased(a)'
  <2>1. /\ ActivityOf[poll[a].task] = a /\ Holds(poll[a])
        /\ task[poll[a].task].expiresIn = LeaseFor
        /\ \A x \in busy : x.task # poll[a].task
    BY <1>3 DEF Leased, JustLeased
  <2>2. poll'[a] = poll[a] /\ task'[poll[a].task] = task[poll[a].task]
    BY <1>3, <2>1 DEF Delivery
  <2>3. Holds(poll[a])'
    BY <2>1, <2>2 DEF Holds
  <2> QED BY <2>1, <2>2, <2>3 DEF JustLeased
<1>4. ASSUME NEW a \in Activity, poll[a] \notin Delivery PROVE JustLeased(a)'
  BY <1>4 DEF JustLeased
<1> QED BY <1>1, <1>2, <1>3, <1>4 DEF Leased

\* A goroutine's record with another heartbeat.
LEMMA BeatSet ==
    ASSUME NEW d \in Dispatch, NEW b \in 0..Silent
    PROVE  \E e \in Dispatch :
              /\ e = [d EXCEPT !.beat = b]
              /\ e.task = d.task /\ e.token = d.token /\ e.phase = d.phase /\ e.beat = b
<1> DEFINE e == [d EXCEPT !.beat = b]
<1>1. e \in Dispatch /\ e.task = d.task /\ e.token = d.token /\ e.phase = d.phase /\ e.beat = b
  BY SMTT(30) DEF Dispatch
<1> QED BY <1>1

\* A goroutine's record once its handler has returned.
LEMMA PhaseSet ==
    ASSUME NEW d \in Dispatch, NEW p \in {"completing", "failing"}
    PROVE  \E e \in Dispatch :
              /\ e = [d EXCEPT !.beat = Silent, !.phase = p]
              /\ e.task = d.task /\ e.token = d.token /\ e.phase # "running"
<1> DEFINE e == [d EXCEPT !.beat = Silent, !.phase = p]
<1>1. e \in Dispatch /\ e.task = d.task /\ e.token = d.token /\ e.phase = p
  <2>1. Silent \in 0..Silent
    BY Numbers
  <2> QED BY <2>1 DEF Dispatch
<1>2. p # "running"
  BY SMTT(30)
<1> QED BY <1>1, <1>2

\* A renewed lease outlives the next heartbeat.
LEMMA HeartbeatKeeps ==
    ASSUME WorkerInv, NEW d \in busy, Heartbeat(d)
    PROVE  WorkerInv'
<1>1. /\ d.phase = "running" /\ UNCHANGED <<poll, cancelled, lost>>
      /\ WorkerTypes /\ PoolBounded
  BY DEF Heartbeat, WorkerInv
<1>2. d \in Dispatch /\ d.task \in Task /\ task[d.task] \in TaskRow
  BY <1>1, Fields
<1>3. CASE Holds(d)
  <2> DEFINE r == [task[d.task] EXCEPT !.expiresIn = LeaseFor]
  <2>1. PICK e \in Dispatch : /\ e = [d EXCEPT !.beat = Interval]
                              /\ e.task = d.task /\ e.token = d.token
                              /\ e.phase = d.phase /\ e.beat = Interval
    BY <1>2, BeatSet, Numbers
  <2>2. /\ r \in TaskRow /\ r.status = task[d.task].status
        /\ r.token = task[d.task].token /\ r.expiresIn = LeaseFor
    BY SMTT(30), <1>2, Numbers DEF TaskRow
  <2>3. task' = [task EXCEPT ![d.task] = r] /\ busy' = (busy \ {d}) \cup {e}
    BY <1>3, <2>1 DEF Heartbeat, Renew, Replace
  <2> HIDE DEF r
  <2>4. /\ task' \in [Task -> TaskRow] /\ task'[d.task] = r
        /\ \A u \in Task : u # d.task => task'[u] = task[u]
    BY <1>1, <1>2, <2>2, <2>3, RowWritten
  <2>5. Kept(e)'
    <3>1. Holds(e)'
      BY <1>3, <2>1, <2>2, <2>4 DEF Holds
    <3>2. task'[e.task].expiresIn > e.beat /\ task'[e.task].expiresIn > 0
      BY SMTT(30), <2>1, <2>2, <2>4, Numbers
    <3> QED BY <3>1, <3>2 DEF Kept
  <2>6. WorkerTypes' /\ PoolBounded'
    BY <1>1, <2>1, <2>3, <2>4, PoolReplaced DEF WorkerTypes
  <2>7. Undisturbed' => Leased'
    BY <1>1, <2>1, <2>3, <2>4, <2>5, GoesOn DEF WorkerInv, Undisturbed
  <2> QED BY <2>6, <2>7 DEF WorkerInv
<1>4. CASE ~Holds(d)
  <2>1. PICK e \in Dispatch : busy' = (busy \ {d}) \cup {e} /\ task' = task
    BY <1>2, <1>4, BeatSet, Numbers DEF Heartbeat, Replace
  <2>2. WorkerTypes' /\ PoolBounded'
    BY <1>1, <2>1, PoolReplaced DEF WorkerTypes
  <2>3. ~Undisturbed'
    BY <1>1, <1>4 DEF WorkerInv, Undisturbed, Leased, Kept
  <2> QED BY <2>2, <2>3 DEF WorkerInv
<1> QED BY <1>3, <1>4

\* A heartbeat is lost, or the goroutine that sends them returns.
LEMMA SilenceKeeps ==
    ASSUME WorkerInv, NEW d \in busy, HeartbeatLost(d) \/ HeartbeatStops(d)
    PROVE  WorkerInv'
<1>1. WorkerTypes /\ PoolBounded /\ d \in Dispatch
  BY Fields DEF WorkerInv
<1>2. /\ busy' = (busy \ {d}) \cup {[d EXCEPT !.beat = Silent]}
      /\ UNCHANGED <<poll, cancelled>>
      /\ UNCHANGED task \/ Renew(d)
      /\ Lose \/ (cancelled' /\ lost' = lost)
  <2>1. CASE HeartbeatLost(d)
    BY <2>1 DEF HeartbeatLost, Replace
  <2>2. CASE HeartbeatStops(d)
    BY <2>2 DEF HeartbeatStops, Replace
  <2> QED BY <2>1, <2>2
<1>3. PICK e \in Dispatch : busy' = (busy \ {d}) \cup {e}
  <2>1. Silent \in 0..Silent
    BY Numbers
  <2>2. PICK e \in Dispatch : e = [d EXCEPT !.beat = Silent]
    BY <1>1, <2>1, BeatSet
  <2> QED BY <1>2, <2>2
<1>4. lost' \in 0..MaxLost /\ (cancelled' \/ lost' = lost + 1)
  BY <1>1, <1>2, LostCounted DEF WorkerTypes
<1>5. task' \in [Task -> TaskRow]
  <2> DEFINE r == [task[d.task] EXCEPT !.expiresIn = LeaseFor]
  <2>1. CASE UNCHANGED task
    BY <1>1, <2>1 DEF WorkerTypes
  <2>2. CASE Renew(d)
    <3>1. d.task \in Task /\ task[d.task] \in TaskRow
      BY <1>1, Fields
    <3>2. r \in TaskRow
      BY SMTT(30), <3>1, Numbers DEF TaskRow
    <3>3. task' = [task EXCEPT ![d.task] = r]
      BY <2>2 DEF Renew
    <3> HIDE DEF r
    <3> QED BY <1>1, <3>1, <3>2, <3>3, RowWritten
  <2> QED BY <1>2, <2>1, <2>2
<1>6. WorkerTypes' /\ PoolBounded'
  BY <1>1, <1>2, <1>3, <1>4, <1>5, PoolReplaced DEF WorkerTypes
<1> QED BY <1>1, <1>4, <1>6, Disturbed

\* The handler returns with its lease.
LEMMA ReturnKeeps ==
    ASSUME WorkerInv, NEW d \in busy, HandlerReturns(d)
    PROVE  WorkerInv'
<1>1. /\ WorkerTypes /\ PoolBounded /\ d \in Dispatch /\ d.task \in Task
      /\ UNCHANGED <<task, poll, cancelled, lost>>
  BY Fields DEF WorkerInv, HandlerReturns
<1>2. PICK phase \in {"completing", "failing"} :
         busy' = (busy \ {d}) \cup {[d EXCEPT !.beat = Silent, !.phase = phase]}
  BY DEF HandlerReturns, Replace
<1>3. PICK e \in Dispatch : /\ e = [d EXCEPT !.beat = Silent, !.phase = phase]
                            /\ e.task = d.task /\ e.token = d.token /\ e.phase # "running"
  BY <1>1, PhaseSet
<1>4. busy' = (busy \ {d}) \cup {e}
  BY <1>2, <1>3
<1>5. WorkerTypes' /\ PoolBounded'
  BY <1>1, <1>3, <1>4, PoolReplaced DEF WorkerTypes
<1>6. ASSUME Undisturbed' PROVE Leased'
  <2>1. Leased
    BY <1>1, <1>6 DEF WorkerInv, Undisturbed
  <2>2. Kept(d)
    BY <2>1 DEF Leased
  <2>3. Kept(e)'
    BY <1>1, <1>3, <2>2 DEF Kept, Holds
  <2> QED BY <1>1, <1>3, <1>4, <2>1, <2>3, GoesOn
<1> QED BY <1>5, <1>6 DEF WorkerInv

\* What the engine makes of a report is a row of the queue.
LEMMA OutcomeTyped ==
    ASSUME WorkerTypes, NEW d \in busy, NEW r \in Outcome(d)
    PROVE  r \in TaskRow
<1>1. d.token \in Token \cup {NoToken} /\ d.task \in Task
  BY Fields
<1>2. task[d.task].attempt \in 1..MaxAttempts
  BY <1>1, RowFields
<1>3. 0 \in 0..LeaseFor
  BY SMTT(30), Numbers
<1>4. PICK status \in {"QUEUED", "DONE", "FAILED"}, n \in 1..MaxAttempts,
           token \in Token \cup {NoToken} : r = Row(status, n, token, 0)
  BY <1>1, <1>2 DEF Outcome
<1> QED BY SMTT(30), <1>3, <1>4, RowMade

\* A report writes the task's row or nothing, and frees the slot.
LEMMA ReportKeeps ==
    ASSUME WorkerInv, NEW d \in busy, Report(d)
    PROVE  WorkerInv'
<1>1. /\ WorkerTypes /\ PoolBounded /\ d.task \in Task
      /\ busy' = busy \ {d} /\ UNCHANGED <<poll, cancelled, lost>>
  BY Fields DEF WorkerInv, Report
<1>2. /\ task' \in [Task -> TaskRow]
      /\ \A u \in Task : u # d.task => task'[u] = task[u]
  <2>1. CASE UNCHANGED task
    BY <1>1, <2>1 DEF WorkerTypes
  <2>2. CASE Recorded(d)
    <3>1. PICK r \in Outcome(d) : task' = [task EXCEPT ![d.task] = r]
      BY <2>2 DEF Recorded
    <3>2. r \in TaskRow
      BY <1>1, OutcomeTyped
    <3> QED BY <1>1, <3>1, <3>2, RowWritten
  <2> QED BY <2>1, <2>2 DEF Report
<1>3. WorkerTypes' /\ PoolBounded'
  BY <1>1, <1>2, PoolReplaced DEF WorkerTypes
<1>4. Undisturbed' => Leased'
  BY <1>1, <1>2, Ends DEF WorkerInv, Undisturbed
<1> QED BY <1>3, <1>4 DEF WorkerInv

\* A report is lost.
LEMMA ReportLostKeeps ==
    ASSUME WorkerInv, NEW d \in busy, ReportLost(d)
    PROVE  WorkerInv'
<1>1. /\ WorkerTypes /\ PoolBounded /\ Lose /\ busy' = busy \ {d}
      /\ UNCHANGED <<task, poll, cancelled>>
  BY DEF WorkerInv, ReportLost
<1>2. lost' \in 0..MaxLost /\ lost' = lost + 1
  BY <1>1, LostCounted
<1>3. WorkerTypes' /\ PoolBounded'
  BY <1>1, <1>2, PoolReplaced DEF WorkerTypes
<1> QED BY <1>1, <1>2, <1>3, Disturbed

\* The sweeper passes over the leases that are kept.
LEMMA SweepKeeps == WorkerInv /\ ExpireLeases => WorkerInv'
<1> SUFFICES ASSUME WorkerInv, ExpireLeases PROVE WorkerInv'
  OBVIOUS
<1> DEFINE expired(t) == task[t].status = "LEASED" /\ task[t].expiresIn = 0
<1>1. /\ WorkerTypes /\ PoolBounded /\ UNCHANGED <<poll, busy, cancelled, lost>>
      /\ task' = [t \in Task |-> IF expired(t) THEN Row("QUEUED", task[t].attempt, NoToken, 0)
                                            ELSE task[t]]
  BY DEF ExpireLeases, WorkerInv
<1>2. ASSUME NEW t \in Task PROVE Row("QUEUED", task[t].attempt, NoToken, 0) \in TaskRow
  <2>1. task[t].attempt \in 1..MaxAttempts
    BY <1>1, RowFields
  <2>2. 0 \in 0..LeaseFor
    BY SMTT(30), Numbers
  <2> QED BY SMTT(30), <2>1, <2>2, RowMade
<1>3. task' \in [Task -> TaskRow]
  BY <1>1, <1>2 DEF WorkerTypes
<1>4. \A t \in Task : task[t].expiresIn > 0 => task'[t] = task[t]
  <2>1. ~(0 > 0)
    BY SMTT(30)
  <2> QED BY <1>1, <2>1
<1> HIDE DEF expired
<1>5. WorkerTypes' /\ PoolBounded'
  BY <1>1, <1>3 DEF WorkerTypes, PoolBounded
<1>6. ASSUME Undisturbed' PROVE Leased'
  <2>1. Leased
    BY <1>1, <1>6 DEF WorkerInv, Undisturbed
  <2>2. ASSUME NEW d \in busy PROVE Kept(d)'
    <3>1. Kept(d) /\ task'[d.task] = task[d.task]
      BY <1>1, <1>4, <2>1, Fields DEF Leased, Kept
    <3> QED BY <3>1 DEF Kept, Holds
  <2>3. OnePerTask'
    BY <1>1, <2>1 DEF Leased, OnePerTask
  <2>4. ASSUME NEW a \in Activity, poll[a] \in Delivery PROVE JustLeased(a)'
    <3>1. /\ ActivityOf[poll[a].task] = a /\ Holds(poll[a])
          /\ task[poll[a].task].expiresIn = LeaseFor
          /\ \A x \in busy : x.task # poll[a].task
      BY <2>1, <2>4 DEF Leased, JustLeased
    <3>2. poll'[a] = poll[a] /\ task'[poll[a].task] = task[poll[a].task]
      BY <1>1, <1>4, <2>4, <3>1, Numbers DEF Delivery
    <3>3. Holds(poll[a])'
      BY <3>1, <3>2 DEF Holds
    <3> QED BY <1>1, <3>1, <3>2, <3>3 DEF JustLeased
  <2>5. ASSUME NEW a \in Activity, poll[a] \notin Delivery PROVE JustLeased(a)'
    BY <1>1, <2>5 DEF JustLeased
  <2> QED BY <1>1, <2>2, <2>3, <2>4, <2>5 DEF Leased
<1> QED BY <1>5, <1>6 DEF WorkerInv

\* With a slot for every task, a task that waits for a slot finds one.
LEMMA SlotFree ==
    ASSUME WorkerTypes, PoolBounded, Leased, Cardinality(Task) <= Slots,
           NEW a \in Activity, poll[a] \in Delivery
    PROVE  Cardinality(busy) < Slots
<1> DEFINE t == poll[a].task
           f == [d \in busy |-> d.task]
<1>1. t \in Task /\ \A d \in busy : d.task \in Task /\ d.task # t
  BY Fields DEF Leased, JustLeased, Delivery
<1>2. f \in [busy -> Task \ {t}] /\ \A d, e \in busy : f[d] = f[e] => d = e
  BY <1>1 DEF Leased, OnePerTask
<1> HIDE DEF f, t
<1>3. f \in Injection(busy, Task \ {t})
  BY <1>2 DEF Injection, IsInjective
<1>4. /\ IsFiniteSet(Task) /\ IsFiniteSet(Task \ {t})
      /\ Cardinality(Task \ {t}) = Cardinality(Task) - 1
  BY <1>1, FS_RemoveElement, WorkerAssumption
<1>5. Cardinality(busy) <= Cardinality(Task \ {t})
  BY <1>3, <1>4, FS_Injection
<1>6. Cardinality(Task) \in Nat /\ Cardinality(busy) \in Nat
  BY <1>4, FS_CardinalityType DEF PoolBounded
<1> QED BY SMTT(30), <1>4, <1>5, <1>6, Numbers

\* A goroutine's record and its task's row one tick later, between heartbeats.
LEMMA TickRecords ==
    ASSUME NEW d \in Dispatch, NEW r \in TaskRow, d.beat > 0
    PROVE  /\ Ticked(d) \in Dispatch /\ Ticked(d).task = d.task
           /\ Ticked(d).token = d.token /\ Ticked(d).phase = d.phase
           /\ r.expiresIn > d.beat => Less(r.expiresIn) > Ticked(d).beat /\ Less(r.expiresIn) > 0
           /\ Less(r.expiresIn) \in 0..LeaseFor
<1>1. /\ d.beat \in 0..Silent /\ d.beat \in Nat /\ r.expiresIn \in 0..LeaseFor
      /\ r.expiresIn \in Nat /\ Silent \in Nat
  <2>1. d.beat \in 0..Silent /\ r.expiresIn \in 0..LeaseFor
    BY DEF Dispatch, TaskRow
  <2> QED BY SMTT(30), <2>1, Numbers DEF Silent
<1> DEFINE b == IF d.beat = Silent THEN Silent ELSE d.beat - 1
<1>2. b \in 0..Silent
  BY SMTT(30), <1>1
<1>3. /\ [d EXCEPT !.beat = b] \in Dispatch /\ [d EXCEPT !.beat = b].beat = b
      /\ [d EXCEPT !.beat = b].task = d.task /\ [d EXCEPT !.beat = b].token = d.token
      /\ [d EXCEPT !.beat = b].phase = d.phase
  <2> HIDE DEF b
  <2>1. PICK e \in Dispatch : /\ e = [d EXCEPT !.beat = b] /\ e.task = d.task
                              /\ e.token = d.token /\ e.phase = d.phase /\ e.beat = b
    BY <1>2, BeatSet
  <2> QED BY <2>1
<1>4. r.expiresIn > d.beat => Less(r.expiresIn) > b /\ Less(r.expiresIn) > 0
  BY SMTT(30), <1>1, Numbers DEF Less
<1>5. Less(r.expiresIn) \in 0..LeaseFor
  BY SMTT(30), <1>1, Numbers DEF Less
<1> QED BY <1>3, <1>4, <1>5 DEF Ticked

\* The clock brings a lease and its next heartbeat forward alike.
LEMMA TickKeeps == WorkerInv /\ Tick => WorkerInv'
<1> SUFFICES ASSUME WorkerInv, Tick PROVE WorkerInv'
  OBVIOUS
<1>1. /\ WorkerTypes /\ PoolBounded /\ Prompt /\ UNCHANGED <<poll, cancelled, lost>>
      /\ task' = [t \in Task |-> [task[t] EXCEPT !.expiresIn = Less(task[t].expiresIn)]]
      /\ busy' = {Ticked(d) : d \in busy}
  BY DEF WorkerInv, Tick, Ticked
<1>2. ASSUME NEW t \in Task
      PROVE  /\ task'[t] \in TaskRow /\ task'[t].status = task[t].status
             /\ task'[t].token = task[t].token
             /\ task'[t].expiresIn = Less(task[t].expiresIn)
  <2> DEFINE n == Less(task[t].expiresIn)
  <2>1. task[t] \in TaskRow /\ task[t].expiresIn \in 0..LeaseFor
    BY <1>1, RowFields
  <2>2. n \in 0..LeaseFor
    BY SMTT(30), <2>1, Numbers DEF Less
  <2>3. task'[t] = [task[t] EXCEPT !.expiresIn = n]
    BY <1>1
  <2> HIDE DEF n
  <2>4. /\ task'[t] \in TaskRow /\ task'[t].status = task[t].status
        /\ task'[t].token = task[t].token /\ task'[t].expiresIn = n
    BY SMTT(30), <2>1, <2>2, <2>3 DEF TaskRow
  <2> QED BY <2>4 DEF n
<1>3. ASSUME NEW d \in busy
      PROVE  /\ d \in Dispatch /\ d.task \in Task /\ task[d.task] \in TaskRow
             /\ d.phase = "running" /\ d.beat > 0
  BY <1>1, Fields DEF Prompt
<1>4. WorkerTypes'
  <2>1. task' \in [Task -> TaskRow]
    BY <1>1, <1>2
  <2>2. \A d \in busy : Ticked(d) \in Dispatch
    BY <1>3, TickRecords
  <2> QED BY <1>1, <2>1, <2>2 DEF WorkerTypes
<1>5. PoolBounded'
  BY <1>1, PoolTicked
<1>6. ASSUME Undisturbed' PROVE Leased'
  <2>1. Leased /\ Cardinality(Task) <= Slots
    BY <1>1, <1>6 DEF WorkerInv, Undisturbed
  <2>2. ASSUME NEW d \in busy
        PROVE  /\ Kept(d) /\ Ticked(d).task = d.task /\ Ticked(d).token = d.token
               /\ Ticked(d).phase = "running"
               /\ Less(task[d.task].expiresIn) > Ticked(d).beat
               /\ Less(task[d.task].expiresIn) > 0
    BY <1>3, <2>1, TickRecords DEF Leased, Kept
  <2>3. ASSUME NEW e \in busy' PROVE Kept(e)'
    <3>1. PICK d \in busy : e = Ticked(d)
      BY <1>1
    <3>2. e.task = d.task /\ e.token = d.token /\ d.task \in Task
      BY <1>3, <2>2, <3>1
    <3>3. Holds(d)
      BY <2>2 DEF Kept
    <3>4. Holds(e)'
      BY <1>2, <3>2, <3>3 DEF Holds
    <3>5. task'[e.task].expiresIn > e.beat /\ task'[e.task].expiresIn > 0
      BY <1>2, <2>2, <3>1, <3>2
    <3> QED BY <3>4, <3>5 DEF Kept
  <2>4. ASSUME NEW x \in busy', NEW y \in busy', x.task = y.task PROVE x = y
    <3>1. PICK d \in busy : x = Ticked(d)
      BY <1>1
    <3>2. PICK e \in busy : y = Ticked(e)
      BY <1>1
    <3>3. d.task = e.task
      BY <2>2, <2>4, <3>1, <3>2
    <3> QED BY <2>1, <3>1, <3>2, <3>3 DEF Leased, OnePerTask
  <2>5. ASSUME NEW a \in Activity PROVE poll[a] \notin Delivery
    <3>1. SUFFICES ASSUME poll[a] \in Delivery PROVE FALSE
      OBVIOUS
    <3>2. Cardinality(busy) < Slots
      BY <1>1, <2>1, <3>1, SlotFree
    <3>3. Cardinality(busy) = Slots
      BY <1>1, <3>1 DEF Prompt
    <3> QED BY SMTT(30), <3>2, <3>3, Numbers
  <2> QED BY <1>1, <2>3, <2>4, <2>5 DEF Leased, OnePerTask, JustLeased
<1> QED BY <1>4, <1>5, <1>6 DEF WorkerInv

-----------------------------------------------------------------------------
(* The worker: theorems.                                                   *)

\* Every step keeps the invariant.
LEMMA NextWorker == WorkerInv /\ [WorkerNext]_workerVars => WorkerInv'
<1> SUFFICES ASSUME WorkerInv, [WorkerNext]_workerVars PROVE WorkerInv'
  OBVIOUS
<1>1. CASE UNCHANGED workerVars
  <2>1. UNCHANGED <<task, poll, busy, cancelled, lost>>
    BY <1>1 DEF workerVars
  <2>2. WorkerTypes' /\ PoolBounded' /\ (Undisturbed' => Undisturbed)
    BY <2>1 DEF WorkerInv, WorkerTypes, PoolBounded, Undisturbed
  <2>3. Leased => Leased'
    BY <2>1 DEF Leased, Kept, OnePerTask, JustLeased, Holds
  <2> QED BY <2>2, <2>3 DEF WorkerInv
<1>2. CASE WorkerNext
  BY <1>2, PollKeeps, PollLostKeeps, TakeSlotKeeps, StopKeeps, HeartbeatKeeps, SilenceKeeps,
     ReturnKeeps, ReportKeeps, ReportLostKeeps, SweepKeeps, TickKeeps DEF WorkerNext
<1> QED BY <1>1, <1>2

\* The queue's rows, the poll loops and the goroutines keep their shape, and no
\* more goroutines run than there are slots, for any number of each.
THEOREM SlotsBoundHandlers == WorkerSpec => []WorkerTypeOK
<1>1. WorkerInv => WorkerTypeOK
  BY DEF WorkerInv, WorkerTypes, PoolBounded, WorkerTypeOK, TaskRow
<1> QED BY InitWorker, NextWorker, <1>1, PTL DEF WorkerSpec

\* A worker that is alive, whose calls get through and that has a slot for every
\* task keeps the lease of a running handler, however long it runs.
THEOREM HeartbeatsKeepLease == WorkerSpec => []KeptWhileRunning
<1>1. WorkerInv => KeptWhileRunning
  BY DEF WorkerInv, Undisturbed, Leased, Kept, KeptWhileRunning
<1> QED BY InitWorker, NextWorker, <1>1, PTL DEF WorkerSpec

=============================================================================
