------------------------------- MODULE Leader -------------------------------
(***************************************************************************)
(* Leader election (store/leader.go, cmd/engine/main.go): each replica of  *)
(* the engine tries once, at boot, to take a Postgres advisory lock; the   *)
(* one that gets it runs the background loops for as long as it lives.     *)
(*                                                                         *)
(* The lock belongs to a database session, not to a process: Postgres      *)
(* frees it when the session ends, whatever the process goes on to do.     *)
(***************************************************************************)
EXTENDS Naturals, FiniteSets

CONSTANTS
    Replica,
    Nobody,     \* the lock is free
    Lingers,    \* TRUE: a dead process's session may outlive it for a while
    MaxLosses   \* bound: sessions lost under a live leader

ASSUME LeaderAssumption ==
    /\ Nobody \notin Replica
    /\ IsFiniteSet(Replica)
    /\ Lingers \in BOOLEAN
    /\ MaxLosses \in Nat

VARIABLES
    proc,       \* what each replica's process is doing
    lock,       \* the replica whose session holds the advisory lock
    losses      \* auxiliary: sessions lost under a live leader so far

vars == <<proc, lock, losses>>

\* A leader runs the loops; a standby serves the API only.  The context of a
\* resigning leader is cancelled, so its loops start no further transaction.
State == {"down", "booting", "leader", "standby", "resigning"}

Init ==
    /\ proc = [r \in Replica |-> "down"]
    /\ lock = Nobody
    /\ losses = 0

Boot(r) ==
    /\ proc[r] = "down"
    /\ proc' = [proc EXCEPT ![r] = "booting"]
    /\ UNCHANGED <<lock, losses>>

\* Mutants: the answer of pg_try_advisory_lock is not looked at, or always
\* taken for a no.
TakenAnyway(r) ==
    /\ lock' = IF lock = Nobody THEN r ELSE lock
    /\ proc' = [proc EXCEPT ![r] = "leader"]

NeverTaken(r) ==
    /\ proc' = [proc EXCEPT ![r] = "standby"]
    /\ UNCHANGED lock

\* pg_try_advisory_lock does not wait.
TryAdvisoryLock(r) ==
    \/ /\ lock = Nobody
       /\ lock' = r
       /\ proc' = [proc EXCEPT ![r] = "leader"]
    \/ /\ lock # Nobody
       /\ proc' = [proc EXCEPT ![r] = "standby"]
       /\ UNCHANGED lock

AcquireLeadership(r) ==
    /\ proc[r] = "booting"
    /\ TryAdvisoryLock(r)
    /\ UNCHANGED losses

\* SIGTERM: the context is cancelled and the server shuts down.  A standby has
\* nothing to give back.
Shutdown(r) ==
    /\ \/ /\ proc[r] = "leader"
          /\ proc' = [proc EXCEPT ![r] = "resigning"]
       \/ /\ proc[r] = "standby"
          /\ proc' = [proc EXCEPT ![r] = "down"]
    /\ UNCHANGED <<lock, losses>>

Freed(r) == IF lock = r THEN Nobody ELSE lock

\* The deferred Release of a leader, as main returns.
Release(r) ==
    /\ proc[r] = "resigning"
    /\ proc' = [proc EXCEPT ![r] = "down"]
    /\ lock' = Freed(r)
    /\ UNCHANGED losses

\* A crash, or os.Exit on an error.  The session dies with the process or,
\* when the host or the network died too, some time later.
Crash(r) ==
    /\ proc[r] # "down"
    /\ proc' = [proc EXCEPT ![r] = "down"]
    /\ \/ lock' = Freed(r)
       \/ Lingers /\ UNCHANGED lock
    /\ UNCHANGED losses

\* Postgres notices that the process behind the session is gone.
SessionEnds(r) ==
    /\ lock = r
    /\ proc[r] \in {"down", "booting", "standby"}
    /\ lock' = Nobody
    /\ UNCHANGED <<proc, losses>>

\* The connection breaks under a live leader (a failover of the database, an
\* idle timeout on the way): Postgres frees the lock, the process is not told.
SessionLost(r) ==
    /\ lock = r
    /\ proc[r] = "leader"
    /\ losses < MaxLosses
    /\ lock' = Nobody
    /\ losses' = losses + 1
    /\ UNCHANGED proc

Next ==
    \E r \in Replica :
        \/ Boot(r)
        \/ AcquireLeadership(r)
        \/ Shutdown(r)
        \/ Release(r)
        \/ Crash(r)
        \/ SessionEnds(r)
        \/ SessionLost(r)

Spec == Init /\ [][Next]_vars

\* A replica that boots again and again is not cut down every time, a shutdown
\* ends, and Postgres notices a dead session.
FairSpec ==
    /\ Spec
    /\ \A r \in Replica : /\ SF_vars(AcquireLeadership(r))
                          /\ WF_vars(Release(r))
                          /\ WF_vars(SessionEnds(r))

-----------------------------------------------------------------------------
\* The replicas whose loops run.
Leading == {r \in Replica : proc[r] = "leader"}

\* Processes and the lock stay within their states.
TypeOK ==
    /\ proc \in [Replica -> State]
    /\ lock \in Replica \cup {Nobody}
    /\ losses \in Nat

\* At most one replica runs the background loops, and every further one is
\* owed to a session that was lost under a live leader: boots, crashes,
\* shutdowns and lingering sessions alone never give two.
LeadersAccounted == Cardinality(Leading) <= 1 + losses

\* Only the holder of the advisory lock runs the loops.
OnlyHolderLeads == Leading \subseteq {lock}

\* A free lock does not stay free: when a replica is down, its restart gives the
\* cluster a leader, whatever crashes or is shut down meanwhile.
LeaderReturns ==
    \A r \in Replica : lock = Nobody /\ proc[r] = "down" ~> Leading # {}

\* A crashed leader yields to a standby: while one is up, the cluster gets a
\* leader again without waiting for a restart.
StandbyTakesOver ==
    \A r \in Replica :
        Leading = {} /\ proc[r] = "standby"
            ~> Leading # {} \/ proc[r] # "standby"

=============================================================================
