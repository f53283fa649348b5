----------------------------- MODULE Schedules ------------------------------
(***************************************************************************)
(* Cron schedules (engine/schedules.go, api/schedules.go and the schedule  *)
(* tables of the stores): the schedule loop claims due schedules, starts   *)
(* an instance for each and marks the run, while the API creates, pauses,  *)
(* resumes and deletes them.                                               *)
(*                                                                         *)
(* The clock counts minutes, the granularity of cron.  What a cron         *)
(* expression means is the set of minutes it matches.  A row another       *)
(* tenant asks for is not found, which changes nothing; tenants are left   *)
(* out.                                                                    *)
(***************************************************************************)
EXTENDS Naturals, FiniteSets

CONSTANTS
    Schedule,   \* schedule ids
    Occurrence, \* the minutes the cron expression matches
    Loop,       \* processes that run the schedule loop
    Limit,      \* schedules a loop takes at a time
    ClaimFor,   \* minutes a claim lasts
    Backend,    \* "mem" or "pg"
    MaxTime,    \* bound: the calendar stops here, claims still run out
    MaxResumes  \* bound: times a schedule is resumed

ASSUME ScheduleAssumption ==
    /\ Occurrence \subseteq Nat
    /\ Limit \in Nat \ {0}
    /\ ClaimFor \in Nat \ {0}
    /\ MaxTime \in Nat
    /\ MaxResumes \in Nat
    /\ Backend \in {"mem", "pg"}

VARIABLES
    sched,      \* workflow_schedules
    runs,       \* the instances started
    loop,       \* each loop's pass: its clock reading, the rows it still has
                \* to take and the one it has started, if any
    resuming,   \* the clock reading of a resume between its two store calls
    minute      \* the wall clock

vars == <<sched, runs, loop, resuming, minute>>

Absent  == [status |-> "ABSENT"]
Deleted == [status |-> "DELETED"]
NoTime  == MaxTime + 1

\* A row as a loop read it.
Copy == [id : Schedule, next : Occurrence, resumes : 0..MaxResumes]

CopyOf(s) ==
    [id |-> s, next |-> sched[s].next, resumes |-> sched[s].resumes]

\* A loop between two passes.
Idle == [now |-> NoTime, todo |-> {}, current |-> {}]

Exists(s) == sched[s].status = "PRESENT"

\* The occurrences strictly after a minute; empty stands for the error "no cron
\* occurrence found within 5 years".
After(t) == {o \in Occurrence : o > t}

NextAfter(t) == CHOOSE o \in After(t) : \A p \in After(t) : o <= p

-----------------------------------------------------------------------------
(* The API.                                                                *)

\* Auxiliary: since, the minute from which the row was last told to run; resumes,
\* how often that was by a resume; and shared, whether a pass ever took the row
\* while another one still had it.
CreateSchedule(s, enabled) ==
    /\ sched[s] = Absent
    /\ After(minute) # {}
    /\ sched' = [sched EXCEPT ![s] = [status  |-> "PRESENT",
                                      enabled |-> enabled,
                                      next    |-> NextAfter(minute),
                                      claim   |-> 0,
                                      since   |-> minute,
                                      resumes |-> 0,
                                      shared  |-> FALSE]]
    /\ UNCHANGED <<runs, loop, resuming, minute>>

\* Pausing leaves next_run_at and the claim alone.
PauseSchedule(s) ==
    /\ Exists(s)
    /\ sched[s].enabled
    /\ sched' = [sched EXCEPT ![s].enabled = FALSE]
    /\ UNCHANGED <<runs, loop, resuming, minute>>

\* Resuming reads the row and the clock, then writes the row.
ReadResume(s) ==
    /\ Exists(s)
    /\ resuming[s] = NoTime
    /\ sched[s].resumes < MaxResumes
    /\ After(minute) # {}
    /\ resuming' = [resuming EXCEPT ![s] = minute]
    /\ UNCHANGED <<sched, runs, loop, minute>>

WriteResume(s) ==
    /\ resuming[s] # NoTime
    /\ sched' = IF Exists(s)
                  THEN [sched EXCEPT ![s] =
                          [sched[s] EXCEPT !.enabled = TRUE,
                                           !.next = NextAfter(resuming[s]),
                                           !.since = resuming[s],
                                           !.resumes = sched[s].resumes + 1]]
                  ELSE sched
    /\ resuming' = [resuming EXCEPT ![s] = NoTime]
    /\ UNCHANGED <<runs, loop, minute>>

DeleteSchedule(s) ==
    /\ Exists(s)
    /\ sched' = [sched EXCEPT ![s] = Deleted]
    /\ UNCHANGED <<runs, loop, resuming, minute>>

-----------------------------------------------------------------------------
(* The schedule loop.                                                      *)

\* Mutant: only the very minute counts.
DueNow == {s \in Schedule : /\ Exists(s)
                            /\ sched[s].enabled
                            /\ sched[s].next = minute
                            /\ sched[s].claim = 0}

Due == {s \in Schedule : /\ Exists(s)
                         /\ sched[s].enabled
                         /\ sched[s].next <= minute
                         /\ sched[s].claim = 0}

\* The batches a pass may get: the longest due, up to the limit.
Batch ==
    {S \in SUBSET Due :
        /\ Cardinality(S) = IF Cardinality(Due) < Limit THEN Cardinality(Due)
                                                       ELSE Limit
        /\ \A s \in S, r \in Due \ S : sched[s].next <= sched[r].next}

\* postgres.go claims the rows it returns; memory.go claims every due row and
\* then cuts the list to the limit.
Claimed(S) == IF Backend = "mem" THEN Due ELSE S

\* Some pass has read the row and is not through with it.
InHand(s) ==
    \E l \in Loop : \E c \in loop[l].todo \cup loop[l].current : c.id = s

\* A pass reads the clock once, and works on the rows as they were then.
DueSchedules(l) ==
    /\ loop[l] = Idle
    /\ Due # {}
    /\ \E S \in Batch :
          /\ loop' = [loop EXCEPT ![l] =
                        [now     |-> minute,
                         todo    |-> {CopyOf(s) : s \in S},
                         current |-> {}]]
          /\ sched' = [s \in Schedule |->
                         IF s \in Claimed(S)
                           THEN [sched[s] EXCEPT !.claim = ClaimFor,
                                                 !.shared = @ \/ InHand(s)]
                           ELSE sched[s]]
    /\ UNCHANGED <<runs, resuming, minute>>

\* Mutant: the key holds the time of the pass.
KeyOfPass(l, c) == [id |-> c.id, at |-> loop[l].now]

scheduleIdempotencyKey(l, c) == [id |-> c.id, at |-> c.next]

\* What is left of a pass.
Pass(l, todo, current) ==
    IF todo = {} /\ current = {}
      THEN Idle
      ELSE [now |-> loop[l].now, todo |-> todo, current |-> current]

\* StartInstance: a key that is taken returns the instance that has it.  Auxiliary:
\* pass and taken, the clock readings of the passes that first and last took the
\* occurrence, and resumes, the row's when it was first taken.
StartRun(l, c) ==
    LET key == scheduleIdempotencyKey(l, c)
        now == loop[l].now
    IN  /\ c \in loop[l].todo
        /\ loop[l].current = {}
        /\ runs' = IF \E r \in runs : r.key = key
                     THEN {IF r.key = key THEN [r EXCEPT !.taken = now] ELSE r :
                             r \in runs}
                     ELSE runs \cup {[id |-> c.id, slot |-> c.next, key |-> key,
                                      pass |-> now, taken |-> now,
                                      resumes |-> c.resumes]}
        /\ loop' = [loop EXCEPT ![l] = Pass(l, loop[l].todo \ {c}, {c})]
        /\ UNCHANGED <<sched, resuming, minute>>

\* Mutant: the next occurrence is computed from the run.
MarkedFromRun(row, c, now) ==
    [row EXCEPT !.next = NextAfter(c.next), !.claim = 0]

\* The row as MarkScheduleRun writes it: unconditionally, from the clock
\* reading of the pass.
Marked(row, c, now) == [row EXCEPT !.next = NextAfter(now), !.claim = 0]

\* Mutant: a failed start is marked like a run.
StartFailsMarked(l, c) ==
    /\ c \in loop[l].todo
    /\ loop[l].current = {}
    /\ loop' = [loop EXCEPT ![l] = Pass(l, loop[l].todo \ {c}, {})]
    /\ sched' = IF Exists(c.id) /\ After(loop[l].now) # {}
                  THEN [sched EXCEPT ![c.id] =
                          Marked(sched[c.id], c, loop[l].now)]
                  ELSE sched
    /\ UNCHANGED <<runs, resuming, minute>>

\* StartInstance fails, say because the workflow is not registered any more:
\* the schedule keeps its claim and its next_run_at.
StartFails(l, c) ==
    /\ c \in loop[l].todo
    /\ loop[l].current = {}
    /\ loop' = [loop EXCEPT ![l] = Pass(l, loop[l].todo \ {c}, {})]
    /\ UNCHANGED <<sched, runs, resuming, minute>>

\* NextAfterInLocation and MarkScheduleRun.  Without a next occurrence, or when
\* the row is gone, an error is logged and the pass goes on.
MarkScheduleRun(l, c) ==
    /\ c \in loop[l].current
    /\ sched' = IF Exists(c.id) /\ After(loop[l].now) # {}
                  THEN [sched EXCEPT ![c.id] =
                          Marked(sched[c.id], c, loop[l].now)]
                  ELSE sched
    /\ loop' = [loop EXCEPT ![l] = Pass(l, loop[l].todo, {})]
    /\ UNCHANGED <<runs, resuming, minute>>

\* The start of c has inserted its instance and then fails, or the mark does: the
\* error is logged and the pass goes on.
MarkFails(l, c) ==
    /\ c \in loop[l].current
    /\ loop' = [loop EXCEPT ![l] = Pass(l, loop[l].todo, {})]
    /\ UNCHANGED <<sched, runs, resuming, minute>>

\* The process stops in mid-pass.
AbortPass(l) ==
    /\ loop[l] # Idle
    /\ loop' = [loop EXCEPT ![l] = Idle]
    /\ UNCHANGED <<sched, runs, resuming, minute>>

-----------------------------------------------------------------------------
Tick ==
    /\ minute < MaxTime \/ \E s \in Schedule : Exists(s) /\ sched[s].claim > 0
    /\ minute' = IF minute < MaxTime THEN minute + 1 ELSE minute
    /\ sched' = [s \in Schedule |->
                   IF Exists(s) /\ sched[s].claim > 0
                     THEN [sched[s] EXCEPT !.claim = sched[s].claim - 1]
                     ELSE sched[s]]
    /\ UNCHANGED <<runs, loop, resuming>>

Init ==
    /\ sched    = [s \in Schedule |-> Absent]
    /\ runs     = {}
    /\ loop     = [l \in Loop |-> Idle]
    /\ resuming = [s \in Schedule |-> NoTime]
    /\ minute   = 0

Next ==
    \/ \E s \in Schedule :
          \/ \E enabled \in BOOLEAN : CreateSchedule(s, enabled)
          \/ PauseSchedule(s)
          \/ ReadResume(s)
          \/ WriteResume(s)
          \/ DeleteSchedule(s)
    \/ \E l \in Loop :
          \/ DueSchedules(l)
          \/ \E c \in Copy : \/ StartRun(l, c)
                            \/ StartFails(l, c)
                            \/ MarkScheduleRun(l, c)
                            \/ MarkFails(l, c)
          \/ AbortPass(l)
    \/ Tick

Spec == Init /\ [][Next]_vars

\* The loop ticks for ever and the clock with it; a pass is not cut down, nor
\* its start refused, every time.
FairSpec ==
    /\ Spec
    /\ WF_vars(Tick)
    /\ \A l \in Loop : /\ WF_vars(DueSchedules(l))
                       /\ WF_vars(\E c \in Copy : MarkScheduleRun(l, c))
    /\ \A s \in Schedule :
          SF_vars(\E l \in Loop, c \in Copy : c.id = s /\ StartRun(l, c))

-----------------------------------------------------------------------------
(* What the schedules promise.                                             *)

Row == [status : {"PRESENT"}, enabled : BOOLEAN, next : Occurrence,
        claim : 0..ClaimFor, since : 0..MaxTime, resumes : 0..MaxResumes,
        shared : BOOLEAN]

\* Rows, passes and calls in flight keep their shape: in particular
\* next_run_at is always an occurrence of the cron expression.
TypeOK ==
    /\ sched \in [Schedule -> Row \cup {Absent, Deleted}]
    /\ \A r \in runs : r.id \in Schedule /\ r.slot \in Occurrence
    /\ \A l \in Loop : /\ loop[l].now \in 0..NoTime
                       /\ loop[l].todo \subseteq Copy
                       /\ loop[l].current \subseteq Copy
    /\ resuming \in [Schedule -> 0..NoTime]
    /\ minute \in 0..MaxTime

\* However the passes of several loops overlap, are cut short and repeated,
\* an occurrence starts at most one instance.
OneRunPerOccurrence ==
    \A r, q \in runs : r.id = q.id /\ r.slot = q.slot => r = q

Ran(s, o) == \E r \in runs : r.id = s /\ r.slot = o

\* Every pass was through with the row before the next one took it: none
\* outlasted its claim.
Undisputed(s) == Exists(s) /\ ~sched[s].shared

\* No occurrence is lost: each one that next_run_at has moved past, since the
\* schedule was created or last resumed, was taken by a pass, or was skipped in
\* favour of an earlier one that a pass took when it was already due.  Only a pass
\* that outlasts its claim, and marks a row another one has taken meanwhile, may
\* skip one.
NoOccurrenceLost ==
    \A s \in Schedule : Undisputed(s) =>
        \A o \in Occurrence :
            sched[s].since < o /\ o < sched[s].next =>
                \E r \in runs : r.id = s /\ r.slot <= o /\ o <= r.taken

\* No catch-up: however many occurrences were missed, at most one run is started
\* for them.  Of two runs of a schedule, the later one is for an occurrence after
\* the pass that started the earlier one, unless it was resumed in between.
NoCatchUp ==
    \A r, q \in runs :
        /\ Undisputed(r.id)
        /\ r.id = q.id /\ r.resumes = q.resumes /\ r.slot < q.slot
        => r.pass < q.slot

\* A resumed schedule starts again after the resume: next_run_at stays ahead of
\* the moment the schedule was created or last resumed.
ResumeRecomputes ==
    \A s \in Schedule : Exists(s) => sched[s].next > sched[s].since

\* A due occurrence of an enabled schedule is run, unless the schedule is
\* paused, resumed, deleted or already moved on.
DueIsRun ==
    \A s \in Schedule : \A o \in Occurrence :
        Exists(s) /\ sched[s].enabled /\ sched[s].next = o /\ o <= minute
            ~> \/ Ran(s, o)
               \/ ~Exists(s)
               \/ ~sched[s].enabled
               \/ sched[s].next # o

=============================================================================
