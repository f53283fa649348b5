--------------------------- MODULE SchedulesProofs --------------------------
(***************************************************************************)
(* Proofs about the schedule loop, for any number of loops, schedules and  *)
(* occurrences: an occurrence is run once, none is lost, and missed ones   *)
(* are not caught up, whatever passes overlap, are cut short or meet a     *)
(* pause, a resume or a delete.  And about the expressions that name the   *)
(* occurrences: ParseCron and NextAfter are correct for every expression,  *)
(* every range of fields and every calendar.                               *)
(***************************************************************************)
EXTENDS Schedules, Cron, WellFoundedInduction, TLAPS

\* A leaf is left to Zenon unless it names the SMT solver.
USE ZenonT(30)

-----------------------------------------------------------------------------
(* The next occurrence.                                                    *)

\* A set of natural numbers has a least element.
LEMMA LeastNatural ==
    ASSUME NEW S \in SUBSET Nat, S # {}
    PROVE  \E m \in S : \A n \in S : m <= n
<1> DEFINE R == OpToRel(<, Nat)
<1>1. IsWellFoundedOn(R, Nat)
  BY NatLessThanWellFounded
<1>2. \A x, y \in Nat : <<y, x>> \in R <=> y < x
  BY DEF OpToRel
<1> HIDE DEF R
<1>3. \E x \in S : \A y \in S : ~(<<y, x>> \in R)
  BY <1>1, WFMin
<1>4. PICK x \in S : \A y \in S : ~(<<y, x>> \in R)
  BY <1>3
<1>5. \A y \in S : x \in Nat /\ y \in Nat /\ ~(y < x)
  BY <1>2, <1>4
<1>6. \A y \in S : x <= y
  BY SMTT(30), <1>5
<1>7. QED
  BY <1>6

\* NextAfter is the first occurrence strictly after a minute, if there is one.
LEMMA NextAfterFirst ==
    ASSUME NEW t \in Nat, After(t) # {}
    PROVE  /\ NextAfter(t) \in Occurrence /\ NextAfter(t) \in Nat
           /\ NextAfter(t) > t
           /\ \A o \in Occurrence : o > t => NextAfter(t) <= o
<1>1. After(t) \in SUBSET Nat
  BY ScheduleAssumption DEF After
<1>2. \E o \in After(t) : \A p \in After(t) : o <= p
  BY <1>1, LeastNatural
<1>3. NextAfter(t) \in After(t) /\ \A p \in After(t) : NextAfter(t) <= p
  BY <1>2 DEF NextAfter
<1>4. QED
  BY <1>1, <1>3 DEF After

-----------------------------------------------------------------------------
(* The inductive invariant.                                                *)

Run == [id : Schedule, slot : Occurrence, key : [id : Schedule, at : Nat],
        pass : 0..MaxTime, taken : 0..MaxTime, resumes : 0..MaxResumes]

Types ==
    /\ sched \in [Schedule -> Row \cup {Absent, Deleted}]
    /\ runs \subseteq Run
    /\ loop \in [Loop -> [now : 0..NoTime, todo : SUBSET Copy, current : SUBSET Copy]]
    /\ resuming \in [Schedule -> 0..NoTime]
    /\ minute \in 0..MaxTime

\* Loop l has copy c of a row to work off, or is at it.
Has(l, c) == c \in loop[l].todo \cup loop[l].current

\* The instances have the keys of their occurrences, and no two have the same.
Keyed ==
    /\ \A r \in runs : r.key = [id |-> r.id, at |-> r.slot] /\ r.slot <= r.pass
    /\ \A r, q \in runs : r.key = q.key => r = q

\* Instants that were read lie in the past, and what was checked then still holds.
Past ==
    /\ \A r \in runs : r.pass <= minute /\ r.taken <= minute
    /\ \A l \in Loop, c \in Copy : Has(l, c) => loop[l].now <= minute /\ c.next <= loop[l].now
    /\ \A l \in Loop : loop[l].todo \cap loop[l].current = {}
    /\ \A s \in Schedule : /\ Exists(s) => sched[s].since <= minute
                           /\ resuming[s] # NoTime =>
                                 resuming[s] <= minute /\ After(resuming[s]) # {}
                           /\ resuming[s] # NoTime /\ Exists(s) =>
                                 /\ sched[s].since <= resuming[s]
                                 /\ sched[s].resumes < MaxResumes

\* Nothing refers to a schedule that has not been created.
NotYet ==
    \A s \in Schedule : sched[s] = Absent =>
       /\ resuming[s] = NoTime
       /\ \A r \in runs : r.id # s
       /\ \A l \in Loop, c \in Copy : Has(l, c) => c.id # s

\* A pass took the occurrence, or an earlier one when this one was already due.
Covered(s, o) == \E r \in runs : r.id = s /\ r.slot <= o /\ o <= r.taken

CoveredUpTo(s, next) ==
    \A o \in Occurrence : sched[s].since < o /\ o < next => Covered(s, o)

\* What a run leaves behind, next being the occurrence that is to follow: it is
\* still the run's own, or lies after the pass that started the run.
LeadsTo(r, next) == r.slot = next \/ r.pass < next

\* Only one pass has the row, as a copy that a resume at most has made stale.
InOneHand(s) ==
    \A l, m \in Loop, c, d \in Copy :
       Has(l, c) /\ Has(m, d) /\ c.id = s /\ d.id = s => l = m /\ c = d

CopySound(s, l, c) ==
    /\ CoveredUpTo(s, c.next)
    /\ c.resumes <= sched[s].resumes
    /\ c.resumes = sched[s].resumes => c.next = sched[s].next
    /\ \A r \in runs : r.id = s => /\ r.pass <= loop[l].now /\ r.taken <= loop[l].now
                                   /\ r.resumes = c.resumes => LeadsTo(r, c.next)
    /\ c \in loop[l].current =>
          \E r \in runs : r.id = s /\ r.slot = c.next /\ r.taken = loop[l].now

RunsSound(s) ==
    /\ \A r \in runs : r.id = s =>
          /\ r.resumes <= sched[s].resumes
          /\ r.resumes = sched[s].resumes => LeadsTo(r, sched[s].next)
    /\ \A r, q \in runs :
          r.id = s /\ q.id = s /\ r.resumes = q.resumes /\ r.slot < q.slot => r.pass < q.slot

Sound(s) ==
    /\ InOneHand(s)
    /\ CoveredUpTo(s, sched[s].next)
    /\ \A l \in Loop, c \in Copy : Has(l, c) /\ c.id = s => CopySound(s, l, c)
    /\ RunsSound(s)

AllSound == \A s \in Schedule : Undisputed(s) => Sound(s)

SchedulesInv == Types /\ Keyed /\ Past /\ NotYet /\ AllSound

-----------------------------------------------------------------------------
(* Frames.                                                                 *)

\* A schedule stays sound while its row keeps its times, its runs stay and passes
\* at most let go of it.
LEMMA SoundFrame ==
    ASSUME NEW s \in Schedule, Sound(s),
           sched'[s].since = sched[s].since, sched'[s].next = sched[s].next,
           sched'[s].resumes = sched[s].resumes,
           \A r : r.id = s => (r \in runs' <=> r \in runs),
           \A l \in Loop, c \in Copy : c.id = s /\ Has(l, c)' =>
              /\ Has(l, c) /\ loop'[l].now = loop[l].now
              /\ c \in loop'[l].current => c \in loop[l].current
    PROVE  Sound(s)'
<1>1. InOneHand(s)'
  BY DEF Sound, InOneHand
<1>2. \A o : Covered(s, o) => Covered(s, o)'
  BY DEF Covered
<1>3. \A n : CoveredUpTo(s, n) => CoveredUpTo(s, n)'
  BY <1>2 DEF CoveredUpTo
<1>4. ASSUME NEW l \in Loop, NEW c \in Copy, Has(l, c)', c.id = s
      PROVE  CopySound(s, l, c)'
  <2>1. CopySound(s, l, c)
    BY <1>4 DEF Sound
  <2>2. QED
    BY <1>3, <1>4, <2>1 DEF CopySound, LeadsTo
<1>5. RunsSound(s)'
  BY DEF Sound, RunsSound, LeadsTo
<1>6. CoveredUpTo(s, sched[s].next)'
  BY <1>3 DEF Sound
<1>7. QED
  BY <1>1, <1>4, <1>5, <1>6 DEF Sound

\* A row that is there has its fields.
LEMMA RowThere ==
    ASSUME Types, NEW s \in Schedule
    PROVE  /\ Exists(s) <=> sched[s] \in Row
           /\ Exists(s) => /\ sched[s].next \in Occurrence /\ sched[s].next \in Nat
                           /\ sched[s].since \in Nat /\ sched[s].resumes \in 0..MaxResumes
           /\ sched[s] = Absent \/ sched[s] = Deleted \/ Exists(s)
           /\ sched[s] = Absent => ~Exists(s)
           /\ sched[s] = Deleted => ~Exists(s) /\ sched[s] # Absent
<1>1. sched[s] \in Row \/ sched[s] = Absent \/ sched[s] = Deleted
  BY DEF Types
<1>2. \A x \in Row : /\ x.status = "PRESENT" /\ x.next \in Occurrence /\ x.next \in Nat
                     /\ x.since \in Nat /\ x.resumes \in 0..MaxResumes
  <2>1. \A x \in Row : /\ x.status = "PRESENT" /\ x.next \in Occurrence
                       /\ x.since \in 0..MaxTime /\ x.resumes \in 0..MaxResumes
    BY DEF Row
  <2>2. Occurrence \subseteq Nat /\ 0..MaxTime \subseteq Nat
    BY SMTT(30), ScheduleAssumption
  <2>3. QED
    BY <2>1, <2>2
<1>3. Absent.status = "ABSENT" /\ Deleted.status = "DELETED"
  BY DEF Absent, Deleted
<1>4. QED
  BY <1>1, <1>2, <1>3 DEF Exists

\* The times of a copy are minutes.
LEMMA CopyTyped ==
    \A c \in Copy : /\ c.id \in Schedule /\ c.next \in Occurrence /\ c.next \in Nat
                    /\ c.resumes \in 0..MaxResumes /\ c.resumes \in Nat
<1>1. \A c \in Copy : /\ c.id \in Schedule /\ c.next \in Occurrence
                      /\ c.resumes \in 0..MaxResumes
  BY DEF Copy
<1>2. Occurrence \subseteq Nat /\ 0..MaxResumes \subseteq Nat
  BY SMTT(30), ScheduleAssumption
<1>3. QED
  BY <1>1, <1>2

\* Before the first call there is nothing.
LEMMA InitSound == Init => SchedulesInv
<1> SUFFICES ASSUME Init PROVE SchedulesInv
  OBVIOUS
<1>1. Types
  BY SMTT(30), ScheduleAssumption DEF Init, Types, Idle, NoTime
<1>2. \A l \in Loop : \A c : ~Has(l, c)
  BY DEF Init, Has, Idle
<1>3. \A s \in Schedule : ~Exists(s)
  BY DEF Init, Exists, Absent
<1>4. \A l \in Loop : loop[l].todo \cap loop[l].current = {}
  BY DEF Init, Idle
<1>5. QED
  BY <1>1, <1>2, <1>3, <1>4 DEF Init, SchedulesInv, Keyed, Past, NotYet, AllSound, Undisputed

-----------------------------------------------------------------------------
(* The API.                                                                *)

\* A call of the API moves one schedule only.
LEMMA OthersSound ==
    ASSUME AllSound, UNCHANGED <<runs, loop>>, NEW s \in Schedule,
           \A o \in Schedule \ {s} : sched'[o] = sched[o],
           Undisputed(s)' => Sound(s)'
    PROVE  AllSound'
<1>1. ASSUME NEW o \in Schedule \ {s}, Undisputed(o)' PROVE Sound(o)'
  <2>1. Sound(o)
    BY <1>1 DEF AllSound, Undisputed, Exists
  <2>2. QED
    BY <2>1, SoundFrame DEF Has
<1>2. QED
  BY <1>1 DEF AllSound

\* A schedule that is created is sound: nothing is behind it.
LEMMA CreateSound ==
    ASSUME SchedulesInv, NEW s \in Schedule, NEW enabled \in BOOLEAN, CreateSchedule(s, enabled)
    PROVE  SchedulesInv'
<1> DEFINE new == [status  |-> "PRESENT", enabled |-> enabled, next |-> NextAfter(minute),
                   claim |-> 0, since |-> minute, resumes |-> 0, shared |-> FALSE]
<1>1. /\ sched[s] = Absent /\ After(minute) # {} /\ minute \in Nat
      /\ sched' = [sched EXCEPT ![s] = new] /\ UNCHANGED <<runs, loop, resuming, minute>>
  BY SMTT(30), ScheduleAssumption DEF CreateSchedule, SchedulesInv, Types
<1>2. /\ NextAfter(minute) \in Occurrence /\ NextAfter(minute) \in Nat
      /\ \A o \in Occurrence : o > minute => NextAfter(minute) <= o
  BY <1>1, NextAfterFirst
<1>3. new \in Row /\ new.since = minute /\ new.next = NextAfter(minute)
  BY SMTT(30), <1>2, ScheduleAssumption DEF Row, SchedulesInv, Types
<1>4. new # Absent
  BY <1>3 DEF Row, Absent
<1> HIDE DEF new
<1>5. Types'
  BY <1>1, <1>3 DEF SchedulesInv, Types
<1>6. sched'[s] = new /\ \A o \in Schedule \ {s} : sched'[o] = sched[o]
  BY <1>1 DEF SchedulesInv, Types
<1>7. Keyed'
  BY <1>1 DEF SchedulesInv, Keyed
<1>8. resuming[s] = NoTime /\ (\A r \in runs : r.id # s)
      /\ \A l \in Loop, c \in Copy : Has(l, c) => c.id # s
  BY <1>1 DEF SchedulesInv, NotYet
<1>9. Past'
  BY SMTT(30), <1>1, <1>3, <1>6, <1>8 DEF SchedulesInv, Past, Has, Exists
<1>10. NotYet'
  BY <1>1, <1>4, <1>6 DEF SchedulesInv, NotYet, Has
<1>11. Sound(s)'
  <2>1. CoveredUpTo(s, sched[s].next)'
    BY SMTT(30), <1>1, <1>2, <1>3, <1>6, ScheduleAssumption DEF CoveredUpTo
  <2>2. QED
    BY <1>1, <1>8, <2>1 DEF Sound, InOneHand, RunsSound, Has
<1>12. QED
  BY <1>1, <1>5, <1>6, <1>7, <1>9, <1>10, <1>11, OthersSound DEF SchedulesInv

\* Pausing leaves the row's times alone.
LEMMA PauseSound ==
    ASSUME SchedulesInv, NEW s \in Schedule, PauseSchedule(s)
    PROVE  SchedulesInv'
<1> DEFINE new == [sched[s] EXCEPT !.enabled = FALSE]
<1>1. Exists(s) /\ sched[s] \in Row
  BY RowThere DEF PauseSchedule, SchedulesInv
<1>2. sched' = [sched EXCEPT ![s] = new] /\ UNCHANGED <<runs, loop, resuming, minute>>
  BY DEF PauseSchedule
<1>3. /\ new \in Row /\ new.since = sched[s].since /\ new.next = sched[s].next
      /\ new.resumes = sched[s].resumes /\ new.shared = sched[s].shared
  BY <1>1 DEF Row
<1>4. new # Absent
  BY <1>3 DEF Row, Absent
<1> HIDE DEF new
<1>5. Types'
  BY <1>2, <1>3 DEF SchedulesInv, Types
<1>6. sched'[s] = new /\ \A o \in Schedule \ {s} : sched'[o] = sched[o]
  BY <1>2 DEF SchedulesInv, Types
<1>7. Keyed'
  BY <1>2 DEF SchedulesInv, Keyed
<1>8. Past'
  BY <1>1, <1>2, <1>3, <1>6 DEF SchedulesInv, Past, Has, Exists
<1>9. NotYet'
  BY <1>2, <1>4, <1>6 DEF SchedulesInv, NotYet, Has
<1>10. Undisputed(s)' => Sound(s)'
  <2>1. Undisputed(s)' => Sound(s)
    BY <1>1, <1>3, <1>6 DEF SchedulesInv, AllSound, Undisputed
  <2>2. QED
    BY <1>2, <1>3, <1>6, <2>1, SoundFrame DEF Has
<1>11. QED
  BY <1>2, <1>5, <1>6, <1>7, <1>8, <1>9, <1>10, OthersSound DEF SchedulesInv

\* A schedule that is gone has nothing to keep.
LEMMA DeleteSound ==
    ASSUME SchedulesInv, NEW s \in Schedule, DeleteSchedule(s)
    PROVE  SchedulesInv'
<1>1. sched' = [sched EXCEPT ![s] = Deleted] /\ UNCHANGED <<runs, loop, resuming, minute>>
  BY DEF DeleteSchedule
<1>2. Deleted # Absent /\ Deleted.status # "PRESENT"
  BY DEF Deleted, Absent
<1>3. Types'
  BY <1>1 DEF SchedulesInv, Types
<1>4. sched'[s] = Deleted /\ \A o \in Schedule \ {s} : sched'[o] = sched[o]
  BY <1>1 DEF SchedulesInv, Types
<1>5. Keyed' /\ ~Exists(s)'
  BY <1>1, <1>2, <1>4 DEF SchedulesInv, Keyed, Exists
<1>6. Past'
  BY <1>1, <1>4, <1>5 DEF SchedulesInv, Past, Has, Exists
<1>7. NotYet'
  BY <1>1, <1>2, <1>4 DEF SchedulesInv, NotYet, Has
<1>8. QED
  BY <1>1, <1>3, <1>4, <1>5, <1>6, <1>7, OthersSound DEF SchedulesInv, Undisputed

\* The read half of a resume only remembers the minute.
LEMMA ReadResumeSound ==
    ASSUME SchedulesInv, NEW s \in Schedule, ReadResume(s)
    PROVE  SchedulesInv'
<1>1. /\ Exists(s) /\ resuming' = [resuming EXCEPT ![s] = minute]
      /\ After(minute) # {} /\ sched[s].resumes < MaxResumes
      /\ UNCHANGED <<sched, runs, loop, minute>>
  BY DEF ReadResume
<1>2. sched[s] # Absent /\ minute \in 0..MaxTime /\ minute \in 0..NoTime
  BY SMTT(30), <1>1, RowThere, ScheduleAssumption DEF SchedulesInv, Types, NoTime
<1>3. Types'
  BY <1>1, <1>2 DEF SchedulesInv, Types
<1>4. resuming'[s] = minute /\ \A o \in Schedule \ {s} : resuming'[o] = resuming[o]
  BY <1>1 DEF SchedulesInv, Types
<1>5. Keyed'
  BY <1>1 DEF SchedulesInv, Keyed
<1>6. Past'
  BY SMTT(30), <1>1, <1>2, <1>4 DEF SchedulesInv, Past, Has, Exists
<1>7. NotYet'
  BY <1>1, <1>2, <1>4 DEF SchedulesInv, NotYet, Has
<1>8. Undisputed(s)' => Sound(s)'
  BY <1>1, SoundFrame DEF SchedulesInv, AllSound, Undisputed, Exists, Has
<1>9. QED
  BY <1>1, <1>3, <1>5, <1>6, <1>7, <1>8, OthersSound DEF SchedulesInv

\* A resume starts the account of the schedule anew.
LEMMA WriteResumeSound ==
    ASSUME SchedulesInv, NEW s \in Schedule, WriteResume(s)
    PROVE  SchedulesInv'
<1> DEFINE t == resuming[s]
           new == [sched[s] EXCEPT !.enabled = TRUE, !.next = NextAfter(t), !.since = t,
                                   !.resumes = sched[s].resumes + 1]
<1>1. /\ t # NoTime /\ t <= minute /\ After(t) # {} /\ t \in 0..MaxTime /\ t \in Nat
      /\ minute \in 0..MaxTime
  BY SMTT(30), ScheduleAssumption DEF WriteResume, SchedulesInv, Past, Types, NoTime
<1>2. UNCHANGED <<runs, loop, minute>> /\ resuming' = [resuming EXCEPT ![s] = NoTime]
  BY DEF WriteResume
<1>3. resuming'[s] = NoTime /\ \A o \in Schedule \ {s} : resuming'[o] = resuming[o]
  BY <1>2 DEF SchedulesInv, Types
<1>4. resuming' \in [Schedule -> 0..NoTime] /\ Keyed'
  BY SMTT(30), <1>2, ScheduleAssumption DEF SchedulesInv, Types, Keyed, NoTime
<1>5. CASE ~Exists(s)
  <2>1. sched' = sched
    BY <1>5 DEF WriteResume
  <2>2. Types'
    BY <1>2, <1>4, <2>1 DEF SchedulesInv, Types
  <2>3. Past'
    BY <1>2, <1>3, <2>1 DEF SchedulesInv, Past, Has, Exists
  <2>4. NotYet'
    BY <1>2, <1>3, <2>1 DEF SchedulesInv, NotYet, Has
  <2>5. ~Undisputed(s)'
    BY <1>5, <2>1 DEF Undisputed, Exists
  <2>6. QED
    BY <1>2, <1>4, <2>1, <2>2, <2>3, <2>4, <2>5, OthersSound DEF SchedulesInv
<1>6. CASE Exists(s)
  <2>1. /\ sched[s] \in Row /\ sched[s].since <= t /\ sched[s].resumes < MaxResumes
        /\ sched[s].resumes \in 0..MaxResumes /\ sched[s].since \in Nat
    BY <1>1, <1>6, RowThere DEF SchedulesInv, Past
  <2>2. sched' = [sched EXCEPT ![s] = new]
    BY <1>6 DEF WriteResume
  <2>3. /\ NextAfter(t) \in Occurrence /\ NextAfter(t) \in Nat
        /\ \A o \in Occurrence : o > t => NextAfter(t) <= o
    BY <1>1, NextAfterFirst
  <2>4. sched[s].resumes + 1 \in 0..MaxResumes
    BY SMTT(30), <2>1, ScheduleAssumption
  <2>5. /\ new \in Row /\ new.since = t /\ new.next = NextAfter(t)
        /\ new.resumes = sched[s].resumes + 1 /\ new.shared = sched[s].shared
    BY <1>1, <2>1, <2>3, <2>4 DEF Row
  <2>6. new # Absent
    BY <2>5 DEF Row, Absent
  <2> HIDE DEF new, t
  <2>7. Types'
    BY <1>2, <1>4, <2>2, <2>5 DEF SchedulesInv, Types
  <2>8. sched'[s] = new /\ \A o \in Schedule \ {s} : sched'[o] = sched[o]
    BY <2>2 DEF SchedulesInv, Types
  <2>9. Past'
    BY <1>1, <1>2, <1>3, <2>5, <2>8 DEF SchedulesInv, Past, Has, Exists
  <2>10. NotYet'
    BY <1>2, <2>6, <2>8, <1>3 DEF SchedulesInv, NotYet, Has
  <2>11. ASSUME Undisputed(s)' PROVE Sound(s)'
    <3>1. Sound(s)
      BY <1>6, <2>5, <2>8, <2>11 DEF SchedulesInv, AllSound, Undisputed
    <3>2. \A o : Covered(s, o) => Covered(s, o)'
      BY <1>2 DEF Covered
    <3>3. \A n \in Nat : CoveredUpTo(s, n) => CoveredUpTo(s, n)'
      <4>1. Occurrence \subseteq Nat /\ t \in Nat /\ sched'[s].since = t
        BY <1>1, <2>5, <2>8, ScheduleAssumption
      <4>2. ASSUME NEW o \in Occurrence, t < o PROVE sched[s].since < o
        <5>1. o \in Nat
          BY <4>1
        <5>2. QED
          BY SMTT(30), <2>1, <4>1, <4>2, <5>1
      <4>3. SUFFICES ASSUME NEW n \in Nat, CoveredUpTo(s, n), NEW o \in Occurrence,
                            sched'[s].since < o, o < n
                     PROVE  Covered(s, o)'
        BY DEF CoveredUpTo
      <4>4. QED
        BY <3>2, <4>1, <4>2, <4>3 DEF CoveredUpTo
    <3>4. CoveredUpTo(s, sched[s].next)'
      <4>1. SUFFICES ASSUME NEW o \in Occurrence, t < o, o < NextAfter(t) PROVE FALSE
        BY <2>5, <2>8 DEF CoveredUpTo
      <4>2. o \in Nat /\ t \in Nat
        BY <1>1, ScheduleAssumption
      <4>3. NextAfter(t) <= o
        BY SMTT(30), <2>3, <4>1, <4>2
      <4>4. QED
        BY SMTT(30), <2>3, <4>1, <4>2, <4>3
    <3>5. InOneHand(s)'
      BY SMTT(30), <1>2, <3>1 DEF Sound, InOneHand, Has
    <3>6. ASSUME NEW l \in Loop, NEW c \in Copy, Has(l, c)', c.id = s
          PROVE  CopySound(s, l, c)'
      <4>1. CopySound(s, l, c)
        BY <1>2, <3>1, <3>6 DEF Sound, Has
      <4>2. c.next \in Nat /\ c.resumes \in Nat
        BY CopyTyped
      <4>3. c.resumes < sched'[s].resumes
        BY SMTT(30), <2>1, <2>5, <2>8, <4>1, <4>2 DEF CopySound
      <4>4. QED
        BY SMTT(30), <1>2, <2>1, <2>5, <2>8, <3>3, <4>1, <4>2, <4>3 DEF CopySound
    <3>7. RunsSound(s)'
      <4>1. \A r \in runs : r.resumes \in Nat
        BY SMTT(30) DEF SchedulesInv, Types, Run
      <4>2. QED
        BY SMTT(30), <1>2, <2>1, <2>5, <2>8, <3>1, <4>1 DEF Sound, RunsSound
    <3>8. QED
      BY <3>4, <3>5, <3>6, <3>7 DEF Sound
  <2>12. QED
    BY <1>2, <1>4, <2>7, <2>8, <2>9, <2>10, <2>11, OthersSound DEF SchedulesInv
<1>7. QED
  BY <1>5, <1>6

-----------------------------------------------------------------------------
(* The loop.                                                               *)

PassRow == [now : 0..NoTime, todo : SUBSET Copy, current : SUBSET Copy]

\* A pass that lets go of rows disturbs nothing.
LEMMA LetGoSound ==
    ASSUME SchedulesInv, NEW l \in Loop, NEW p \in PassRow, loop' = [loop EXCEPT ![l] = p],
           p.todo \subseteq loop[l].todo, p.current \subseteq loop[l].current,
           p.todo \cup p.current # {} => p.now = loop[l].now,
           UNCHANGED <<sched, runs, resuming, minute>>
    PROVE  SchedulesInv'
<1>1. loop'[l] = p /\ \A m \in Loop \ {l} : loop'[m] = loop[m]
  BY DEF SchedulesInv, Types
<1>2. \A m \in Loop, d \in Copy : Has(m, d)' =>
         /\ Has(m, d) /\ loop'[m].now = loop[m].now
         /\ d \in loop'[m].current => d \in loop[m].current
  BY <1>1 DEF Has
<1>3. Types' /\ Keyed'
  BY DEF SchedulesInv, Types, Keyed, PassRow
<1>4. Past'
  BY SMTT(30), <1>1, <1>2 DEF SchedulesInv, Past, Exists
<1>5. NotYet'
  BY <1>2 DEF SchedulesInv, NotYet
<1>6. ASSUME NEW s \in Schedule, Undisputed(s)' PROVE Sound(s)'
  <2>1. Sound(s)
    BY <1>6 DEF SchedulesInv, AllSound, Undisputed, Exists
  <2>2. QED
    BY <1>2, <2>1, SoundFrame
<1>7. QED
  BY <1>3, <1>4, <1>5, <1>6 DEF SchedulesInv, AllSound

\* A start or a mark that fails, and a pass that is cut short.
LEMMA FailSound ==
    ASSUME SchedulesInv, NEW l \in Loop
    PROVE  /\ \A c \in Copy : StartFails(l, c) \/ MarkFails(l, c) => SchedulesInv'
           /\ AbortPass(l) => SchedulesInv'
<1>1. loop[l] \in PassRow /\ loop[l].todo \in SUBSET Copy /\ NoTime \in 0..NoTime
  BY SMTT(30), ScheduleAssumption DEF SchedulesInv, Types, PassRow, NoTime
<1>2. ASSUME NEW c \in Copy, StartFails(l, c) PROVE SchedulesInv'
  <2> DEFINE p == Pass(l, loop[l].todo \ {c}, {})
  <2>1. loop[l].todo \ {c} \in SUBSET Copy
    BY <1>1
  <2>2. /\ p \in PassRow /\ p.todo = loop[l].todo \ {c} /\ p.current = {}
        /\ (loop[l].todo \ {c}) \cup {} # {} => p.now = loop[l].now
    BY <1>1, <2>1 DEF Pass, Idle, PassRow
  <2>3. p.todo \cup p.current # {} => p.now = loop[l].now
    BY <2>2
  <2>4. loop' = [loop EXCEPT ![l] = p] /\ UNCHANGED <<sched, runs, resuming, minute>>
    BY <1>2 DEF StartFails
  <2> HIDE DEF p
  <2>5. QED
    BY <2>2, <2>3, <2>4, LetGoSound
<1>3. ASSUME AbortPass(l) PROVE SchedulesInv'
  <2>1. Idle \in PassRow /\ Idle.todo = {} /\ Idle.current = {}
    BY <1>1 DEF Idle, PassRow
  <2>2. QED
    BY <1>3, <2>1, LetGoSound DEF AbortPass
<1>4. ASSUME NEW c \in Copy, MarkFails(l, c) PROVE SchedulesInv'
  <2> DEFINE p == Pass(l, loop[l].todo, {})
  <2>1. /\ p \in PassRow /\ p.todo = loop[l].todo /\ p.current = {}
        /\ loop[l].todo # {} => p.now = loop[l].now
    BY <1>1 DEF Pass, Idle, PassRow
  <2>2. p.todo \cup p.current # {} => p.now = loop[l].now
    BY <2>1
  <2>3. loop' = [loop EXCEPT ![l] = p] /\ UNCHANGED <<sched, runs, resuming, minute>>
    BY <1>4 DEF MarkFails
  <2> HIDE DEF p
  <2>4. QED
    BY <2>1, <2>2, <2>3, LetGoSound
<1>5. QED
  BY <1>2, <1>3, <1>4

\* A pass that takes rows nobody has leaves them sound; where it takes one that
\* somebody has, the schedule counts as shared from then on.
LEMMA DueSound ==
    ASSUME SchedulesInv, NEW l \in Loop, DueSchedules(l)
    PROVE  SchedulesInv'
<1>1. /\ loop[l] = Idle /\ UNCHANGED <<runs, resuming, minute>>
      /\ minute \in 0..MaxTime /\ minute \in Nat /\ minute \in 0..NoTime /\ Types
  <2>1. loop[l] = Idle /\ UNCHANGED <<runs, resuming, minute>> /\ Types /\ minute \in 0..MaxTime
    BY DEF DueSchedules, SchedulesInv, Types
  <2>2. QED
    BY SMTT(30), <2>1, ScheduleAssumption DEF NoTime
<1>2. PICK S \in Batch :
         /\ loop' = [loop EXCEPT ![l] =
                       [now |-> minute, todo |-> {CopyOf(s) : s \in S}, current |-> {}]]
         /\ sched' = [s \in Schedule |->
                        IF s \in Claimed(S)
                          THEN [sched[s] EXCEPT !.claim = ClaimFor,
                                                !.shared = @ \/ InHand(s)]
                          ELSE sched[s]]
  BY DEF DueSchedules
<1>3. S \subseteq Due /\ S \subseteq Claimed(S) /\ Claimed(S) \subseteq Due
  BY DEF Batch, Claimed
<1>4. \A s \in Due : /\ s \in Schedule /\ Exists(s) /\ sched[s].next <= minute /\ sched[s] \in Row
                     /\ sched[s].next \in Occurrence /\ sched[s].resumes \in 0..MaxResumes
  BY <1>1, RowThere DEF Due
<1>5. \A s \in Schedule :
         /\ sched'[s] \in Row \/ sched'[s] = sched[s]
         /\ Exists(s)' => Exists(s)
         /\ sched'[s] = Absent => sched[s] = Absent
         /\ Exists(s)' => /\ sched'[s].since = sched[s].since /\ sched'[s].next = sched[s].next
                          /\ sched'[s].resumes = sched[s].resumes
                          /\ ~sched'[s].shared => ~sched[s].shared /\ (s \in S => ~InHand(s))
  <2> SUFFICES ASSUME NEW s \in Schedule
               PROVE  /\ sched'[s] \in Row \/ sched'[s] = sched[s]
                      /\ Exists(s)' => Exists(s)
                      /\ sched'[s] = Absent => sched[s] = Absent
                      /\ Exists(s)' => /\ sched'[s].since = sched[s].since
                                       /\ sched'[s].next = sched[s].next
                                       /\ sched'[s].resumes = sched[s].resumes
                                       /\ ~sched'[s].shared =>
                                             ~sched[s].shared /\ (s \in S => ~InHand(s))
    OBVIOUS
  <2>1. CASE s \notin Claimed(S)
    BY <1>2, <1>3, <2>1 DEF Exists
  <2>2. CASE s \in Claimed(S)
    <3> DEFINE both == sched[s].shared \/ InHand(s)
               new == [sched[s] EXCEPT !.claim = ClaimFor, !.shared = both]
    <3>1. sched[s] \in Row /\ Exists(s) /\ ClaimFor \in 0..ClaimFor
      BY SMTT(30), <1>3, <1>4, <2>2, ScheduleAssumption
    <3>2. sched'[s] = new /\ both \in BOOLEAN
      BY <1>2, <2>2
    <3>3. both \in BOOLEAN => /\ new \in Row /\ new.since = sched[s].since
                              /\ new.next = sched[s].next /\ new.resumes = sched[s].resumes
                              /\ new.shared = both
      <4> HIDE DEF both
      <4> QED BY <3>1 DEF Row
    <3>4. new \in Row => new # Absent
      <4> HIDE DEF new
      <4> QED BY SMTT(30) DEF Row, Absent
    <3> HIDE DEF new
    <3>5. QED
      BY <3>1, <3>2, <3>3, <3>4
  <2>3. QED
    BY <2>1, <2>2
<1>6. /\ loop'[l] = [now |-> minute, todo |-> {CopyOf(s) : s \in S}, current |-> {}]
      /\ \A m \in Loop \ {l} : loop'[m] = loop[m]
  BY <1>1, <1>2 DEF Types
<1>7. \A s \in S : /\ CopyOf(s) \in Copy /\ CopyOf(s).id = s /\ CopyOf(s).next = sched[s].next
                   /\ CopyOf(s).resumes = sched[s].resumes
  BY <1>3, <1>4 DEF CopyOf, Copy
<1>8. /\ loop'[l].now = minute /\ loop'[l].current = {}
      /\ \A c : Has(l, c)' => c.id \in S /\ c = CopyOf(c.id)
      /\ \A m \in Loop \ {l} : \A c : Has(m, c)' <=> Has(m, c)
      /\ \A c : ~Has(l, c)
  BY SMTT(30), <1>1, <1>6, <1>7 DEF Has, Idle
<1>9. Types'
  <2>1. sched' \in [Schedule -> Row \cup {Absent, Deleted}]
    BY <1>1, <1>2, <1>5 DEF Types
  <2>2. loop'[l] \in [now : 0..NoTime, todo : SUBSET Copy, current : SUBSET Copy]
    BY SMTT(30), <1>1, <1>6, <1>7
  <2>3. loop' \in [Loop -> [now : 0..NoTime, todo : SUBSET Copy, current : SUBSET Copy]]
    BY <1>1, <1>2, <1>6, <2>2 DEF Types
  <2>4. QED
    BY <1>1, <2>1, <2>3 DEF Types
<1>10. Keyed'
  BY <1>1 DEF SchedulesInv, Keyed
<1>11. Past'
  <2>1. ASSUME NEW m \in Loop, NEW c \in Copy, Has(m, c)'
        PROVE  loop'[m].now <= minute /\ c.next <= loop'[m].now
    <3>1. CASE m = l
      <4>1. c.id \in S /\ c.next = sched[c.id].next
        BY SMTT(30), <1>7, <1>8, <2>1, <3>1
      <4>2. QED
        BY SMTT(30), <1>1, <1>3, <1>4, <1>8, <3>1, <4>1
    <3>2. CASE m # l
      BY <1>6, <1>8, <2>1, <3>2 DEF SchedulesInv, Past
    <3>3. QED
      BY <3>1, <3>2
  <2>2. \A m \in Loop : loop'[m].todo \cap loop'[m].current = {}
    BY <1>6, <1>8 DEF SchedulesInv, Past
  <2>3. QED
    BY <1>1, <1>5, <2>1, <2>2 DEF SchedulesInv, Past
<1>12. NotYet'
  <2>1. ASSUME NEW s \in Schedule, sched'[s] = Absent, NEW m \in Loop, NEW c \in Copy, Has(m, c)'
        PROVE  c.id # s
    <3>1. sched[s] = Absent /\ s \notin S
      BY <1>1, <1>3, <1>4, <1>5, <2>1, RowThere
    <3>2. QED
      BY <1>8, <2>1, <3>1 DEF SchedulesInv, NotYet
  <2>2. QED
    BY <1>1, <1>5, <2>1 DEF SchedulesInv, NotYet
<1>13. ASSUME NEW s \in Schedule, Undisputed(s)' PROVE Sound(s)'
  <2>1. /\ Sound(s)
        /\ s \in S => ~InHand(s)
        /\ sched'[s].since = sched[s].since /\ sched'[s].next = sched[s].next
        /\ sched'[s].resumes = sched[s].resumes
    BY <1>5, <1>13 DEF SchedulesInv, AllSound, Undisputed
  <2>2. CASE s \notin S
    <3>1. \A m \in Loop, c \in Copy : c.id = s /\ Has(m, c)' => Has(m, c) /\ loop'[m] = loop[m]
      BY <1>6, <1>8, <2>2
    <3>2. QED
      BY <1>1, <2>1, <3>1, SoundFrame
  <2>3. CASE s \in S
    <3>1. \A m \in Loop, c \in Copy : Has(m, c)' /\ c.id = s => m = l /\ c = CopyOf(s)
      BY <1>8, <2>1, <2>3 DEF InHand, Has
    <3>2. InOneHand(s)'
      BY <3>1 DEF InOneHand
    <3>3. CoveredUpTo(s, sched[s].next)'
      BY <1>1, <2>1 DEF Sound, CoveredUpTo, Covered
    <3>4. RunsSound(s)'
      BY <1>1, <2>1 DEF Sound, RunsSound, LeadsTo
    <3>5. \A r \in runs : r.pass <= minute /\ r.taken <= minute
      BY DEF SchedulesInv, Past
    <3>6. ASSUME NEW m \in Loop, NEW c \in Copy, Has(m, c)', c.id = s
          PROVE  CopySound(s, m, c)'
      <4>1. m = l /\ c.next = sched'[s].next /\ c.resumes = sched'[s].resumes
        BY <1>7, <2>1, <2>3, <3>1, <3>6
      <4>2. c.resumes <= sched'[s].resumes
        BY SMTT(30), <1>3, <1>4, <2>1, <2>3, <4>1, ScheduleAssumption
      <4>3. QED
        BY <1>1, <1>8, <3>3, <3>4, <3>5, <4>1, <4>2 DEF CopySound, RunsSound
    <3>7. QED
      BY <3>2, <3>3, <3>4, <3>6 DEF Sound
  <2>4. QED
    BY <2>2, <2>3
<1>14. QED
  BY <1>9, <1>10, <1>11, <1>12, <1>13 DEF SchedulesInv, AllSound

\* The runs of two states are the same instance.
SameRun(q, r) ==
    /\ q.id = r.id /\ q.slot = r.slot /\ q.key = r.key
    /\ q.pass = r.pass /\ q.resumes = r.resumes

NewRun(l, c) ==
    [id |-> c.id, slot |-> c.next, key |-> scheduleIdempotencyKey(l, c),
     pass |-> loop[l].now, taken |-> loop[l].now, resumes |-> c.resumes]

\* StartInstance adds the run of the occurrence, or finds it and takes it again.
LEMMA StartedRuns ==
    ASSUME SchedulesInv, NEW l \in Loop, NEW c \in Copy, StartRun(l, c)
    PROVE  /\ runs' \subseteq Run
           /\ \A q \in runs' : \/ q = NewRun(l, c)
                               \/ \E r \in runs :
                                     SameRun(q, r) /\ q.taken \in {r.taken, loop[l].now}
           /\ \A r \in runs : \E q \in runs' : /\ SameRun(q, r)
                                               /\ q.taken \in {r.taken, loop[l].now}
           /\ \A r : r.id # c.id => (r \in runs' <=> r \in runs)
           /\ \E q \in runs' : q.id = c.id /\ q.slot = c.next /\ q.taken = loop[l].now
           /\ Keyed'
           /\ loop[l].now <= minute /\ c.next <= loop[l].now /\ loop[l].now \in 0..MaxTime
<1> DEFINE key == scheduleIdempotencyKey(l, c)
           now == loop[l].now
           again(r) == [r EXCEPT !.taken = now]
<1>1. /\ Types /\ c \in loop[l].todo /\ key = [id |-> c.id, at |-> c.next]
      /\ runs' = IF \E r \in runs : r.key = key
                   THEN {IF r.key = key THEN again(r) ELSE r : r \in runs}
                   ELSE runs \cup {NewRun(l, c)}
  BY DEF StartRun, scheduleIdempotencyKey, NewRun, SchedulesInv
<1>2. Has(l, c) /\ now \in 0..NoTime /\ minute \in 0..MaxTime
  BY <1>1 DEF Has, Types
<1>3. now <= minute /\ c.next <= now
  BY <1>2 DEF SchedulesInv, Past
<1>4. now \in 0..MaxTime
  BY SMTT(30), <1>2, <1>3, ScheduleAssumption DEF NoTime
<1>5. \A r \in runs : r \in Run /\ r.key = [id |-> r.id, at |-> r.slot] /\ r.slot <= r.pass
  BY <1>1 DEF Types, SchedulesInv, Keyed
<1>6. \A r, q \in runs : r.key = q.key => r = q
  BY DEF SchedulesInv, Keyed
<1>7. \A r \in Run : again(r) \in Run /\ SameRun(again(r), r) /\ again(r).taken = now
  BY <1>4 DEF Run, SameRun
<1>8. \A r \in runs : r.key = key => r.id = c.id /\ r.slot = c.next
  <2>1. \A i, j, x, y : [id |-> i, at |-> x] = [id |-> j, at |-> y] => i = j /\ x = y
    OBVIOUS
  <2>2. ASSUME NEW r \in runs, r.key = key PROVE r.id = c.id /\ r.slot = c.next
    <3>1. [id |-> r.id, at |-> r.slot] = [id |-> c.id, at |-> c.next]
      BY <1>1, <1>5, <2>2
    <3>2. QED
      BY <2>1, <3>1
  <2>3. QED
    BY <2>2
<1> HIDE DEF now, key, again
<1>9. CASE \E r \in runs : r.key = key
  <2>1. runs' = {IF r.key = key THEN again(r) ELSE r : r \in runs}
    BY <1>1, <1>9
  <2>2. \A q \in runs' : \E r \in runs : /\ r.key = key => q = again(r)
                                         /\ r.key # key => q = r
    BY <2>1
  <2>3. \A r \in runs : /\ r.key = key => again(r) \in runs'
                        /\ r.key # key => r \in runs'
    BY <2>1
  <2>4. ASSUME NEW q \in runs'
        PROVE  \E r \in runs : q \in Run /\ SameRun(q, r) /\ q.taken \in {r.taken, now}
    <3>1. PICK r \in runs : (r.key = key => q = again(r)) /\ (r.key # key => q = r)
      BY <2>2
    <3>2. r \in Run /\ SameRun(r, r)
      BY <1>5 DEF SameRun
    <3>3. q \in Run /\ SameRun(q, r) /\ q.taken \in {r.taken, now}
      BY <1>7, <3>1, <3>2
    <3>4. QED
      BY <3>3
  <2>5. \A r \in runs : \E q \in runs' : SameRun(q, r) /\ q.taken \in {r.taken, now}
    BY <1>5, <1>7, <2>3 DEF SameRun
  <2>6. ASSUME NEW r, r.id # c.id PROVE r \in runs' <=> r \in runs
    <3>1. ASSUME r \in runs' PROVE r \in runs
      <4>1. PICK q \in runs : (q.key = key => r = again(q)) /\ (q.key # key => r = q)
        BY <2>2, <3>1
      <4>2. q.key = key => SameRun(again(q), q) /\ q.id = c.id
        BY <1>5, <1>7, <1>8
      <4>3. QED
        BY SMTT(30), <2>6, <4>1, <4>2 DEF SameRun
    <3>2. ASSUME r \in runs PROVE r \in runs'
      BY <1>8, <2>3, <2>6, <3>2
    <3>3. QED
      BY <3>1, <3>2
  <2>7. \E q \in runs' : q.id = c.id /\ q.slot = c.next /\ q.taken = now
    <3>1. PICK r \in runs : r.key = key
      BY <1>9
    <3>2. again(r) \in runs' /\ SameRun(again(r), r) /\ again(r).taken = now
      BY <1>5, <1>7, <2>3, <3>1
    <3>3. again(r).id = c.id /\ again(r).slot = c.next
      BY <1>8, <3>1, <3>2 DEF SameRun
    <3>4. QED
      BY <3>2, <3>3
  <2>8. \A q \in runs' : q.key = [id |-> q.id, at |-> q.slot] /\ q.slot <= q.pass
    BY <1>5, <2>4 DEF SameRun
  <2>9. ASSUME NEW p \in runs', NEW q \in runs', p.key = q.key PROVE p = q
    <3>1. PICK r \in runs : (r.key = key => p = again(r)) /\ (r.key # key => p = r)
      BY <2>2
    <3>2. PICK o \in runs : (o.key = key => q = again(o)) /\ (o.key # key => q = o)
      BY <2>2
    <3>3. again(r).key = r.key /\ again(o).key = o.key
      BY <1>5, <1>7 DEF SameRun
    <3>4. r = o
      BY <1>6, <2>9, <3>1, <3>2, <3>3
    <3>5. QED
      BY <3>1, <3>2, <3>4
  <2>10. QED
    BY <1>3, <1>4, <2>4, <2>5, <2>6, <2>7, <2>8, <2>9 DEF Keyed, now
<1>10. CASE ~\E r \in runs : r.key = key
  <2> DEFINE new == NewRun(l, c)
  <2>1. runs' = runs \cup {new}
    BY <1>1, <1>10
  <2>2. /\ new \in Run /\ new.id = c.id /\ new.slot = c.next /\ new.taken = now
        /\ new.key = key /\ new.pass = now /\ new.key = [id |-> new.id, at |-> new.slot]
    BY <1>1, <1>4, CopyTyped DEF NewRun, Run, now, key, scheduleIdempotencyKey
  <2> HIDE DEF new
  <2>3. Keyed'
    BY <1>3, <1>5, <1>6, <1>10, <2>1, <2>2 DEF Keyed
  <2>4. QED
    BY <1>3, <1>4, <1>5, <2>1, <2>2, <2>3 DEF SameRun, now, new
<1>11. QED
  BY <1>9, <1>10

\* Taking an occurrence keeps the schedule sound: what the copy says is where the
\* earlier runs lead to.
LEMMA StartSound ==
    ASSUME SchedulesInv, NEW l \in Loop, NEW c \in Copy, StartRun(l, c)
    PROVE  SchedulesInv'
<1> DEFINE now == loop[l].now
           p == Pass(l, loop[l].todo \ {c}, {c})
<1>1. /\ c \in loop[l].todo /\ loop[l].current = {} /\ Has(l, c)
      /\ UNCHANGED <<sched, resuming, minute>> /\ loop' = [loop EXCEPT ![l] = p]
  BY DEF StartRun, Has
<1>2. loop[l] \in PassRow /\ {c} # {}
  BY DEF SchedulesInv, Types, PassRow
<1>3. p \in PassRow /\ p.now = now /\ p.todo = loop[l].todo \ {c} /\ p.current = {c}
  BY <1>2 DEF Pass, PassRow
<1> HIDE DEF p
<1>4. loop'[l] = p /\ \A m \in Loop \ {l} : loop'[m] = loop[m]
  BY <1>1 DEF SchedulesInv, Types
<1>5. /\ \A m \in Loop : \A d : Has(m, d)' <=> Has(m, d)
      /\ \A m \in Loop : loop'[m].now = loop[m].now
      /\ \A m \in Loop, d \in Copy : d \in loop'[m].current => d \in loop[m].current \/ (m = l /\ d = c)
  <2>1. /\ \A d : Has(l, d)' <=> Has(l, d)
        /\ loop'[l].now = loop[l].now
        /\ \A d \in Copy : d \in loop'[l].current => d = c
    BY <1>1, <1>3, <1>4 DEF Has
  <2>2. QED
    BY <1>4, <2>1 DEF Has
<1>6. /\ runs' \subseteq Run
      /\ \A q \in runs' : \/ q = NewRun(l, c)
                          \/ \E r \in runs : SameRun(q, r) /\ q.taken \in {r.taken, now}
      /\ \A r \in runs : \E q \in runs' : SameRun(q, r) /\ q.taken \in {r.taken, now}
      /\ \A r : r.id # c.id => (r \in runs' <=> r \in runs)
      /\ \E q \in runs' : q.id = c.id /\ q.slot = c.next /\ q.taken = now
      /\ Keyed' /\ now <= minute /\ c.next <= now /\ now \in 0..MaxTime
  BY StartedRuns
<1>7. LET n == NewRun(l, c)
      IN  /\ n.id = c.id /\ n.slot = c.next /\ n.pass = now /\ n.taken = now
          /\ n.resumes = c.resumes
  BY DEF NewRun
<1>8. Types'
  BY <1>1, <1>3, <1>6 DEF SchedulesInv, Types, PassRow
<1>9. Past'
  <2>1. \A q \in runs' : q.pass <= minute /\ q.taken <= minute
    BY <1>6, <1>7 DEF SchedulesInv, Past, SameRun
  <2>2. \A m \in Loop : loop'[m].todo \cap loop'[m].current = {}
    BY <1>3, <1>4 DEF SchedulesInv, Past
  <2>3. QED
    BY <1>1, <1>5, <2>1, <2>2 DEF SchedulesInv, Past, Exists
<1>10. NotYet'
  BY SMTT(30), <1>1, <1>5, <1>6 DEF SchedulesInv, NotYet
<1>11. ASSUME NEW s \in Schedule, Undisputed(s)' PROVE Sound(s)'
  <2>1. Sound(s)
    BY <1>1, <1>11 DEF SchedulesInv, AllSound, Undisputed, Exists
  <2>2. CASE s # c.id
    BY <1>1, <1>5, <1>6, <2>1, <2>2, SoundFrame
  <2>3. CASE s = c.id
    <3>1. CopySound(s, l, c) /\ InOneHand(s) /\ RunsSound(s)
      BY <1>1, <2>1, <2>3 DEF Sound
    <3>2. \A r \in runs : /\ r.id = s => r.taken <= now /\ r.pass <= now
                          /\ r.id = s /\ r.resumes = c.resumes => LeadsTo(r, c.next)
                          /\ r.slot \in Nat /\ r.taken \in Nat /\ r.pass \in Nat
                          /\ r.slot <= r.pass
      <4>1. \A r \in Run : r.slot \in Nat /\ r.taken \in Nat /\ r.pass \in Nat
        <5>1. \A r \in Run : r.slot \in Occurrence /\ r.taken \in 0..MaxTime /\ r.pass \in 0..MaxTime
          BY DEF Run
        <5>2. Occurrence \subseteq Nat /\ 0..MaxTime \subseteq Nat
          BY SMTT(30), ScheduleAssumption
        <5>3. QED
          BY <5>1, <5>2
      <4>2. QED
        BY <3>1, <4>1 DEF CopySound, SchedulesInv, Types, Keyed
    <3>3. ASSUME NEW o \in Nat, Covered(s, o) PROVE Covered(s, o)'
      <4>1. PICK r \in runs : r.id = s /\ r.slot <= o /\ o <= r.taken
        BY <3>3 DEF Covered
      <4>2. PICK q \in runs' : SameRun(q, r) /\ q.taken \in {r.taken, now}
        BY <1>6
      <4>3. q.id = s /\ q.slot <= o /\ o <= q.taken
        BY SMTT(30), <1>6, <3>2, <4>1, <4>2 DEF SameRun
      <4>4. QED
        BY <4>3 DEF Covered
    <3>4. \A n : CoveredUpTo(s, n) => CoveredUpTo(s, n)'
      BY <1>1, <3>3, ScheduleAssumption DEF CoveredUpTo
    <3>5. InOneHand(s)'
      BY <1>5, <3>1 DEF InOneHand
    <3>6. ASSUME NEW q \in runs', q.id = s
          PROVE  /\ q.pass <= now /\ q.taken <= now
                 /\ q.resumes = c.resumes => LeadsTo(q, c.next)
                 /\ q.resumes <= sched[s].resumes
                 /\ q.resumes = sched[s].resumes => LeadsTo(q, sched[s].next)
      <4>1. CASE q = NewRun(l, c)
        BY SMTT(30), <1>6, <1>7, <3>1, <4>1 DEF CopySound, LeadsTo
      <4>2. ASSUME NEW r \in runs, SameRun(q, r), q.taken \in {r.taken, now}
            PROVE  /\ q.pass <= now /\ q.taken <= now
                   /\ q.resumes = c.resumes => LeadsTo(q, c.next)
                   /\ q.resumes <= sched[s].resumes
                   /\ q.resumes = sched[s].resumes => LeadsTo(q, sched[s].next)
        BY SMTT(30), <1>6, <3>1, <3>2, <3>6, <4>2 DEF RunsSound, SameRun, LeadsTo
      <4>3. QED
        BY <1>6, <4>1, <4>2
    <3>7. ASSUME NEW q \in runs', NEW o \in runs', q.id = s, o.id = s, q.resumes = o.resumes,
                 q.slot < o.slot
          PROVE  q.pass < o.slot
      <4>1. \A x \in runs' : \/ x.slot = c.next /\ x.pass = now /\ x.resumes = c.resumes
                             \/ \E r \in runs : SameRun(x, r)
        BY <1>6, <1>7
      <4>2. c.next \in Nat /\ now \in Nat
        BY SMTT(30), <1>6, CopyTyped, ScheduleAssumption
      <4>3. CASE q.slot = c.next /\ q.pass = now /\ q.resumes = c.resumes
        <5>1. PICK r \in runs : SameRun(o, r)
          BY SMTT(30), <3>7, <4>1, <4>2, <4>3
        <5>2. LeadsTo(r, c.next) /\ c.next < r.slot
          BY <3>2, <3>7, <4>3, <5>1 DEF SameRun
        <5>3. QED
          BY SMTT(30), <3>2, <4>2, <5>2 DEF LeadsTo
      <4>4. ASSUME NEW r \in runs, SameRun(q, r) PROVE q.pass < o.slot
        <5>1. CASE o.slot = c.next /\ o.pass = now /\ o.resumes = c.resumes
          <6>1. LeadsTo(r, c.next) /\ r.slot < c.next /\ q.pass = r.pass
            BY <3>2, <3>7, <4>4, <5>1 DEF SameRun
          <6>2. QED
            BY SMTT(30), <3>2, <4>2, <5>1, <6>1 DEF LeadsTo
        <5>2. ASSUME NEW t \in runs, SameRun(o, t) PROVE q.pass < o.slot
          BY <3>1, <3>7, <4>4, <5>2 DEF RunsSound, SameRun
        <5>3. QED
          BY <4>1, <5>1, <5>2
      <4>5. QED
        BY <4>1, <4>3, <4>4
    <3>8. RunsSound(s)'
      BY <1>1, <3>6, <3>7 DEF RunsSound
    <3>9. ASSUME NEW m \in Loop, NEW d \in Copy, Has(m, d)', d.id = s
          PROVE  CopySound(s, m, d)'
      <4>1. m = l /\ d = c
        BY <1>1, <1>5, <2>3, <3>1, <3>9 DEF InOneHand
      <4>2. \E q \in runs' : q.id = s /\ q.slot = c.next /\ q.taken = now
        BY <1>6, <2>3
      <4>3. loop'[l].now = now
        BY <1>5
      <4>4. QED
        BY <1>1, <3>1, <3>4, <3>6, <4>1, <4>2, <4>3 DEF CopySound
    <3>10. CoveredUpTo(s, sched[s].next)'
      BY <1>1, <2>1, <3>4 DEF Sound
    <3>11. QED
      BY <3>5, <3>8, <3>9, <3>10 DEF Sound
  <2>4. QED
    BY <2>2, <2>3
<1>12. QED
  BY <1>6, <1>8, <1>9, <1>10, <1>11 DEF SchedulesInv, AllSound

\* Marking a run moves the row past the pass, and whatever was due by then has been
\* taken by it.
LEMMA MarkSound ==
    ASSUME SchedulesInv, NEW l \in Loop, NEW c \in Copy, MarkScheduleRun(l, c)
    PROVE  SchedulesInv'
<1> DEFINE s == c.id
           now == loop[l].now
           p == Pass(l, loop[l].todo, {})
           new == Marked(sched[s], c, now)
<1>1. /\ c \in loop[l].current /\ Has(l, c) /\ s \in Schedule /\ Types
      /\ UNCHANGED <<runs, resuming, minute>> /\ loop' = [loop EXCEPT ![l] = p]
      /\ sched' = IF Exists(s) /\ After(now) # {} THEN [sched EXCEPT ![s] = new] ELSE sched
  BY CopyTyped DEF MarkScheduleRun, Has, SchedulesInv
<1>2. loop[l] \in PassRow /\ NoTime \in 0..NoTime
  BY SMTT(30), <1>1, ScheduleAssumption DEF Types, PassRow, NoTime
<1>3. /\ p \in PassRow /\ p.todo = loop[l].todo /\ p.current = {}
      /\ p.todo \cup p.current # {} => p.now = now
  BY <1>2 DEF Pass, Idle, PassRow
<1> HIDE DEF p
<1>4. CASE ~(Exists(s) /\ After(now) # {})
  <2>1. sched' = sched
    BY <1>1, <1>4
  <2>2. p.todo \subseteq loop[l].todo /\ p.current \subseteq loop[l].current
    BY <1>3
  <2>3. QED
    BY <1>1, <1>3, <2>1, <2>2, LetGoSound
<1>5. CASE Exists(s) /\ After(now) # {}
  <2>1. sched[s] \in Row /\ sched' = [sched EXCEPT ![s] = new]
    BY <1>1, <1>5, RowThere
  <2>2. now <= minute /\ now \in Nat /\ minute \in Nat
    BY SMTT(30), <1>1, <1>2, ScheduleAssumption DEF SchedulesInv, Past, Types, PassRow
  <2>3. /\ NextAfter(now) \in Occurrence /\ NextAfter(now) \in Nat /\ NextAfter(now) > now
        /\ \A o \in Occurrence : o > now => NextAfter(now) <= o
    BY <1>5, <2>2, NextAfterFirst
  <2>4. /\ new \in Row /\ new.since = sched[s].since /\ new.next = NextAfter(now)
        /\ new.resumes = sched[s].resumes /\ new.shared = sched[s].shared
    <3>1. 0 \in 0..ClaimFor
      BY SMTT(30), ScheduleAssumption
    <3>2. QED
      BY <2>1, <2>3, <3>1 DEF Marked, Row
  <2>5. new # Absent /\ new.status = "PRESENT"
    BY SMTT(30), <2>4 DEF Row, Absent
  <2> HIDE DEF new
  <2>6. sched'[s] = new /\ \A o \in Schedule \ {s} : sched'[o] = sched[o]
    BY <1>1, <2>1 DEF Types
  <2>7. loop'[l] = p /\ \A m \in Loop \ {l} : loop'[m] = loop[m]
    BY <1>1 DEF Types
  <2>8. /\ \A m \in Loop, d \in Copy : Has(m, d)' =>
              /\ Has(m, d) /\ loop'[m].now = loop[m].now
              /\ d \in loop'[m].current => d \in loop[m].current
        /\ ~Has(l, c)'
    BY <1>1, <1>3, <2>7 DEF Has, SchedulesInv, Past
  <2>9. Types'
    BY <1>1, <1>3, <2>1, <2>4 DEF Types, PassRow
  <2>10. Keyed'
    BY <1>1 DEF SchedulesInv, Keyed
  <2>11. Past'
    <3>1. \A m \in Loop : loop'[m].todo \cap loop'[m].current = {}
      BY <1>3, <2>7 DEF SchedulesInv, Past
    <3>2. QED
      BY SMTT(30), <1>1, <1>5, <2>4, <2>6, <2>8, <3>1 DEF SchedulesInv, Past, Exists
  <2>12. NotYet'
    BY SMTT(30), <1>1, <2>5, <2>6, <2>8 DEF SchedulesInv, NotYet
  <2>13. ASSUME NEW o \in Schedule, o # s, Undisputed(o)' PROVE Sound(o)'
    <3>1. Sound(o)
      BY <2>6, <2>13 DEF SchedulesInv, AllSound, Undisputed, Exists
    <3>2. QED
      BY <1>1, <2>6, <2>8, <2>13, <3>1, SoundFrame
  <2>14. ASSUME Undisputed(s)' PROVE Sound(s)'
    <3>1. Sound(s)
      BY <1>1, <1>5, <2>4, <2>6, <2>14 DEF SchedulesInv, AllSound, Undisputed
    <3>2. CopySound(s, l, c) /\ InOneHand(s) /\ RunsSound(s)
      BY <1>1, <3>1 DEF Sound
    <3>3. \A m \in Loop, d \in Copy : d.id = s => ~Has(m, d)'
      BY <1>1, <2>8, <3>2 DEF InOneHand
    <3>4. ASSUME NEW o \in Occurrence, sched'[s].since < o, o < sched'[s].next
          PROVE  Covered(s, o)'
      <4>1. o \in Nat /\ c.next \in Nat
        BY CopyTyped, ScheduleAssumption
      <4>2. o <= now
        BY SMTT(30), <2>2, <2>3, <2>4, <2>6, <3>4, <4>1
      <4>3. CASE o < c.next
        BY <1>1, <2>4, <2>6, <3>2, <3>4, <4>3 DEF CopySound, CoveredUpTo, Covered
      <4>4. CASE c.next <= o
        BY <1>1, <3>2, <4>2, <4>4 DEF CopySound, Covered
      <4>5. QED
        BY SMTT(30), <4>1, <4>3, <4>4
    <3>5. RunsSound(s)'
      <4>1. \A r \in runs : r.pass \in Nat
        <5>1. \A r \in Run : r.pass \in 0..MaxTime
          BY DEF Run
        <5>2. QED
          BY SMTT(30), <1>1, <5>1, ScheduleAssumption DEF Types
      <4>2. \A r \in runs : r.id = s => LeadsTo(r, sched'[s].next)
        BY SMTT(30), <2>2, <2>3, <2>4, <2>6, <3>2, <4>1 DEF CopySound, LeadsTo
      <4>3. QED
        BY <1>1, <2>4, <2>6, <3>2, <4>2 DEF RunsSound
    <3>6. QED
      BY <3>3, <3>4, <3>5 DEF Sound, InOneHand, CoveredUpTo
  <2>15. QED
    BY <2>9, <2>10, <2>11, <2>12, <2>13, <2>14 DEF SchedulesInv, AllSound
<1>6. QED
  BY <1>4, <1>5

\* The clock goes on, and claims run out.
LEMMA TickSound ==
    ASSUME SchedulesInv, Tick
    PROVE  SchedulesInv'
<1>1. Types /\ UNCHANGED <<runs, loop, resuming>> /\ minute \in 0..MaxTime
  BY DEF Tick, SchedulesInv, Types
<1>2. minute' \in 0..MaxTime /\ minute <= minute' /\ minute \in Nat /\ minute' \in Nat
  BY SMTT(30), <1>1, ScheduleAssumption DEF Tick
<1>3. ASSUME NEW s \in Schedule
      PROVE  /\ sched'[s] \in Row \/ sched'[s] = sched[s]
             /\ Exists(s)' => Exists(s)
             /\ sched'[s] = Absent => sched[s] = Absent
             /\ Exists(s)' => /\ sched'[s].since = sched[s].since /\ sched'[s].next = sched[s].next
                              /\ sched'[s].resumes = sched[s].resumes
                              /\ sched'[s].shared = sched[s].shared
  <2>1. CASE Exists(s) /\ sched[s].claim > 0
    <3> DEFINE new == [sched[s] EXCEPT !.claim = sched[s].claim - 1]
    <3>1. sched[s] \in Row /\ sched'[s] = new
      BY <1>1, <2>1, RowThere DEF Tick
    <3>2. sched[s].claim \in 0..ClaimFor
      BY <3>1 DEF Row
    <3>3. sched[s].claim - 1 \in 0..ClaimFor
      BY SMTT(30), <2>1, <3>2, ScheduleAssumption
    <3>4. /\ new \in Row /\ new.since = sched[s].since /\ new.next = sched[s].next
          /\ new.resumes = sched[s].resumes /\ new.shared = sched[s].shared
      BY <3>1, <3>3 DEF Row
    <3>5. new # Absent
      BY <3>4 DEF Row, Absent
    <3> HIDE DEF new
    <3>6. QED
      BY <2>1, <3>1, <3>4, <3>5
  <2>2. CASE ~(Exists(s) /\ sched[s].claim > 0)
    BY <1>1, <2>2 DEF Tick, Exists
  <2>3. QED
    BY <2>1, <2>2
<1>4. Types'
  <2>1. sched' \in [Schedule -> Row \cup {Absent, Deleted}]
    <3>1. sched' = [s \in Schedule |-> sched'[s]]
      BY DEF Tick
    <3>2. QED
      BY <1>1, <1>3, <3>1 DEF Types
  <2>2. QED
    BY <1>1, <1>2, <2>1 DEF Types
<1>5. Keyed'
  BY <1>1 DEF SchedulesInv, Keyed
<1>6. Past'
  <2>1. \A r \in runs : r.pass \in Nat /\ r.taken \in Nat
    <3>1. \A r \in Run : r.pass \in 0..MaxTime /\ r.taken \in 0..MaxTime
      BY DEF Run
    <3>2. QED
      BY SMTT(30), <1>1, <3>1, ScheduleAssumption DEF Types
  <2>2. \A l \in Loop : loop[l].now \in Nat
    BY SMTT(30), <1>1, ScheduleAssumption DEF Types, NoTime
  <2>3. \A s \in Schedule : resuming[s] \in Nat /\ (Exists(s) => sched[s].since \in Nat)
    BY SMTT(30), <1>1, RowThere, ScheduleAssumption DEF Types, NoTime
  <2>4. \A r \in runs : r.pass <= minute' /\ r.taken <= minute'
    BY SMTT(30), <1>2, <2>1 DEF SchedulesInv, Past
  <2>5. \A l \in Loop, c \in Copy : Has(l, c) => loop[l].now <= minute' /\ c.next <= loop[l].now
    BY SMTT(30), <1>2, <2>2 DEF SchedulesInv, Past
  <2>6. \A s \in Schedule : /\ Exists(s)' => sched'[s].since <= minute'
                            /\ resuming[s] # NoTime =>
                                  resuming[s] <= minute' /\ After(resuming[s]) # {}
                            /\ resuming[s] # NoTime /\ Exists(s)' =>
                                  /\ sched'[s].since <= resuming[s]
                                  /\ sched'[s].resumes < MaxResumes
    BY SMTT(30), <1>2, <1>3, <2>3 DEF SchedulesInv, Past
  <2>7. QED
    BY <1>1, <2>4, <2>5, <2>6 DEF SchedulesInv, Past, Has
<1>7. NotYet'
  BY <1>1, <1>3 DEF SchedulesInv, NotYet, Has
<1>8. ASSUME NEW s \in Schedule, Undisputed(s)' PROVE Sound(s)'
  <2>1. Sound(s)
    BY <1>3, <1>8 DEF SchedulesInv, AllSound, Undisputed
  <2>2. QED
    BY <1>1, <1>3, <1>8, <2>1, SoundFrame DEF Has, Undisputed
<1>9. QED
  BY <1>4, <1>5, <1>6, <1>7, <1>8 DEF SchedulesInv, AllSound

\* Every step keeps the invariant.
LEMMA NextSound == SchedulesInv /\ [Next]_vars => SchedulesInv'
<1> SUFFICES ASSUME SchedulesInv, [Next]_vars PROVE SchedulesInv'
  OBVIOUS
<1>1. CASE UNCHANGED vars
  <2>1. UNCHANGED <<sched, runs, loop, resuming, minute>>
    BY <1>1 DEF vars
  <2>2. \A l, c : Has(l, c)' <=> Has(l, c)
    BY <2>1 DEF Has
  <2>3. Types' /\ Keyed' /\ Past' /\ NotYet'
    BY <2>1, <2>2 DEF SchedulesInv, Types, Keyed, Past, NotYet, Exists
  <2>4. ASSUME NEW s \in Schedule, Undisputed(s)' PROVE Sound(s)'
    <3>1. Sound(s)
      BY <2>1, <2>4 DEF SchedulesInv, AllSound, Undisputed, Exists
    <3>2. QED
      BY <2>1, <2>2, <3>1, SoundFrame
  <2>5. QED
    BY <2>3, <2>4 DEF SchedulesInv, AllSound
<1>2. ASSUME NEW s \in Schedule,
             \/ \E enabled \in BOOLEAN : CreateSchedule(s, enabled)
             \/ PauseSchedule(s)
             \/ ReadResume(s)
             \/ WriteResume(s)
             \/ DeleteSchedule(s)
      PROVE  SchedulesInv'
  BY <1>2, CreateSound, PauseSound, ReadResumeSound, WriteResumeSound, DeleteSound
<1>3. ASSUME NEW l \in Loop,
             \/ DueSchedules(l)
             \/ \E c \in Copy : \/ StartRun(l, c) \/ StartFails(l, c)
                               \/ MarkScheduleRun(l, c) \/ MarkFails(l, c)
             \/ AbortPass(l)
      PROVE  SchedulesInv'
  BY <1>3, DueSound, StartSound, FailSound, MarkSound
<1>4. ASSUME Tick PROVE SchedulesInv'
  BY <1>4, TickSound
<1>5. QED
  BY <1>1, <1>2, <1>3, <1>4 DEF Next

\* What the invariant says of the properties.
LEMMA SchedulesSound ==
    SchedulesInv => OneRunPerOccurrence /\ NoCatchUp /\ NoOccurrenceLost
<1> SUFFICES ASSUME SchedulesInv PROVE OneRunPerOccurrence /\ NoCatchUp /\ NoOccurrenceLost
  OBVIOUS
<1>1. \A r \in runs : r.id \in Schedule
  BY DEF SchedulesInv, Types, Run
<1>2. OneRunPerOccurrence
  BY DEF SchedulesInv, Keyed, OneRunPerOccurrence
<1>3. NoCatchUp
  BY <1>1 DEF SchedulesInv, AllSound, Sound, RunsSound, NoCatchUp
<1>4. NoOccurrenceLost
  BY DEF SchedulesInv, AllSound, Sound, CoveredUpTo, Covered, NoOccurrenceLost
<1>5. QED
  BY <1>2, <1>3, <1>4

\* For any number of schedules, loops and occurrences, any batch limit and either
\* store, an occurrence starts one instance, whatever passes overlap, are cut
\* short or are repeated.
THEOREM SchedulesRunOnce == Spec => []OneRunPerOccurrence
<1>1. QED
  BY SchedulesSound, InitSound, NextSound, PTL DEF Spec

\* As long as no pass outlasts its claim, missed occurrences are made up for by
\* at most one run.
THEOREM SchedulesSkipMissed == Spec => []NoCatchUp
<1>1. QED
  BY SchedulesSound, InitSound, NextSound, PTL DEF Spec

\* As long as no pass outlasts its claim, next_run_at never moves past an
\* occurrence that nobody took.
THEOREM SchedulesLoseNone == Spec => []NoOccurrenceLost
<1>1. QED
  BY SchedulesSound, InitSound, NextSound, PTL DEF Spec

-----------------------------------------------------------------------------
(* The expressions: the inductive invariant of the parse and of the scan   *)
(* says what the fields hold half way through the parse, and what the scan *)
(* has ruled out half way through the scan.                                *)
-----------------------------------------------------------------------------
(* Multiples of a step.                                                    *)

\* One step on from a multiple is a multiple.
LEMMA NextMultiple ==
    ASSUME NEW s \in Nat, s > 0, NEW d \in Nat, d % s = 0
    PROVE  (d + s) % s = 0
<1>1. PICK p \in Nat : d = p * s
  <2>1. \E p \in Nat : d = p * s + (d % s)
    BY SMTT(30)
  <2>2. QED
    BY SMTT(30), <2>1
<1>2. d + s = (p + 1) * s
  BY SMTT(30), <1>1
<1>3. ((p + 1) * s) % s = 0
  BY SMTT(30)
<1>4. QED
  BY <1>2, <1>3

\* Between two multiples one step apart there is no other.
LEMMA NoMultipleBetween ==
    ASSUME NEW s \in Nat, s > 0, NEW d \in Nat, NEW e \in Nat,
           d % s = 0, e % s = 0, d <= e, e < d + s
    PROVE  e = d
<1>1. PICK p \in Nat : d = p * s
  <2>1. \E p \in Nat : d = p * s + (d % s)
    BY SMTT(30)
  <2>2. QED
    BY SMTT(30), <2>1
<1>2. PICK q \in Nat : e = q * s
  <2>1. \E q \in Nat : e = q * s + (e % s)
    BY SMTT(30)
  <2>2. QED
    BY SMTT(30), <2>1
<1>3. q >= p
  BY SMTT(30), <1>1, <1>2
<1>4. q < p + 1
  BY SMTT(30), <1>1, <1>2
<1>5. QED
  BY SMTT(30), <1>1, <1>2, <1>3, <1>4

\* The values of a loop that starts at a and goes up by st.
LEMMA Stepping ==
    ASSUME NEW a \in Int, NEW st \in Int, st > 0,
           NEW x \in Int, x >= a, (x - a) % st = 0
    PROVE  /\ x + st >= a
           /\ ((x + st) - a) % st = 0
           /\ \A n \in Int : n >= a /\ (n - a) % st = 0 => (n < x + st <=> (n < x \/ n = x))
<1> DEFINE d == x - a
<1>1. d \in Nat /\ st \in Nat /\ d % st = 0
  BY SMTT(30)
<1>2. (x + st) - a = d + st /\ x + st >= a
  BY SMTT(30)
<1>3. ASSUME NEW n \in Int, n >= a, (n - a) % st = 0, n < x + st, ~(n < x) PROVE n = x
  <2> DEFINE e == n - a
  <2>1. e \in Nat /\ d <= e /\ e < d + st /\ e % st = 0
    BY SMTT(30), <1>3
  <2>2. n = e + a /\ x = d + a
    BY SMTT(30), <1>3
  <2> HIDE DEF d, e
  <2>3. e = d
    BY <1>1, <2>1, NoMultipleBetween
  <2>4. QED
    BY <2>2, <2>3
<1>4. \A n \in Int : n < x \/ n = x => n < x + st
  BY SMTT(30)
<1> HIDE DEF d
<1>5. (d + st) % st = 0
  BY <1>1, NextMultiple
<1>6. QED
  BY <1>2, <1>3, <1>4, <1>5

\* An int stays below the greatest int, or wraps around.
LEMMA PlusWraps ==
    ASSUME NEW a \in 0..59, NEW b \in Int, b > 0, b <= MaxInt
    PROVE  /\ Plus(a, b) \in Int
           /\ Plus(a, b) = a + b \/ (Plus(a, b) < 0 /\ b > MaxInt - 59)
<1>1. MaxInt \in Nat /\ MaxInt > 120
  BY CronAssumption
<1>2. QED
  BY SMTT(30), <1>1 DEF Plus

-----------------------------------------------------------------------------
(* The invariant.                                                          *)

\* Item k of field f has been parsed, or is being parsed.
Done(f, k) == f < field \/ (f = field /\ k < item)

Begun(f, k) == Done(f, k) \/ (pc = "fill" /\ f = field /\ k = item)

\* The values allowed so far, up to the two names of Sunday.
Taken(f, n) ==
    \E k \in 1..Len(expr[f]) :
        /\ \/ Done(f, k)
           \/ pc = "fill" /\ f = field /\ k = item /\ n < v
        /\ n \in Denotes(f, expr[f][k])

Parsing == pc \in {"parse", "fill"}

Scanning == pc \in {"scan", "found", "none"}

\* The items begun are proper, and the fields hold the values taken from them.
\* Once the loop variable has wrapped around, only that is known.
Parsed ==
    Parsing \/ Scanning =>
        /\ \A f \in FieldIndex : \A k \in 1..Len(expr[f]) :
              Begun(f, k) => Proper(f, expr[f][k])
        /\ \A f \in FieldIndex :
              any[f] <=> \E k \in 1..Len(expr[f]) : Begun(f, k) /\ expr[f][k].base = "any"
        /\ pc = "fill" /\ v < 0 => Huge(Current)
        /\ pc = "fill" /\ v >= 0 => /\ v >= Start(field, Current)
                                    /\ (v - Start(field, Current)) % Current.step = 0
        /\ ~(pc = "fill" /\ v < 0) =>
              \A f \in FieldIndex, n \in 0..59 :
                 n \in allowed[f] <=>
                    Taken(f, n) \/ (f = dayOfWeekIndex /\ n = 0 /\ Taken(f, Week))

\* Nothing is allowed before the first item of the first field.
Begins ==
    pc = "begin" => /\ field = 1 /\ item = 1
                    /\ allowed = [f \in FieldIndex |-> {}]
                    /\ any = [f \in FieldIndex |-> FALSE]

\* The minutes the scan has been through do not match.
Scanned ==
    /\ Scanning => field = 6 /\ after \in Asked /\ after < local
    /\ Scanning => \A m \in after + 1..local - 1 : ~Occurs(m)
    /\ pc = "found" => Occurs(local)
    /\ pc = "none" => local > deadline

Inv == CronTypeOK /\ Begins /\ Parsed /\ Scanned /\ RefusedIsInvalid

-----------------------------------------------------------------------------
(* Items and fields.                                                       *)

\* The ranges of the fields lie within the array.
LEMMA Ranges ==
    ASSUME NEW f \in FieldIndex
    PROVE  Min[f] \in 0..59 /\ Max[f] \in 0..59 /\ Min[f] <= Max[f]
<1>1. Min \in [FieldIndex -> 0..59] /\ Max \in [FieldIndex -> 0..59]
  BY CronAssumption
<1>2. Min[f] <= Max[f]
  BY CronAssumption
<1>3. QED
  BY <1>1, <1>2

\* The elements of a sequence.
LEMMA Elements ==
    ASSUME NEW S, NEW s \in Seq(S)
    PROVE  Len(s) \in Nat /\ \A k \in 1..Len(s) : s[k] \in S
  BY SMTT(30)

\* The items of an expression with five fields.
LEMMA Items ==
    ASSUME CronTypeOK, Len(expr) = 5, NEW f \in FieldIndex
    PROVE  /\ Len(expr[f]) \in Nat
           /\ Min[f] \in 0..59 /\ Max[f] \in 0..59
           /\ \A k \in 1..Len(expr[f]) :
                 /\ expr[f][k] \in Item
                 /\ expr[f][k].step \in Int /\ expr[f][k].step <= MaxInt
<1>1. expr \in Seq(Seq(Item)) /\ f \in 1..Len(expr)
  BY CronAssumption DEF CronTypeOK, FieldIndex
<1>2. expr[f] \in Seq(Item)
  BY <1>1, Elements
<1>3. Len(expr[f]) \in Nat /\ \A k \in 1..Len(expr[f]) : expr[f][k] \in Item
  BY <1>2, Elements
<1>4. \A k \in 1..Len(expr[f]) : expr[f][k].step <= MaxInt
  BY <1>1, CronAssumption DEF CronTypeOK
<1>5. \A k \in 1..Len(expr[f]) : expr[f][k].step \in Int
  BY <1>3 DEF Item
<1>6. QED
  BY <1>3, <1>4, <1>5, Ranges

\* parseFieldItem accepts the proper items.
LEMMA ItemOKIsProper ==
    ASSUME NEW f \in FieldIndex, NEW it \in Item
    PROVE  ItemOK(f, it) <=> Proper(f, it)
<1>1. Min[f] \in Int /\ Max[f] \in Int /\ Min[f] <= Max[f]
  BY SMTT(30), Ranges
<1>2. QED
  BY SMTT(30), <1>1 DEF ItemOK, Proper, Start, End, Item

\* The values of a proper item lie between its ends, and in the array.
LEMMA DenotesWithin ==
    ASSUME NEW f \in FieldIndex, NEW it \in Item, Proper(f, it)
    PROVE  /\ Start(f, it) \in 0..59 /\ End(f, it) \in 0..59
           /\ \A n \in Denotes(f, it) :
                 n \in Int /\ Start(f, it) <= n /\ n <= End(f, it)
<1>1. Min[f] \in 0..59 /\ Max[f] \in 0..59
  BY Ranges
<1>2. Start(f, it) \in 0..59 /\ End(f, it) \in 0..59
  BY SMTT(30), <1>1 DEF Proper
<1>3. QED
  BY SMTT(30), <1>2 DEF Denotes

\* What the expression means depends on the expression only.
LEMMA OccursKept ==
    ASSUME expr' = expr
    PROVE  \A m : Occurs(m)' <=> Occurs(m)
  BY DEF Occurs, Value, Star, Weekday

\* A step that leaves the parse where it is, between two items, keeps Parsed.
LEMMA ParsedKept ==
    ASSUME Parsed, Parsing \/ Scanning, pc # "fill", pc' # "fill",
           UNCHANGED <<expr, field, item, v, allowed, any>>
    PROVE  Parsed'
<1>1. \A f, k : (Done(f, k)' <=> Done(f, k)) /\ (Begun(f, k)' <=> Begun(f, k))
  BY DEF Done, Begun
<1>2. \A f, n : Taken(f, n)' <=> Taken(f, n)
  BY <1>1 DEF Taken
<1>3. QED
  BY <1>1, <1>2 DEF Parsed, Current

-----------------------------------------------------------------------------
(* The parse.                                                              *)

\* No expression has been looked at yet.
LEMMA InitInv == CronInit => Inv
<1> SUFFICES ASSUME CronInit PROVE Inv
  OBVIOUS
<1>1. CronTypeOK
  BY SMTT(30), CronAssumption DEF CronInit, CronTypeOK, Instant, FieldIndex
<1>2. QED
  BY <1>1 DEF CronInit, Inv, Begins, Parsed, Scanned, RefusedIsInvalid, Parsing, Scanning

\* The count of the fields.
LEMMA CountInv ==
    ASSUME Inv, ParseCron
    PROVE  Inv'
<1>1. CronTypeOK /\ field = 1 /\ item = 1 /\ pc = "begin"
      /\ allowed = [f \in FieldIndex |-> {}] /\ any = [f \in FieldIndex |-> FALSE]
  BY DEF Inv, ParseCron, Begins
<1>2. CronTypeOK'
  BY <1>1 DEF ParseCron, CronTypeOK
<1>3. CASE pc' = "parse"
  <2>1. \A f \in FieldIndex, k \in Nat \ {0} : ~Begun(f, k)'
    BY SMTT(30), <1>1, <1>3 DEF ParseCron, Begun, Done, FieldIndex
  <2>2. Len(expr) = 5 /\ \A f \in FieldIndex : 1..Len(expr[f]) \subseteq Nat \ {0}
    BY SMTT(30), <1>1, <1>3, Items DEF ParseCron
  <2>3. \A f \in FieldIndex : \A n : ~Taken(f, n)'
    BY <1>3, <2>1, <2>2 DEF Taken, Begun, ParseCron
  <2>4. Parsed'
    BY <1>1, <1>3, <2>1, <2>2, <2>3 DEF Parsed, ParseCron, dayOfWeekIndex
  <2>5. QED
    BY <1>2, <1>3, <2>4 DEF Inv, Begins, Scanned, RefusedIsInvalid, Scanning, ParseCron
<1>4. CASE pc' = "error"
  BY <1>1, <1>2, <1>4
     DEF Inv, Begins, Parsed, Scanned, RefusedIsInvalid, Parsing, Scanning, ParseCron
<1>5. QED
  BY <1>1, <1>3, <1>4 DEF ParseCron

\* The facts about the item being parsed.
LEMMA CurrentItem ==
    ASSUME Inv, pc \in {"parse", "fill"}, field \in FieldIndex, item <= Len(expr[field])
    PROVE  /\ CronTypeOK /\ Len(expr) = 5
           /\ item \in 1..Len(expr[field])
           /\ Current \in Item /\ Current.step <= MaxInt
           /\ pc = "fill" => Proper(field, Current)
<1>1. CronTypeOK /\ Parsed /\ Len(expr) = 5 /\ item \in 1..Len(expr[field])
  <2>1. CronTypeOK /\ Parsed /\ Len(expr) = 5
    BY DEF Inv, CronTypeOK
  <2>2. Len(expr[field]) \in Nat /\ item \in Nat \ {0}
    BY <2>1, Items DEF CronTypeOK
  <2>3. QED
    BY SMTT(30), <2>1, <2>2
<1>2. Current \in Item /\ Current.step <= MaxInt
  BY <1>1, Items DEF Current
<1>3. pc = "fill" => Proper(field, Current)
  BY <1>1 DEF Parsed, Parsing, Begun, Current
<1>4. QED
  BY <1>1, <1>2, <1>3

\* parseFieldItem, and the loop variable set to the first value.
LEMMA ItemInv ==
    ASSUME Inv, ParseFieldItem
    PROVE  Inv'
<1>1. pc = "parse" /\ field \in FieldIndex /\ item <= Len(expr[field])
  BY DEF ParseFieldItem
<1>2. /\ CronTypeOK /\ Len(expr) = 5 /\ item \in 1..Len(expr[field])
      /\ Current \in Item /\ Parsed
  BY <1>1, CurrentItem DEF Inv
<1>3. CASE ItemOK(field, Current)
  <2>1. /\ pc' = "fill" /\ v' = Start(field, Current)
        /\ any' = [any EXCEPT ![field] = any[field] \/ Current.base = "any"]
        /\ UNCHANGED <<expr, field, item, allowed, after, local>>
    BY <1>3 DEF ParseFieldItem
  <2>2. Proper(field, Current)
    BY <1>1, <1>2, <1>3, ItemOKIsProper
  <2>3. Start(field, Current) \in 0..59
    BY <1>1, <1>2, <2>2, DenotesWithin
  <2>4. CronTypeOK'
    <3>1. any' \in [FieldIndex -> BOOLEAN]
      BY <1>2, <2>1 DEF CronTypeOK
    <3>2. v' \in Int
      BY SMTT(30), <2>1, <2>3
    <3>3. QED
      BY <1>1, <1>2, <2>1, <3>1, <3>2 DEF CronTypeOK
  <2>5. \A f, k : Begun(f, k)' <=> Begun(f, k) \/ (f = field /\ k = item)
    BY <1>1, <2>1 DEF Begun, Done
  <2>6. \A f \in FieldIndex : \A k \in 1..Len(expr[f]) :
           Begun(f, k)' => Proper(f, expr[f][k])
    BY <1>1, <1>2, <2>2, <2>5 DEF Parsed, Parsing, Current
  <2>7. \A f \in FieldIndex :
           any'[f] <=> \E k \in 1..Len(expr[f]) : Begun(f, k)' /\ expr[f][k].base = "any"
    <3>1. SUFFICES ASSUME NEW f \in FieldIndex
                   PROVE  any'[f] <=> \E k \in 1..Len(expr[f]) :
                                         Begun(f, k)' /\ expr[f][k].base = "any"
      OBVIOUS
    <3>2. any[f] <=> \E k \in 1..Len(expr[f]) : Begun(f, k) /\ expr[f][k].base = "any"
      BY <1>1, <1>2 DEF Parsed, Parsing
    <3>3. any'[f] <=> any[f] \/ (f = field /\ Current.base = "any")
      BY <1>1, <1>2, <2>1 DEF CronTypeOK
    <3>4. QED
      BY <1>2, <2>5, <3>2, <3>3 DEF Current
  <2>8. \A f \in FieldIndex : \A n : Taken(f, n)' <=> Taken(f, n)
    <3>1. \A n \in Denotes(field, Current) : ~(n < v')
      <4>1. \A n \in Denotes(field, Current) : n \in Int /\ Start(field, Current) <= n
        BY <1>1, <1>2, <2>2, DenotesWithin
      <4>2. QED
        BY SMTT(30), <2>1, <2>3, <4>1
    <3>2. \A f, k : Done(f, k)' <=> Done(f, k)
      BY <2>1 DEF Done
    <3>3. QED
      BY <1>1, <2>1, <3>1, <3>2 DEF Taken, Current
  <2>9. (v' - Start(field, Current)) % Current.step = 0
    <3>1. v' - Start(field, Current) = 0 /\ Current.step \in Nat /\ Current.step > 0
      BY SMTT(30), <1>2, <2>1, <2>2, <2>3 DEF Proper, Item
    <3>2. 0 % Current.step = 0
      BY SMTT(30), <3>1
    <3>3. QED
      BY <3>1, <3>2
  <2>10. Parsed'
    <3>1. Current' = Current /\ Start(field, Current)' = Start(field, Current)
      BY <2>1 DEF Current, Start
    <3>2. ~(v' < 0) /\ v' >= Start(field, Current)
      BY SMTT(30), <2>1, <2>3
    <3>3. \A f \in FieldIndex, n \in 0..59 :
             n \in allowed'[f] <=>
                Taken(f, n)' \/ (f = dayOfWeekIndex /\ n = 0 /\ Taken(f, Week)')
      BY <1>1, <1>2, <2>1, <2>8 DEF Parsed, Parsing
    <3>4. QED
      BY <2>1, <2>6, <2>7, <2>9, <3>1, <3>2, <3>3 DEF Parsed
  <2>11. QED
    BY <2>1, <2>4, <2>10 DEF Inv, Begins, Scanned, RefusedIsInvalid, Scanning
<1>4. CASE ~ItemOK(field, Current)
  <2>1. pc' = "error" /\ UNCHANGED <<expr, field, item, v, allowed, any, after, local>>
    BY <1>4 DEF ParseFieldItem
  <2>2. CronTypeOK'
    BY <1>2, <2>1 DEF CronTypeOK
  <2>3. ~Proper(field, Current)
    BY <1>1, <1>2, <1>4, ItemOKIsProper
  <2>4. RefusedIsInvalid'
    BY <1>1, <1>2, <2>1, <2>3 DEF RefusedIsInvalid, Current, Proper, Start, End
  <2>5. QED
    BY <2>1, <2>2, <2>4 DEF Inv, Begins, Parsed, Scanned, Parsing, Scanning
<1>5. QED
  BY <1>3, <1>4

\* One round of the loop allows the next value of the item, unless the loop
\* variable has wrapped around.
LEMMA FillInv ==
    ASSUME Inv, Fill
    PROVE  Inv'
<1>1. /\ pc = "fill" /\ v <= End(field, Current)
      /\ field \in FieldIndex /\ item <= Len(expr[field])
  BY DEF Inv, CronTypeOK, Fill
<1>2. /\ CronTypeOK /\ Parsed /\ Len(expr) = 5 /\ item \in 1..Len(expr[field])
      /\ Current \in Item /\ Current.step <= MaxInt /\ Proper(field, Current)
  BY <1>1, CurrentItem DEF Inv
<1>3. /\ Start(field, Current) \in 0..59 /\ End(field, Current) \in 0..59
      /\ Current.step \in Int /\ Current.step > 0 /\ v \in Int
  <2>1. Start(field, Current) \in 0..59 /\ End(field, Current) \in 0..59
    BY <1>1, <1>2, DenotesWithin
  <2>2. Current.step \in Int /\ Current.step > 0
    BY <1>2 DEF Proper, Item
  <2>3. QED
    BY <1>2, <2>1, <2>2 DEF CronTypeOK
<1>5. Current' = Current /\ Start(field, Current)' = Start(field, Current)
  BY DEF Fill, Current, Start
<1>6. CASE v \in 0..59
  <2>1. /\ allowed' = [allowed EXCEPT ![field] = allowed[field] \cup Allows(field, v)]
        /\ v' = Plus(v, Current.step) /\ pc' = "fill"
        /\ UNCHANGED <<expr, field, item, any, after, local>>
    BY <1>1, <1>6 DEF Fill
  <2>2. v >= Start(field, Current) /\ (v - Start(field, Current)) % Current.step = 0
    <3>1. v >= 0
      BY SMTT(30), <1>6
    <3>2. QED
      BY <1>1, <1>2, <3>1 DEF Parsed, Parsing
  <2>3. v' \in Int /\ (v' = v + Current.step \/ (v' < 0 /\ Huge(Current)))
    BY <1>2, <1>3, <1>6, <2>1, PlusWraps DEF Huge
  <2>4. Allows(field, v) \subseteq 0..59
    BY SMTT(30), <1>6 DEF Allows
  <2>5. allowed' \in [FieldIndex -> SUBSET (0..59)]
    BY <1>1, <1>2, <2>1, <2>4 DEF CronTypeOK
  <2>6. CronTypeOK'
    BY <1>1, <1>2, <2>1, <2>3, <2>5 DEF CronTypeOK
  <2>7. \A f, k : (Done(f, k)' <=> Done(f, k)) /\ (Begun(f, k)' <=> Begun(f, k))
    BY <1>1, <2>1 DEF Begun, Done
  <2>8. ASSUME v' = v + Current.step, NEW f \in FieldIndex, NEW n
        PROVE  Taken(f, n)' <=> Taken(f, n) \/ (f = field /\ n = v)
    <3>1. v \in Denotes(field, Current)
      BY SMTT(30), <1>1, <1>3, <2>2 DEF Denotes
    <3>2. ASSUME n \in Denotes(field, Current)
          PROVE  n < v' <=> n < v \/ n = v
      <4>1. /\ n \in Int /\ n >= Start(field, Current)
            /\ (n - Start(field, Current)) % Current.step = 0
        BY SMTT(30), <1>3, <3>2 DEF Denotes
      <4>2. Start(field, Current) \in Int
        BY SMTT(30), <1>3
      <4>3. QED
        BY <1>3, <2>2, <2>8, <4>1, <4>2, Stepping
    <3>3. \A k : k = item /\ f = field => expr[f][k] = Current
      BY DEF Current
    <3>4. \A k : Done(f, k) => ~(f = field /\ k = item)
      BY SMTT(30), <1>1, <1>2 DEF Done, FieldIndex
    <3>5. ASSUME Taken(f, n)' PROVE Taken(f, n) \/ (f = field /\ n = v)
      BY <1>1, <2>1, <2>7, <3>2, <3>3, <3>5 DEF Taken
    <3>6. ASSUME Taken(f, n) PROVE Taken(f, n)'
      BY <1>1, <2>1, <2>7, <3>2, <3>3, <3>6 DEF Taken
    <3>7. ASSUME f = field, n = v PROVE Taken(f, n)'
      BY <1>1, <1>2, <2>1, <3>1, <3>2, <3>3, <3>7 DEF Taken
    <3>8. QED
      BY <3>5, <3>6, <3>7
  <2>9. ASSUME v' = v + Current.step, NEW f \in FieldIndex, NEW n \in 0..59
        PROVE  n \in allowed'[f] <=>
                  Taken(f, n)' \/ (f = dayOfWeekIndex /\ n = 0 /\ Taken(f, Week)')
    <3>1. n \in allowed[f] <=>
             Taken(f, n) \/ (f = dayOfWeekIndex /\ n = 0 /\ Taken(f, Week))
      <4>1. ~(v < 0)
        BY SMTT(30), <1>6
      <4>2. QED
        BY <1>1, <1>2, <4>1 DEF Parsed, Parsing
    <3>2. n \in allowed'[f] <=>
             \/ n \in allowed[f]
             \/ f = field /\ (n = v \/ (f = dayOfWeekIndex /\ v = Week /\ n = 0))
      BY <1>1, <1>2, <2>1 DEF CronTypeOK, Allows
    <3>3. \A q : Taken(f, q)' <=> Taken(f, q) \/ (f = field /\ q = v)
      BY <2>8, <2>9
    <3>4. QED
      BY <3>1, <3>2, <3>3
  <2>10. v' = v + Current.step =>
            /\ ~(v' < 0) /\ v' >= Start(field, Current)
            /\ (v' - Start(field, Current)) % Current.step = 0
    <3>1. Start(field, Current) \in Int /\ ~(v + Current.step < 0)
      BY SMTT(30), <1>3, <1>6
    <3>2. /\ v + Current.step >= Start(field, Current)
          /\ ((v + Current.step) - Start(field, Current)) % Current.step = 0
      BY <1>3, <2>2, <3>1, Stepping
    <3>3. QED
      BY <3>1, <3>2
  <2>11. /\ \A f \in FieldIndex : \A k \in 1..Len(expr[f]) :
               Begun(f, k)' => Proper(f, expr[f][k])
         /\ \A f \in FieldIndex :
               any'[f] <=> \E k \in 1..Len(expr[f]) :
                              Begun(f, k)' /\ expr[f][k].base = "any"
    BY <1>1, <1>2, <2>1, <2>7 DEF Parsed, Parsing
  <2>12. Parsed'
    <3>1. CASE v' = v + Current.step
      BY <1>5, <2>1, <2>9, <2>10, <2>11, <3>1 DEF Parsed
    <3>2. CASE v' < 0 /\ Huge(Current)
      <4>1. ~(v' >= 0)
        BY SMTT(30), <2>3, <3>2
      <4>2. Huge(Current)'
        BY <1>5, <3>2 DEF Huge
      <4>3. QED
        BY <2>1, <2>11, <3>2, <4>1, <4>2 DEF Parsed
    <3>3. QED
      BY <2>3, <3>1, <3>2
  <2>13. QED
    BY <2>1, <2>6, <2>12 DEF Inv, Begins, Scanned, RefusedIsInvalid, Scanning
<1>7. CASE v \notin 0..59
  <2>1. pc' = "panic" /\ UNCHANGED <<expr, field, item, v, allowed, any, after, local>>
    BY <1>1, <1>7 DEF Fill
  <2>2. CronTypeOK'
    BY <1>2, <2>1 DEF CronTypeOK
  <2>3. v < 0
    <3>1. ASSUME NEW e \in 0..59, v <= e PROVE v < 0
      BY SMTT(30), <1>3, <1>7, <3>1
    <3>2. QED
      BY <1>1, <1>3, <3>1
  <2>4. Huge(Current)
    BY <1>1, <1>2, <2>3 DEF Parsed, Parsing
  <2>5. RefusedIsInvalid'
    BY <1>1, <1>2, <2>1, <2>4 DEF RefusedIsInvalid, Current, Huge
  <2>6. QED
    BY <2>1, <2>2, <2>5 DEF Inv, Begins, Parsed, Scanned, Parsing, Scanning
<1>8. QED
  BY <1>6, <1>7

\* The loop over an item ends when all of its values are allowed.
LEMMA ItemDoneInv ==
    ASSUME Inv, ItemDone
    PROVE  Inv'
<1>1. /\ pc = "fill" /\ pc' = "parse" /\ v > End(field, Current) /\ item' = item + 1
      /\ UNCHANGED <<expr, field, v, allowed, any, after, local>>
      /\ field \in FieldIndex /\ item <= Len(expr[field])
  BY DEF Inv, CronTypeOK, ItemDone
<1>2. /\ CronTypeOK /\ Parsed /\ Len(expr) = 5 /\ item \in 1..Len(expr[field])
      /\ Current \in Item /\ Proper(field, Current) /\ v \in Int
  BY <1>1, CurrentItem DEF Inv, CronTypeOK
<1>3. item \in Nat /\ item' \in Nat \ {0}
  BY SMTT(30), <1>1, <1>2 DEF CronTypeOK
<1>4. CronTypeOK'
  BY <1>1, <1>2, <1>3 DEF CronTypeOK
<1>5. ASSUME NEW e \in 0..59, v > e PROVE ~(v < 0) /\ \A n \in Int : n <= e => n < v
  BY SMTT(30), <1>2, <1>5
<1>6. ~(v < 0) /\ \A n \in Denotes(field, Current) : n < v
  BY <1>1, <1>2, <1>5, DenotesWithin
<1>7. ASSUME NEW f \in FieldIndex, NEW k \in 1..Len(expr[f])
      PROVE  /\ Done(f, k)' <=> Done(f, k) \/ (f = field /\ k = item)
             /\ Begun(f, k)' <=> Begun(f, k)
  <2>1. Len(expr[f]) \in Nat
    BY <1>2, Items
  <2>2. Done(f, k)' <=> Done(f, k) \/ (f = field /\ k = item)
    BY SMTT(30), <1>1, <1>3, <2>1 DEF Done
  <2>3. QED
    BY <1>1, <2>2 DEF Begun
<1>8. \A f \in FieldIndex : \A n : Taken(f, n)' <=> Taken(f, n)
  BY <1>1, <1>6, <1>7 DEF Taken, Current
<1>9. Parsed'
  BY <1>1, <1>2, <1>6, <1>7, <1>8 DEF Parsed, Parsing
<1>10. QED
  BY <1>1, <1>4, <1>9 DEF Inv, Begins, Scanned, RefusedIsInvalid, Scanning

\* The next field.
LEMMA FieldDoneInv ==
    ASSUME Inv, FieldDone
    PROVE  Inv'
<1>1. /\ pc = "parse" /\ pc' = "parse" /\ field' = field + 1 /\ item' = 1
      /\ UNCHANGED <<expr, v, allowed, any, after, local>>
      /\ field \in FieldIndex /\ item > Len(expr[field])
  BY DEF FieldDone
<1>2. CronTypeOK /\ Parsed /\ Len(expr) = 5 /\ item \in Nat
  BY <1>1 DEF Inv, CronTypeOK
<1>3. CronTypeOK'
  <2>1. field' \in 1..6 /\ item' \in Nat \ {0}
    BY SMTT(30), <1>1 DEF FieldIndex
  <2>2. QED
    BY <1>1, <1>2, <2>1 DEF CronTypeOK
<1>4. ASSUME NEW f \in FieldIndex, NEW k \in 1..Len(expr[f])
      PROVE  (Done(f, k)' <=> Done(f, k)) /\ (Begun(f, k)' <=> Begun(f, k))
  <2>1. Len(expr[f]) \in Nat
    BY <1>2, Items
  <2>2. f = field => k < item
    BY SMTT(30), <1>1, <1>2, <2>1
  <2>3. k \in Nat /\ k >= 1
    BY SMTT(30), <2>1
  <2>4. Done(f, k)' <=> Done(f, k)
    BY SMTT(30), <1>1, <2>2, <2>3 DEF Done, FieldIndex
  <2>5. QED
    BY <1>1, <2>4 DEF Begun
<1>5. \A f \in FieldIndex : \A n : Taken(f, n)' <=> Taken(f, n)
  BY <1>1, <1>4 DEF Taken
<1>6. Parsed'
  BY <1>1, <1>2, <1>4, <1>5 DEF Parsed, Parsing
<1>7. QED
  BY <1>1, <1>3, <1>6 DEF Inv, Begins, Scanned, RefusedIsInvalid, Scanning

-----------------------------------------------------------------------------
(* The scan.                                                               *)

\* Once all fields are parsed, they hold what the expression says.
LEMMA FieldsHold ==
    ASSUME Inv, pc = "parse" \/ Scanning, field = 6
    PROVE  /\ Len(expr) = 5
           /\ \A f \in FieldIndex : \A k \in 1..Len(expr[f]) : Proper(f, expr[f][k])
           /\ \A f \in FieldIndex : any[f] <=> Star(f)
           /\ \A f \in FieldIndex, n \in 0..59 :
                 n \in allowed[f] <=>
                    Value(f, n) \/ (f = dayOfWeekIndex /\ n = 0 /\ Value(f, Week))
<1>1. Parsed /\ Len(expr) = 5
  BY DEF Inv, CronTypeOK, Scanning
<1>2. \A f \in FieldIndex : \A k : Done(f, k) /\ Begun(f, k)
  BY SMTT(30) DEF Done, Begun, FieldIndex
<1>3. \A f \in FieldIndex : \A n : Taken(f, n) <=> Value(f, n)
  BY <1>2 DEF Taken, Value
<1>4. pc # "fill"
  BY DEF Scanning
<1>5. QED
  BY <1>1, <1>2, <1>3, <1>4 DEF Parsed, Parsing, Star

\* A day of the week is named by its number, Sunday also by Week.
LEMMA WeekdayNamed ==
    ASSUME NEW d \in 0..59, d < Week
    PROVE  Weekday(d) <=> \/ Value(dayOfWeekIndex, d)
                          \/ d = 0 /\ Value(dayOfWeekIndex, Week)
<1>1. Week \in Nat \ {0}
  BY CronAssumption
<1>2. \A n \in 0..Week : n % Week = d <=> n = d \/ (n = Week /\ d = 0)
  BY SMTT(30), <1>1
<1>3. d \in 0..Week /\ Week \in 0..Week
  BY SMTT(30), <1>1
<1>4. QED
  BY <1>2, <1>3 DEF Weekday

\* matches decides whether the expression names a minute.
LEMMA MatchesIsOccurs ==
    ASSUME Inv, pc = "parse" \/ Scanning, field = 6, NEW m \in Instant
    PROVE  matches(m) <=> Occurs(m)
<1> DEFINE t == Civil[m]
<1>1. /\ t \in [FieldIndex -> 0..59] /\ t[dayOfWeekIndex] < Week
      /\ Week \in 0..59 /\ Week > 0
  <2>1. Civil \in [Instant -> [FieldIndex -> 0..59]] /\ Civil[m][dayOfWeekIndex] < Week
    BY CronAssumption
  <2>2. Week = Max[dayOfWeekIndex] /\ dayOfWeekIndex \in FieldIndex /\ Week \in Nat \ {0}
    BY SMTT(30), CronAssumption DEF dayOfWeekIndex, FieldIndex
  <2>3. QED
    BY SMTT(30), <2>1, <2>2, Ranges
<1> HIDE DEF t
<1>2. /\ minuteIndex \in FieldIndex /\ minuteIndex # dayOfWeekIndex
      /\ hourIndex \in FieldIndex /\ hourIndex # dayOfWeekIndex
      /\ monthIndex \in FieldIndex /\ monthIndex # dayOfWeekIndex
      /\ dayOfMonthIndex \in FieldIndex /\ dayOfMonthIndex # dayOfWeekIndex
      /\ dayOfWeekIndex \in FieldIndex
  BY SMTT(30) DEF FieldIndex, minuteIndex, hourIndex, monthIndex, dayOfMonthIndex, dayOfWeekIndex
<1>3. \A f \in FieldIndex : f # dayOfWeekIndex => (t[f] \in allowed[f] <=> Value(f, t[f]))
  BY <1>1, FieldsHold
<1>4. /\ t[dayOfWeekIndex] \in allowed[dayOfWeekIndex] <=>
            \/ Value(dayOfWeekIndex, t[dayOfWeekIndex])
            \/ t[dayOfWeekIndex] = 0 /\ Value(dayOfWeekIndex, Week)
      /\ Week \in allowed[dayOfWeekIndex] <=> Value(dayOfWeekIndex, Week)
  <2>1. t[dayOfWeekIndex] \in 0..59 /\ Week # 0
    BY SMTT(30), <1>1, <1>2
  <2>2. QED
    BY <1>1, <1>2, <2>1, FieldsHold
<1>5. Weekday(t[dayOfWeekIndex]) <=>
         \/ t[dayOfWeekIndex] \in allowed[dayOfWeekIndex]
         \/ t[dayOfWeekIndex] = 0 /\ Week \in allowed[dayOfWeekIndex]
  BY <1>1, <1>2, <1>4, WeekdayNamed
<1>6. /\ any[dayOfMonthIndex] <=> Star(dayOfMonthIndex)
      /\ any[dayOfWeekIndex] <=> Star(dayOfWeekIndex)
  BY <1>2, FieldsHold
<1>7. QED
  BY <1>2, <1>3, <1>5, <1>6 DEF matches, Occurs, DayMatch, t

\* NextAfter sets out from the minute after the one asked about.
LEMMA AskInv ==
    ASSUME Inv, NEW a \in Asked, CronNextAfter(a)
    PROVE  Inv'
<1>1. /\ pc = "parse" /\ field = 6 /\ after' = a /\ local' = a + 1 /\ pc' = "scan"
      /\ UNCHANGED <<expr, field, item, v, allowed, any>>
  BY DEF CronNextAfter, FirstTried
<1>2. a \in Instant /\ a + 1 \in Instant /\ Last \in Nat
  BY CronAssumption
<1>3. CronTypeOK /\ Parsed
  BY DEF Inv
<1>4. CronTypeOK'
  <2>1. local' \in 0..Last + 1 /\ after' \in Instant
    BY SMTT(30), <1>1, <1>2 DEF Instant
  <2>2. QED
    BY <1>1, <1>3, <2>1 DEF CronTypeOK
<1>5. Parsed'
  BY <1>1, <1>3, ParsedKept DEF Parsing
<1>6. Scanned'
  <2>1. after' + 1..local' - 1 = {} /\ after' < local'
    BY SMTT(30), <1>1, <1>2 DEF Instant
  <2>2. QED
    BY <1>1, <2>1 DEF Scanned, Scanning
<1>7. RefusedIsInvalid'
  BY SMTT(30), <1>1, FieldsHold DEF RefusedIsInvalid, Proper, Start, End
<1>8. QED
  BY <1>1, <1>4, <1>5, <1>6, <1>7 DEF Inv, Begins

\* A minute that does not match is passed over, the first that does is found.
LEMMA TryInv ==
    ASSUME Inv, TryMinute
    PROVE  Inv'
<1>1. /\ pc = "scan" /\ ~(local > deadline)
      /\ UNCHANGED <<expr, field, item, v, allowed, any, after>>
  BY DEF TryMinute, PastDeadline
<1>2. /\ CronTypeOK /\ Parsed /\ Scanned /\ RefusedIsInvalid /\ field = 6
      /\ after \in Asked /\ after < local /\ after \in Instant /\ local \in 0..Last + 1
  BY <1>1 DEF Inv, CronTypeOK, Scanned, Scanning
<1>3. deadline \in Instant /\ Last \in Nat
  <2>1. after + 1 \in Instant /\ Last \in Nat
    BY <1>2, CronAssumption
  <2>2. QED
    BY <2>1, CronAssumption DEF deadline, FirstTried
<1>4. local \in Instant /\ local + 1 \in 0..Last + 1
  BY SMTT(30), <1>1, <1>2, <1>3 DEF Instant
<1>5. matches(local) <=> Occurs(local)
  BY <1>1, <1>2, <1>4, MatchesIsOccurs DEF Scanning
<1>6. pc' \in {"scan", "found"} /\ (local' = local \/ local' = local + 1)
      /\ (pc' = "found" => local' = local)
  BY <1>1 DEF TryMinute
<1>7. CronTypeOK'
  <2>1. local' \in 0..Last + 1 /\ (pc' = "found" => local' \in Instant)
    BY <1>2, <1>4, <1>6
  <2>2. pc' \notin {"begin", "error", "fill"} /\ pc \notin {"begin", "error", "fill"}
    BY <1>1, <1>6
  <2>3. pc' \in {"begin", "parse", "fill", "scan", "found", "none", "error", "panic"}
    BY <1>6
  <2>4. QED
    BY <1>1, <1>2, <2>1, <2>2, <2>3 DEF CronTypeOK
<1>8. Parsed'
  BY <1>1, <1>2, <1>6, ParsedKept DEF Scanning
<1>9. Scanned'
  <2>1. \A m : Occurs(m)' <=> Occurs(m)
    BY <1>1, OccursKept
  <2>2. \A m \in after + 1..local - 1 : ~Occurs(m)
    BY <1>1, <1>2 DEF Scanned, Scanning
  <2>3. CASE matches(local) /\ pc' = "found" /\ UNCHANGED local
    <3>1. \A m \in after' + 1..local' - 1 : ~Occurs(m)'
      BY <1>1, <2>1, <2>2, <2>3
    <3>2. Occurs(local)'
      BY <1>5, <2>1, <2>3 DEF Occurs, Value, Star, Weekday
    <3>3. QED
      BY <1>1, <1>2, <2>3, <3>1, <3>2 DEF Scanned, Scanning
  <2>4. CASE ~matches(local) /\ local' = local + 1 /\ pc' = "scan"
    <3>1. \A m \in after + 1..(local + 1) - 1 : m \in after + 1..local - 1 \/ m = local
      BY SMTT(30), <1>2, <1>4 DEF Instant
    <3>2. \A m \in after' + 1..local' - 1 : ~Occurs(m)'
      BY <1>1, <1>5, <2>1, <2>2, <2>4, <3>1
    <3>3. after' < local'
      BY SMTT(30), <1>1, <1>2, <1>4, <2>4 DEF Instant
    <3>4. QED
      BY <1>1, <1>2, <2>4, <3>2, <3>3 DEF Scanned, Scanning
  <2>5. QED
    BY <1>1, <2>3, <2>4 DEF TryMinute
<1>10. RefusedIsInvalid'
  BY SMTT(30), <1>1, <1>2, <1>6 DEF RefusedIsInvalid, Proper, Start, End
<1>11. QED
  BY <1>6, <1>7, <1>8, <1>9, <1>10 DEF Inv, Begins

\* Nothing matched up to the deadline.
LEMMA GiveUpInv ==
    ASSUME Inv, GiveUp
    PROVE  Inv'
<1>1. /\ pc = "scan" /\ pc' = "none" /\ local > deadline
      /\ UNCHANGED <<expr, field, item, v, allowed, any, after, local>>
  BY DEF GiveUp, PastDeadline
<1>2. CronTypeOK /\ Parsed /\ Scanned /\ RefusedIsInvalid
  BY DEF Inv
<1>3. CronTypeOK'
  BY <1>1, <1>2 DEF CronTypeOK
<1>4. Parsed'
  BY <1>1, <1>2, ParsedKept DEF Scanning
<1>5. Scanned'
  <2>1. \A m : Occurs(m)' <=> Occurs(m)
    BY <1>1, OccursKept
  <2>2. deadline' = deadline
    BY <1>1 DEF deadline, FirstTried
  <2>3. QED
    BY <1>1, <1>2, <2>1, <2>2 DEF Scanned, Scanning
<1>6. RefusedIsInvalid'
  BY SMTT(30), <1>1, <1>2 DEF RefusedIsInvalid, Proper, Start, End
<1>7. QED
  BY <1>1, <1>3, <1>4, <1>5, <1>6 DEF Inv, Begins

-----------------------------------------------------------------------------
(* The theorem.                                                            *)

\* Every step keeps the invariant.
LEMMA NextInv == Inv /\ [CronNext]_cronVars => Inv'
<1> SUFFICES ASSUME Inv, [CronNext]_cronVars PROVE Inv'
  OBVIOUS
<1>1. CASE UNCHANGED cronVars
  <2>1. CronTypeOK' /\ Begins'
    BY <1>1 DEF cronVars, Inv, CronTypeOK, Begins
  <2>2. Parsed'
    BY <1>1 DEF cronVars, Inv, Parsed, Parsing, Scanning, Begun, Done, Taken, Current
  <2>3. RefusedIsInvalid'
    BY <1>1 DEF cronVars, Inv, RefusedIsInvalid
  <2>4. Scanned'
    <3>1. (\A m : Occurs(m)' <=> Occurs(m)) /\ deadline' = deadline
      BY <1>1, OccursKept DEF cronVars, deadline, FirstTried
    <3>2. QED
      BY <1>1, <3>1 DEF cronVars, Inv, Scanned, Scanning
  <2>5. QED
    BY <2>1, <2>2, <2>3, <2>4 DEF Inv
<1>2. CASE CronNext
  BY <1>2, CountInv, ItemInv, FillInv, ItemDoneInv, FieldDoneInv, AskInv, TryInv,
     GiveUpInv DEF CronNext
<1>3. QED
  BY <1>1, <1>2

\* The invariant gives the answer of NextAfter.
LEMMA InvAnswers == Inv => NextIsLeast
<1> SUFFICES ASSUME Inv PROVE NextIsLeast
  OBVIOUS
<1>1. CASE pc = "found"
  BY <1>1 DEF Inv, Scanned, Scanning, NextIsLeast
<1>2. CASE pc = "none"
  <2>1. /\ local > deadline /\ \A m \in after + 1..local - 1 : ~Occurs(m)
        /\ after \in Asked /\ local \in 0..Last + 1
    BY <1>2 DEF Inv, CronTypeOK, Scanned, Scanning
  <2>2. deadline \in Instant
    <3>1. after + 1 \in Instant
      BY <2>1, CronAssumption
    <3>2. QED
      BY <3>1, CronAssumption DEF deadline, FirstTried
  <2>3. after \in Int /\ Last \in Nat
    BY SMTT(30), <2>1, CronAssumption DEF Instant
  <2>4. after + 1..deadline \subseteq after + 1..local - 1
    BY SMTT(30), <2>1, <2>2, <2>3 DEF Instant
  <2>5. QED
    BY <1>2, <2>1, <2>4 DEF NextIsLeast
<1>3. CASE pc \notin {"found", "none"}
  BY <1>3 DEF NextIsLeast
<1>4. QED
  BY <1>1, <1>2, <1>3

\* ParseCron refuses exactly the expressions that do not have five fields of
\* proper items, and panics only on a step that wraps the index around, for every
\* expression and every range of fields.
THEOREM CronRefusesInvalid == CronSpec => []RefusedIsInvalid
<1>1. Inv => RefusedIsInvalid
  BY DEF Inv
<1>2. QED
  BY <1>1, InitInv, NextInv, PTL DEF CronSpec

\* NextAfter returns the least minute after the one asked about that the
\* expression names, or none up to the deadline, for every expression, every
\* calendar and every time zone.
THEOREM CronAnswersLeast == CronSpec => []NextIsLeast
<1>1. QED
  BY InvAnswers, InitInv, NextInv, PTL DEF CronSpec

=============================================================================
