-------------------------------- MODULE Cron --------------------------------
(***************************************************************************)
(* Cron expressions (schedule/cron.go): ParseCron turns five lists of      *)
(* items into five sets of allowed values, NextAfter tries one minute      *)
(* after the other.  One behaviour is one call of NextAfterInLocation.     *)
(*                                                                         *)
(* What the time package makes of a minute in a time zone, with its leap   *)
(* years and clock changes, is a constant: any calendar will do.           *)
(***************************************************************************)
EXTENDS Integers, Sequences

CONSTANTS
    Expr,       \* the expressions tried: a sequence of lists of items each
    Min, Max,   \* fieldRanges: the least and the greatest value of each field
    Week,       \* 7, the other name of day-of-week 0
    MaxInt,     \* the greatest int
    Last,       \* bound: the calendar ends here
    Asked,      \* bound: the minutes NextAfter is called with
    Civil,      \* each minute's minute, hour, day, month and weekday, in loc
    Deadline    \* each minute's AddDate(5, 0, 0)

minuteIndex     == 1
hourIndex       == 2
dayOfMonthIndex == 3
monthIndex      == 4
dayOfWeekIndex  == 5

FieldIndex == 1..5

Instant == 0..Last

\* An item: *, lo-hi or lo, with its step (1 if it has none).  What does not
\* split into numbers is malformed.
Item == [base : {"any", "range", "one", "malformed"}, lo : Int, hi : Int, step : Int]

\* Fields are within the array of a cronField, and int is far wider than it.
ASSUME CronAssumption ==
    /\ \A e \in Expr : /\ e \in Seq(Seq(Item))
                       /\ \A f \in 1..Len(e) :
                             /\ e[f] # <<>>
                             /\ \A n \in 1..Len(e[f]) : e[f][n].step <= MaxInt
    /\ Min \in [FieldIndex -> 0..59] /\ Max \in [FieldIndex -> 0..59]
    /\ \A f \in FieldIndex : Min[f] <= Max[f]
    /\ MaxInt \in Nat /\ MaxInt > 120
    /\ Week \in Nat \ {0}
    /\ Min[dayOfWeekIndex] = 0 /\ Max[dayOfWeekIndex] = Week
    /\ Last \in Nat
    /\ \A m \in Asked : m \in Instant /\ m + 1 \in Instant
    /\ Deadline \in [Instant -> Instant]
    /\ Civil \in [Instant -> [FieldIndex -> 0..59]]
    /\ \A m \in Instant : Civil[m][dayOfWeekIndex] < Week

VARIABLES
    pc,
    expr,       \* the expression
    field,      \* the field being parsed
    item,       \* the item of it being parsed
    v,          \* the value about to be allowed
    allowed,    \* allowed, of each field
    any,        \* any, of each field
    after,      \* the minute asked about
    local       \* the minute being tried

cronVars == <<pc, expr, field, item, v, allowed, any, after, local>>

-----------------------------------------------------------------------------
(* ParseCron.                                                              *)

\* Mutants: a step of zero, or a value above the range, is let through.
ItemOKAnyStep(f, it) ==
    /\ it.base # "malformed"
    /\ it.base \in {"range", "one"} => Min[f] <= it.lo /\ it.lo <= Max[f]
    /\ it.base = "range" => it.lo <= it.hi /\ it.hi <= Max[f]

ItemOKAnyEnd(f, it) ==
    /\ it.base # "malformed"
    /\ it.step > 0
    /\ it.base \in {"range", "one"} => Min[f] <= it.lo
    /\ it.base = "range" => it.lo <= it.hi

\* Errors of parseFieldItem and parseNumber.
ItemOK(f, it) ==
    /\ it.base # "malformed"
    /\ it.step > 0
    /\ it.base \in {"range", "one"} => Min[f] <= it.lo /\ it.lo <= Max[f]
    /\ it.base = "range" => it.lo <= it.hi /\ it.hi <= Max[f]

Start(f, it) == IF it.base = "any" THEN Min[f] ELSE it.lo

End(f, it) ==
    IF it.base = "any" THEN Max[f] ELSE IF it.base = "range" THEN it.hi ELSE it.lo

ParseCron ==
    /\ pc = "begin"
    /\ pc' = IF Len(expr) = 5 THEN "parse" ELSE "error"
    /\ UNCHANGED <<expr, field, item, v, allowed, any, after, local>>

Current == expr[field][item]

ParseFieldItem ==
    /\ pc = "parse"
    /\ field \in FieldIndex /\ item <= Len(expr[field])
    /\ \/ /\ ItemOK(field, Current)
          /\ any' = [any EXCEPT ![field] = any[field] \/ Current.base = "any"]
          /\ v' = Start(field, Current)
          /\ pc' = "fill"
       \/ /\ ~ItemOK(field, Current)
          /\ pc' = "error"
          /\ UNCHANGED <<v, any>>
    /\ UNCHANGED <<expr, field, item, allowed, after, local>>

\* Addition of two non-negative ints.
Plus(a, b) == IF a + b > MaxInt THEN a + b - 2 * (MaxInt + 1) ELSE a + b

\* The values that allowing n allows.
Allows(f, n) == IF f = dayOfWeekIndex /\ n = Week THEN {n, 0} ELSE {n}

\* One round of the loop over an item's values.
Fill ==
    /\ pc = "fill"
    /\ v <= End(field, Current)
    /\ \/ /\ v \in 0..59
          /\ allowed' = [allowed EXCEPT ![field] = allowed[field] \cup Allows(field, v)]
          /\ v' = Plus(v, Current.step)
          /\ UNCHANGED pc
       \/ /\ v \notin 0..59
          /\ pc' = "panic"      \* index out of range
          /\ UNCHANGED <<allowed, v>>
    /\ UNCHANGED <<expr, field, item, any, after, local>>

ItemDone ==
    /\ pc = "fill"
    /\ v > End(field, Current)
    /\ item' = item + 1
    /\ pc' = "parse"
    /\ UNCHANGED <<expr, field, v, allowed, any, after, local>>

FieldDone ==
    /\ pc = "parse"
    /\ field \in FieldIndex /\ item > Len(expr[field])
    /\ field' = field + 1
    /\ item' = 1
    /\ UNCHANGED <<pc, expr, v, allowed, any, after, local>>

-----------------------------------------------------------------------------
(* NextAfter.                                                              *)

\* Mutant: both day fields must match.
DayMatchBoth(domMatch, dowMatch) == domMatch /\ dowMatch

\* When both day fields are restricted, either may match.
DayMatch(domMatch, dowMatch) ==
    IF ~any[dayOfMonthIndex] /\ ~any[dayOfWeekIndex]
      THEN domMatch \/ dowMatch
      ELSE domMatch /\ dowMatch

matches(m) ==
    LET t == Civil[m]
        weekday == t[dayOfWeekIndex]
    IN  /\ t[minuteIndex] \in allowed[minuteIndex]
        /\ t[hourIndex] \in allowed[hourIndex]
        /\ t[monthIndex] \in allowed[monthIndex]
        /\ DayMatch(t[dayOfMonthIndex] \in allowed[dayOfMonthIndex],
                    \/ weekday \in allowed[dayOfWeekIndex]
                    \/ weekday = 0 /\ Week \in allowed[dayOfWeekIndex])

\* Truncate to the minute, which Instant does, and one minute more.
FirstTried(m) == m + 1

\* The parsed expression is asked for the next occurrence after m.
CronNextAfter(m) ==
    /\ pc = "parse" /\ field = 6
    /\ after' = m
    /\ local' = FirstTried(m)
    /\ pc' = "scan"
    /\ UNCHANGED <<expr, field, item, v, allowed, any>>

\* deadline, computed from the first minute tried.
deadline == Deadline[FirstTried(after)]

PastDeadline == local > deadline

TryMinute ==
    /\ pc = "scan"
    /\ ~PastDeadline
    /\ \/ matches(local) /\ pc' = "found" /\ UNCHANGED local
       \/ ~matches(local) /\ local' = local + 1 /\ UNCHANGED pc
    /\ UNCHANGED <<expr, field, item, v, allowed, any, after>>

GiveUp ==
    /\ pc = "scan"
    /\ PastDeadline
    /\ pc' = "none"
    /\ UNCHANGED <<expr, field, item, v, allowed, any, after, local>>

-----------------------------------------------------------------------------
CronInit ==
    /\ pc = "begin"
    /\ expr \in Expr
    /\ field = 1 /\ item = 1 /\ v = 0
    /\ allowed = [f \in FieldIndex |-> {}]
    /\ any = [f \in FieldIndex |-> FALSE]
    /\ after = 0 /\ local = 0

CronNext ==
    \/ ParseCron
    \/ ParseFieldItem
    \/ Fill
    \/ ItemDone
    \/ FieldDone
    \/ \E m \in Asked : CronNextAfter(m)
    \/ TryMinute
    \/ GiveUp

CronSpec == CronInit /\ [][CronNext]_cronVars

\* The call runs to its end.
FairCronSpec == CronSpec /\ WF_cronVars(CronNext)

-----------------------------------------------------------------------------
(* What an expression means, and what the calls promise.                   *)

\* The parser and the scan keep to their fields, values and minutes.
CronTypeOK ==
    /\ pc \in {"begin", "parse", "fill", "scan", "found", "none", "error", "panic"}
    /\ expr \in Expr
    /\ field \in 1..6 /\ item \in Nat \ {0} /\ v \in Int
    /\ pc \notin {"begin", "error"} => Len(expr) = 5
    /\ pc = "fill" => field \in FieldIndex /\ item <= Len(expr[field])
    /\ allowed \in [FieldIndex -> SUBSET (0..59)]
    /\ any \in [FieldIndex -> BOOLEAN]
    /\ after \in Instant /\ local \in 0..Last + 1
    /\ pc = "found" => local \in Instant

\* The values of a field that an item stands for.
Denotes(f, it) ==
    {n \in Start(f, it)..End(f, it) : (n - Start(f, it)) % it.step = 0}

Value(f, n) == \E k \in 1..Len(expr[f]) : n \in Denotes(f, expr[f][k])

Star(f) == \E k \in 1..Len(expr[f]) : expr[f][k].base = "any"

Weekday(d) == \E n \in 0..Week : n % Week = d /\ Value(dayOfWeekIndex, n)

\* The expression names this minute: by its minute, hour and month, and by its
\* day of the month and of the week, one of which is enough when neither is *.
Occurs(m) ==
    LET t   == Civil[m]
        dom == Value(dayOfMonthIndex, t[dayOfMonthIndex])
        dow == Weekday(t[dayOfWeekIndex])
    IN  /\ Value(minuteIndex, t[minuteIndex])
        /\ Value(hourIndex, t[hourIndex])
        /\ Value(monthIndex, t[monthIndex])
        /\ dom \/ dow
        /\ Star(dayOfMonthIndex) \/ Star(dayOfWeekIndex) => dom /\ dow

\* A positive step over values in range.
Proper(f, it) ==
    /\ it.base # "malformed"
    /\ it.step > 0
    /\ Start(f, it) \in Min[f]..Max[f]
    /\ End(f, it) \in Start(f, it)..Max[f]

\* A step that takes the loop variable of parseField past the greatest int.
Huge(it) == it.step > MaxInt - 59

\* ParseCron refuses exactly the expressions that do not have five fields of
\* proper items, and comes to an end on all others but those with a huge step,
\* whose index wraps around.
RefusedIsInvalid ==
    LET valid == /\ Len(expr) = 5
                 /\ \A f \in FieldIndex : \A k \in 1..Len(expr[f]) : Proper(f, expr[f][k])
    IN  /\ pc = "error" => ~valid
        /\ pc = "panic" => \E f \in FieldIndex : \E k \in 1..Len(expr[f]) :
                              Huge(expr[f][k])
        /\ pc \in {"scan", "found", "none"} => valid

\* NextAfter answers with the first minute strictly after the one asked about
\* that the expression names, and gives up only if there is none up to the
\* deadline: whatever the calendar, no occurrence is skipped.
NextIsLeast ==
    /\ pc = "found" => /\ local > after
                       /\ Occurs(local)
                       /\ \A m \in after + 1..local - 1 : ~Occurs(m)
    /\ pc = "none" => \A m \in after + 1..deadline : ~Occurs(m)

\* Every call comes to an answer.
Answers == <>(pc \in {"found", "none", "error", "panic"})

=============================================================================
