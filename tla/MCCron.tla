------------------------------- MODULE MCCron -------------------------------
(***************************************************************************)
(* Cron on a small calendar: hours of two minutes, days of two hours,      *)
(* weeks of three days and years of two months.  The second month has two  *)
(* days, three in a leap year; the clock is put forward and back once.     *)
(***************************************************************************)
EXTENDS Cron

MinDef == <<0, 0, 1, 1, 0>>

MaxDef == <<1, 1, 3, 2, 3>>

LastDef == 135

\* Around the changes of the clock, and after the last leap day for long.
AskedDef == 0..27 \cup 50..60

-----------------------------------------------------------------------------
(* The calendar.                                                           *)

\* Years 0, 2 and 6 are leap years: from year 2 on the wait for the third day
\* of the second month is longer than the three years NextAfter looks ahead.
YearStart == <<0, 5, 9, 14, 18, 22, 26, 31, 35, 39, 43, 47>>

Year(day) == CHOOSE y \in 1..11 : YearStart[y] <= day /\ day < YearStart[y + 1]

DayOfYear(day) == day - YearStart[Year(day)]

Month(day) == IF DayOfYear(day) < 2 THEN 1 ELSE 2

DayOfMonth(day) == IF Month(day) = 1 THEN DayOfYear(day) + 1 ELSE DayOfYear(day) - 1

\* The clock is one hour ahead from minute 8 to minute 17.
Summer == 8..17

Wall(m) == IF m \in Summer THEN m + 2 ELSE m

CivilDef ==
    [m \in 0..LastDef |->
        LET day == Wall(m) \div 4
        IN  <<Wall(m) % 2, (Wall(m) \div 2) % 2, DayOfMonth(day), Month(day), day % 3>>]

\* The same day and time three years on; a day that is not there is the next.
DeadlineDef ==
    [m \in 0..LastDef |->
        LET day  == Wall(m) \div 4
            then == YearStart[Year(day) + 3] + DayOfYear(day)
            end  == Wall(m) + 4 * (then - day)
        IN  IF end <= LastDef THEN end ELSE LastDef]

-----------------------------------------------------------------------------
(* The expressions.                                                        *)

Any(step) == [base |-> "any", lo |-> 0, hi |-> 0, step |-> step]

One(n) == [base |-> "one", lo |-> n, hi |-> n, step |-> 1]

Between(lo, hi, step) == [base |-> "range", lo |-> lo, hi |-> hi, step |-> step]

Malformed == [base |-> "malformed", lo |-> 0, hi |-> 0, step |-> 1]

Good ==
    {<<<<min>>, <<hour>>, dom, <<month>>, dow>> :
        min \in {Any(1), One(1)}, hour \in {One(0), Any(2)},
        month \in {Any(1), One(2)},
        dom \in {<<Any(1)>>, <<One(3)>>, <<Any(2)>>, <<One(2), Between(1, 3, 2)>>},
        dow \in {<<Any(1)>>, <<One(0)>>, <<One(3)>>, <<Between(1, 3, 2)>>,
                 <<One(1), Any(5)>>}}

\* Descending, out of range at either end, a step of zero, a huge one, and
\* items that are no numbers.
Bad ==
    {<<<<One(0)>>, <<it>>, <<Any(1), it>>, <<Any(1)>>, <<One(1), it>>>> :
        it \in {Between(1, 0, 1), Between(1, 4, 1), One(4), One(-1), Any(0),
                Between(1, 1, 1000), Any(1000), Any(941), Any(939), Malformed}}

ExprDef == Good \cup Bad \cup {<<>>, <<<<Any(1)>>>>}

=============================================================================
