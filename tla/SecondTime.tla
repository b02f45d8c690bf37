------------------------------ MODULE SecondTime ------------------------------
(***************************************************************************)
(* ElsaCSecondTime: a date as the seconds since YearBase, whose top bit    *)
(* says whether the time has started to count. A second is 1/SecOfDay of a *)
(* day, and RecordFlag the value of the top bit on that scale. The clock   *)
(* and the calendar walk on together; the object is used as a timer.       *)
(***************************************************************************)
EXTENDS Integers, Sequences, SequencesExt, Folds

CONSTANTS YearBase, SecOfDay, RecordFlag,
          Years, Months, (* the walk starts on the 27th of one of these      *)
          MaxTicks,   (* how far it goes                                     *)
          Waits       (* what the timer may be set to                        *)

VARIABLES now,     (* seconds since the start of YearBase                    *)
          date,    (* the date the calendar shows                            *)
          ticks,   (* how far the walk went                                  *)
          tv,      (* m_uiTv: the flag and the rest                          *)
          due      (* when the timer, once started, is due; -1 before        *)

vars == <<now, date, ticks, tv, due>>

IsLeapYear(year) == (year % 4 = 0 /\ year % 100 # 0) \/ year % 400 = 0

MonthDays(leap) == <<31, IF leap THEN 29 ELSE 28, 31, 30, 31, 30, 31, 31, 30, 31, 30, 31>>
DaysOfYear(year) == IF IsLeapYear(year) THEN 366 ELSE 365
SumTo(f(_), a, b) == MapThenFoldSet(+, 0, f, LAMBDA S : CHOOSE x \in S : TRUE, a..b)
SecOfMonths(leap, n) == SumTo(LAMBDA m : MonthDays(leap)[m] * SecOfDay, 1, n)
SecOfYears(from, to) == SumTo(LAMBDA y : DaysOfYear(y) * SecOfDay, from, to)

Mut_Encode(d) == (SecOfYears(YearBase, d.year - 1) + SecOfMonths(FALSE, d.mon)
                  + (d.day - 1) * SecOfDay + d.sec) % RecordFlag
\* The loop over the years leaves i at YearBase - 1, and it is that year whose
\* Februaries the months are counted with.
Encode(d) == (SecOfYears(YearBase, d.year - 1) + SecOfMonths(IsLeapYear(YearBase - 1), d.mon - 1)
              + (d.day - 1) * SecOfDay + d.sec) % RecordFlag

\* The last year, then the last month, that begins at or before v.
Decode(v) ==
  LET year == CHOOSE y \in YearBase .. YearBase + RecordFlag \div (365 * SecOfDay) :
                /\ SecOfYears(YearBase, y - 1) <= v /\ v < SecOfYears(YearBase, y)
      rest == v - SecOfYears(YearBase, year - 1)
      mon == CHOOSE m \in 1..12 : /\ SecOfMonths(IsLeapYear(year), m - 1) <= rest
                                  /\ rest < SecOfMonths(IsLeapYear(year), m)
      left == rest - SecOfMonths(IsLeapYear(year), mon - 1)
  IN [year |-> year, mon |-> mon, day |-> left \div SecOfDay + 1, sec |-> left % SecOfDay]

RelToday(v) == (v \div SecOfDay) * SecOfDay
RelTomorrow(v) == ((v + SecOfDay) \div SecOfDay) * SecOfDay
IsSameDay(v, w) == v \div SecOfDay = w \div SecOfDay

Init == \E y \in Years, m \in Months :
          /\ now = SecOfYears(YearBase, y - 1) + SecOfMonths(IsLeapYear(y), m - 1) + 26 * SecOfDay
          /\ date = [year |-> y, mon |-> m, day |-> 27, sec |-> 0]
          /\ ticks = 0 /\ tv = [flag |-> FALSE, rest |-> 0] /\ due = -1

NextDay(d) ==
  IF d.day < MonthDays(IsLeapYear(d.year))[d.mon] THEN [d EXCEPT !.day = @ + 1, !.sec = 0]
  ELSE IF d.mon < 12 THEN [d EXCEPT !.mon = @ + 1, !.day = 1, !.sec = 0]
  ELSE [year |-> d.year + 1, mon |-> 1, day |-> 1, sec |-> 0]

Tick == /\ ticks < MaxTicks /\ now + 1 < RecordFlag
        /\ ticks' = ticks + 1 /\ now' = now + 1
        /\ date' = IF date.sec + 1 < SecOfDay THEN [date EXCEPT !.sec = @ + 1] ELSE NextDay(date)
        /\ UNCHANGED <<tv, due>>

Set(n) == /\ tv' = [flag |-> FALSE, rest |-> n] /\ due' = -1
          /\ UNCHANGED <<now, date, ticks>>

\* A time that has started is not started again; the sum has room in the other bits.
StartRecord == /\ tv' = IF tv.flag THEN tv ELSE [flag |-> TRUE, rest |-> (now + tv.rest) % RecordFlag]
               /\ due' = IF tv.flag THEN due ELSE now + tv.rest
               /\ now + tv.rest < RecordFlag
               /\ UNCHANGED <<now, date, ticks>>

\* operator+= and operator-=, which leave the flag as it is.
Add(n) == /\ tv' = [tv EXCEPT !.rest = (@ + n) % RecordFlag]
          /\ due' = IF tv.flag THEN due + n ELSE due
          /\ tv.rest + n < RecordFlag
          /\ tv.rest + n - (IF tv.flag THEN now ELSE 0) \in 0..3
          /\ UNCHANGED <<now, date, ticks>>

\* An expired timer is set anew.
Next == \/ (tv.flag => now <= due) /\ Tick
        \/ \E n \in Waits : Set(n) \/ Add(n) \/ Add(-n)
        \/ StartRecord

Spec == Init /\ [][Next]_vars

===============================================================================
