------------------------------ MODULE Calendar ------------------------------
(***************************************************************************)
(* Dates in toolbox.cpp: mkgmtime and what is built on it.                 *)
(*                                                                         *)
(* The state is a clock that counts the days since 1970-01-01, as gmtime   *)
(* sees them, next to the date they make by the rules of the calendar; the *)
(* functions of the toolbox are operators on both.  A time_t is kept as a  *)
(* pair of a day and a second of the day, which lets years beyond 2037 fit *)
(* into TLC's integers; adding secs_per_day is adding one to the day.      *)
(* Texts have room for a year of four digits: the functions that read one  *)
(* take the other parts from fixed places behind it.                       *)
(***************************************************************************)
EXTENDS Integers, FiniteSets, Sequences

CONSTANTS
    LastYear,   \* bound: the clock stops at the end of this year, of four digits
    TimeOfDay,  \* times of day looked at: [hour, min, sec]
    Zone        \* the seconds the host's standard time is ahead of UTC

(* The years that four characters hold. *)
FourDigits == 0..9999

ASSUME CalendarAssumption == LastYear \in FourDigits /\ Zone \in Int

ASSUME TimeOfDayAssumption ==
    TimeOfDay \subseteq [hour : 0..23, min : 0..59, sec : 0..59]

VARIABLES
    elapsed,    \* days since 1970-01-01
    date        \* [year, month, day]: the date of that day

calendarVars == <<elapsed, date>>

(***************************************************************************)
(* The toolbox.                                                            *)
(***************************************************************************)
seconds_per_minute == 60
seconds_per_hour == 3600
seconds_per_day == 86400

days_of_month == <<31, 28, 31, 30, 31, 30, 31, 31, 30, 31, 30, 31>>

(* Mutant: every fourth year. *)
EveryFourthYear(year) == year % 4 = 0

(* The year is an int, the parameter a short. *)
ShortRange == 65536

Short(n) == ((n + 32768) % ShortRange) - 32768

is_leap_year(year) ==
    Short(year) % 4 = 0 /\ (Short(year) % 100 # 0 \/ Short(year) % 400 = 0)

(* The two loops: whole years since 1970, whole months of the year. *)
DaysOfYears(year) ==
    365 * (year - 1970) + Cardinality({y \in 1970..(year - 1) : is_leap_year(y)})

DaysBefore[month \in 1..12] ==
    IF month = 1 THEN 0 ELSE DaysBefore[month - 1] + days_of_month[month - 1]

DaysOfMonths(year, month) ==
    DaysBefore[month] + IF month > 2 /\ is_leap_year(year) THEN 1 ELSE 0

mkgmtime(d, t) ==
    [days |-> DaysOfYears(d.year) + DaysOfMonths(d.year, d.month) + d.day - 1,
     secs |-> seconds_per_hour * t.hour + seconds_per_minute * t.min + t.sec]

(* mktime, external: a tm_isdst of 0 means standard time, also in summer. *)
mktime(d, t) ==
    LET utc == mkgmtime(d, t)
        local == utc.secs - Zone
    IN  [days |-> utc.days + local \div seconds_per_day, secs |-> local % seconds_per_day]

(* Mutant: rounds down. *)
Floored(ts) == [ts EXCEPT !.secs = 0]

(* The division rounds towards zero: up, before 1970. *)
begin_of_day(ts) ==
    [days |-> IF ts.days < 0 /\ ts.secs > 0 THEN ts.days + 1 ELSE ts.days, secs |-> 0]

end_of_day(ts) == [begin_of_day(ts) EXCEPT !.secs = @ + seconds_per_day - 1]

NotAfter(ts, us) == ts.days < us.days \/ (ts.days = us.days /\ ts.secs <= us.secs)

is_today(ts) == NotAfter(begin_of_day(ts), ts) /\ NotAfter(ts, end_of_day(ts))

(* A text holds a date, and a time when it has 19 characters or more. *)
Midnight == [hour |-> 0, min |-> 0, sec |-> 0]
DayEnd == [hour |-> 23, min |-> 59, sec |-> 59]
NoText == [date |-> <<>>, time |-> <<>>]
Epoch == [days |-> 0, secs |-> 0]

(* Mutant: the end of the day is not set. *)
EodIgnored(text, eod) == IF text.time # <<>> THEN text.time[1] ELSE Midnight

TimeRead(text, eod) ==
    IF text.time # <<>> THEN text.time[1]
    ELSE IF eod THEN DayEnd ELSE Midnight

string_to_time_t(text, eod) ==
    IF text = NoText THEN Epoch ELSE mkgmtime(text.date[1], TimeRead(text, eod))

(* Only the first ten characters count. *)
date_string_to_time_t(text, eod) ==
    IF text = NoText THEN Epoch
    ELSE mktime(text.date[1], IF eod THEN DayEnd ELSE Midnight)

(* Mutant: UTC, as it was written. *)
LdapReadAsUtc(text) ==
    IF text = NoText THEN Epoch ELSE mkgmtime(text.date[1], text.time[1])

ldaptime_to_time_t(text) ==
    IF text = NoText THEN Epoch ELSE mktime(text.date[1], text.time[1])

(* What strftime writes of time t on the day of the clock; the epoch itself
   gives an empty text. *)
IsEpoch(t) == elapsed = 0 /\ t = Midnight

gmttime_to_string(t) == IF IsEpoch(t) THEN NoText ELSE [date |-> <<date>>, time |-> <<t>>]

gmttime_to_ldaptime(t) == gmttime_to_string(t)

gmttime_to_date_string(t) == IF IsEpoch(t) THEN NoText ELSE [date |-> <<date>>, time |-> <<>>]

(***************************************************************************)
(* The clock, by the rules of the Gregorian calendar.                      *)
(***************************************************************************)
CalendarInit ==
    /\ elapsed = 0
    /\ date = [year |-> 1970, month |-> 1, day |-> 1]

LastDay(year, month) ==
    CASE month \in {4, 6, 9, 11} -> 30
      [] month = 2 -> IF \/ year % 400 = 0
                         \/ year % 4 = 0 /\ year % 100 # 0 THEN 29 ELSE 28
      [] OTHER -> 31

NextDay ==
    /\ date.day < LastDay(date.year, date.month)
    /\ date' = [date EXCEPT !.day = @ + 1]
    /\ elapsed' = elapsed + 1

NextMonth ==
    /\ date.day = LastDay(date.year, date.month)
    /\ date.month < 12
    /\ date' = [year |-> date.year, month |-> date.month + 1, day |-> 1]
    /\ elapsed' = elapsed + 1

NextYear ==
    /\ date.day = 31 /\ date.month = 12
    /\ date.year < LastYear
    /\ date' = [year |-> date.year + 1, month |-> 1, day |-> 1]
    /\ elapsed' = elapsed + 1

CalendarNext == NextDay \/ NextMonth \/ NextYear

CalendarSpec == CalendarInit /\ [][CalendarNext]_calendarVars

(***************************************************************************)
(* Properties.                                                             *)
(***************************************************************************)
Seconds(t) == seconds_per_hour * t.hour + seconds_per_minute * t.min + t.sec

(* A time written in UTC is read back as the same time, through leap years *)
(* and the centuries that are none: mkgmtime undoes gmtime.                *)
WrittenTimeReadBack ==
    \A t \in TimeOfDay, eod \in BOOLEAN :
        string_to_time_t(gmttime_to_string(t), eod) = [days |-> elapsed, secs |-> Seconds(t)]

(* A date without a time means its first second or, asked for as the end   *)
(* of an interval, its last, which is the second before the next day.      *)
DateCoversItsDay ==
    \A t \in TimeOfDay : ~IsEpoch(t) =>
        LET first == string_to_time_t(gmttime_to_date_string(t), FALSE)
            last == string_to_time_t(gmttime_to_date_string(t), TRUE)
        IN  /\ first = begin_of_day(last)
            /\ last = end_of_day(first)
            /\ last = [days |-> elapsed, secs |-> seconds_per_day - 1]

(* The seconds from the beginning of the clock's day to a time. *)
SinceMidnight(ts) == (ts.days - elapsed) * seconds_per_day + ts.secs

(* LDAP times, and dates on their own, are written in UTC and read in the  *)
(* host's standard time: each comes back earlier by the zone's offset, on  *)
(* another day if need be, and is itself only on a host that keeps UTC.    *)
LocalReadOffByZone ==
    \A t \in TimeOfDay : ~IsEpoch(t) =>
        /\ SinceMidnight(ldaptime_to_time_t(gmttime_to_ldaptime(t))) = Seconds(t) - Zone
        /\ SinceMidnight(date_string_to_time_t(gmttime_to_date_string(t), FALSE)) = -Zone
        /\ SinceMidnight(date_string_to_time_t(gmttime_to_string(t), TRUE))
             = seconds_per_day - 1 - Zone

(* is_today compares a time with its own day only: it is true of every     *)
(* time since 1970, and before that of the first second of a day alone,    *)
(* because the day it finds is the next one.                               *)
TodayIsAnyDay ==
    \A t \in TimeOfDay :
        /\ is_today([days |-> elapsed, secs |-> Seconds(t)])
        /\ is_today([days |-> -elapsed - 1, secs |-> Seconds(t)]) <=> t = Midnight
=============================================================================
