---------------------------- MODULE NumberProofs ----------------------------
(***************************************************************************)
(* The arithmetic of toolbox.cpp.  The calendar, for every day of every    *)
(* year from 1970 to 9999, every time of day and every zone: mkgmtime counts the   *)
(* days of the clock, and what follows from it for the functions built on  *)
(* it.  Amounts, for every amount, every number of decimals and every text *)
(* of digits: the numbers that digits stand for are defined by recursion,  *)
(* and lemmas say what it adds up to.                                      *)
(***************************************************************************)
EXTENDS Calendar, Amount, Induction, SequenceTheorems, FiniteSetTheorems, TLAPS

(***************************************************************************)
(* The two loops of mkgmtime, from one month and one year to the next.     *)
(***************************************************************************)
LEMMA DaysBeforeMonth ==
  DaysBefore = <<0, 31, 59, 90, 120, 151, 181, 212, 243, 273, 304, 334>>
<1> DEFINE Loop(f) == f = [month \in 1..12 |-> IF month = 1 THEN 0
                                            ELSE f[month - 1] + days_of_month[month - 1]]
           table == <<0, 31, 59, 90, 120, 151, 181, 212, 243, 273, 304, 334>>
<1>1. Loop(table)
  BY DEF days_of_month
<1>2. DaysBefore = CHOOSE f : Loop(f)
  BY DEF DaysBefore
<1>3. Loop(DaysBefore)
  BY <1>1, <1>2
<1> HIDE DEF table
<1>4. \A m \in 1..12 : DaysBefore[m] = table[m]
  BY <1>3 DEF days_of_month, table
<1>5. QED
  BY <1>3, <1>4 DEF table

(* The range of a short, and of years, kept in names. *)
LEMMA Ranges ==
  /\ FourDigits \subseteq Nat
  /\ \A y \in FourDigits : \A x \in Nat : x <= y => x \in FourDigits
  /\ 1970 \in FourDigits
<1> DEFINE m == 9999
<1>1. m \in Nat /\ 1970 <= m
  BY SMT
<1>2. FourDigits = 0..m
  BY Zenon DEF FourDigits
<1> HIDE DEF m
<1> QED
  BY <1>1, <1>2

(* A year of four digits is the same as a short. *)
LEMMA ShortYear ==
  ASSUME NEW year \in FourDigits
  PROVE  Short(year) = year
<1> DEFINE n == year + 32768
<1>1. \A m \in Nat \ {0} : n \in 0..(m - 1) => n % m = n
  BY Ranges, SMT
<1>2. ShortRange \in Nat \ {0} /\ n \in 0..(ShortRange - 1) /\ n - 32768 = year
  BY SMT DEF ShortRange, FourDigits
<1> HIDE DEF n
<1>3. n % ShortRange = n
  BY <1>1, <1>2
<1>4. Short(year) = (n % ShortRange) - 32768
  BY DEF Short, n
<1> QED
  BY <1>2, <1>3, <1>4

LEMMA LeapYear ==
  ASSUME NEW year \in FourDigits
  PROVE  is_leap_year(year) <=> year % 4 = 0 /\ (year % 100 # 0 \/ year % 400 = 0)
<1> DEFINE y == Short(year)
<1>1. y = year
  BY ShortYear, Zenon
<1>2. is_leap_year(year) <=> y % 4 = 0 /\ (y % 100 # 0 \/ y % 400 = 0)
  BY Zenon DEF is_leap_year
<1> HIDE DEF y
<1> QED
  BY <1>1, <1>2, Zenon

LEMMA NextMonthCounted ==
  ASSUME NEW year \in FourDigits, NEW month \in 1..11
  PROVE  /\ DaysOfMonths(year, month + 1) = DaysOfMonths(year, month) + LastDay(year, month)
         /\ DaysOfMonths(year, 1) = 0
         /\ DaysOfMonths(year, 12) + 31 = 365 + IF is_leap_year(year) THEN 1 ELSE 0
<1>1. LastDay(year, month) =
        CASE month \in {4, 6, 9, 11} -> 30
          [] month = 2 -> IF is_leap_year(year) THEN 29 ELSE 28
          [] OTHER -> 31
  <2>1. CASE month = 2
    <3>1. LastDay(year, 2) = IF \/ year % 400 = 0
                                \/ year % 4 = 0 /\ year % 100 # 0 THEN 29 ELSE 28
      BY 2 \notin {4, 6, 9, 11} DEF LastDay
    <3>2. year % 400 = 0 => year % 4 = 0
      <4>1. \A n \in Nat : n % 400 = 0 => n % 4 = 0
        BY SMT
      <4>2. year \in Nat
        BY Ranges, SMT
      <4> QED
        BY <4>1, <4>2, Zenon
    <3>3. is_leap_year(year) <=> (year % 400 = 0 \/ (year % 4 = 0 /\ year % 100 # 0))
      <4>1. is_leap_year(year) <=> year % 4 = 0 /\ (year % 100 # 0 \/ year % 400 = 0)
        BY LeapYear
      <4> QED
        BY <3>2, <4>1
    <3>4. LastDay(year, 2) = IF is_leap_year(year) THEN 29 ELSE 28
      BY <3>1, <3>3, Zenon
    <3> QED
      BY <2>1, <3>4
  <2>2. CASE month # 2
    BY <2>2 DEF LastDay
  <2> QED
    BY <2>1, <2>2
<1> QED
  BY <1>1, DaysBeforeMonth DEF DaysOfMonths

LEMMA NextYearCounted ==
  ASSUME NEW year \in Nat, year >= 1970
  PROVE  /\ DaysOfYears(year) \in Nat
         /\ DaysOfYears(year + 1) = DaysOfYears(year) + 365 + IF is_leap_year(year) THEN 1 ELSE 0
<1> DEFINE Leap(y) == {x \in 1970..(y - 1) : is_leap_year(x)}
<1>1. IsFiniteSet(Leap(year)) /\ Cardinality(Leap(year)) \in Nat
  <2>1. IsFiniteSet(1970..(year - 1)) /\ Leap(year) \in SUBSET (1970..(year - 1))
    BY FS_Interval
  <2> QED
    BY <2>1, FS_Subset, FS_CardinalityType
<1>2. year \notin Leap(year)
  OBVIOUS
<1>3. Leap(year + 1) = IF is_leap_year(year) THEN Leap(year) \cup {year} ELSE Leap(year)
  BY SMT
<1>4. Cardinality(Leap(year + 1))
        = Cardinality(Leap(year)) + IF is_leap_year(year) THEN 1 ELSE 0
  BY <1>1, <1>2, <1>3, FS_AddElement
<1>5. /\ DaysOfYears(year) = 365 * (year - 1970) + Cardinality(Leap(year))
      /\ DaysOfYears(year + 1) = 365 * (year + 1 - 1970) + Cardinality(Leap(year + 1))
  <2>1. year + 1 - 1 = year
    OBVIOUS
  <2> QED
    BY <2>1 DEF DaysOfYears
<1> HIDE DEF Leap
<1>6. QED
  BY <1>1, <1>4, <1>5

(***************************************************************************)
(* The invariant: the clock shows a date that exists, and mkgmtime makes   *)
(* its count of it.                                                        *)
(***************************************************************************)
DateCounted ==
  /\ elapsed \in Nat
  /\ date \in [year : Nat, month : 1..12, day : 1..31]
  /\ date.year >= 1970 /\ date.year \in FourDigits
  /\ elapsed = DaysOfYears(date.year) + DaysOfMonths(date.year, date.month) + date.day - 1

LEMMA InitDateCounted == CalendarInit => DateCounted
<1> SUFFICES ASSUME CalendarInit PROVE DateCounted
  OBVIOUS
<1>1. elapsed = 0 /\ date = [year |-> 1970, month |-> 1, day |-> 1]
  BY DEF CalendarInit
<1>2. DaysOfYears(1970) = 0
  <2>1. {y \in 1970..(1970 - 1) : is_leap_year(y)} = {}
    OBVIOUS
  <2> QED
    BY <2>1, FS_EmptySet DEF DaysOfYears
<1>3. DaysOfMonths(1970, 1) = 0
  BY NextMonthCounted, Ranges
<1> QED
  BY Ranges, <1>1, <1>2, <1>3 DEF DateCounted

LEMMA NextDateCounted == DateCounted /\ [CalendarNext]_calendarVars => DateCounted'
<1> SUFFICES ASSUME DateCounted, [CalendarNext]_calendarVars PROVE DateCounted'
  OBVIOUS
<1> DEFINE y == date.year
           m == date.month
           day == date.day
<1>1. /\ y \in Nat /\ y >= 1970 /\ y \in FourDigits /\ m \in 1..12 /\ day \in 1..31 /\ elapsed \in Nat
      /\ date = [year |-> y, month |-> m, day |-> day]
      /\ elapsed = DaysOfYears(y) + DaysOfMonths(y, m) + day - 1
      /\ DaysOfYears(y) \in Nat
  BY NextYearCounted DEF DateCounted
<1> DEFINE Shows(yy, mm, dd) == date' = [year |-> yy, month |-> mm, day |-> dd]
<1>2. ASSUME NEW yy \in Nat, yy >= 1970, yy \in FourDigits, NEW mm \in 1..12, NEW dd \in 1..31,
             Shows(yy, mm, dd), elapsed' = elapsed + 1,
             elapsed + 1 = DaysOfYears(yy) + DaysOfMonths(yy, mm) + dd - 1
      PROVE  DateCounted'
  BY <1>1, <1>2 DEF DateCounted
<1>3. CASE NextDay
  <2>1. day < LastDay(y, m) /\ Shows(y, m, day + 1) /\ elapsed' = elapsed + 1
    BY <1>1, <1>3 DEF NextDay
  <2>2. LastDay(y, m) \in 28..31
    BY DEF LastDay
  <2>3. day + 1 \in 1..31
    BY <1>1, <2>1, <2>2
  <2>4. DaysOfMonths(y, m) \in Int
    BY <1>1, DaysBeforeMonth DEF DaysOfMonths
  <2> HIDE DEF y, m, day, Shows
  <2> QED
    BY <1>1, <1>2, <2>1, <2>3, <2>4
<1>4. CASE NextMonth
  <2>1. day = LastDay(y, m) /\ m < 12 /\ Shows(y, m + 1, 1) /\ elapsed' = elapsed + 1
    BY <1>1, <1>4 DEF NextMonth
  <2>2. m \in 1..11 /\ m + 1 \in 1..12
    BY <1>1, <2>1
  <2>3. DaysOfMonths(y, m + 1) = DaysOfMonths(y, m) + LastDay(y, m)
    BY <1>1, <2>2, NextMonthCounted
  <2>4. DaysOfMonths(y, m) \in Int
    BY <1>1, DaysBeforeMonth DEF DaysOfMonths
  <2> HIDE DEF y, m, day, Shows
  <2> QED
    BY <1>1, <1>2, <2>1, <2>2, <2>3, <2>4
<1>5. CASE NextYear
  <2>1. day = 31 /\ m = 12 /\ Shows(y + 1, 1, 1) /\ elapsed' = elapsed + 1
    BY <1>1, <1>5 DEF NextYear
  <2>2. DaysOfMonths(y, 12) + 31 = 365 + IF is_leap_year(y) THEN 1 ELSE 0
    BY <1>1, NextMonthCounted
  <2>3. y + 1 \in FourDigits /\ y + 1 >= 1970
    BY <1>1, <1>5, CalendarAssumption, Ranges DEF NextYear
  <2>6. DaysOfMonths(y + 1, 1) = 0
    BY <2>3, NextMonthCounted
  <2>4. DaysOfYears(y + 1) = DaysOfYears(y) + 365 + IF is_leap_year(y) THEN 1 ELSE 0
    BY <1>1, NextYearCounted
  <2>5. DaysOfMonths(y, m) \in Int
    BY <1>1, DaysBeforeMonth DEF DaysOfMonths
  <2> HIDE DEF y, m, day, Shows
  <2> QED
    BY <1>1, <1>2, <2>1, <2>2, <2>3, <2>4, <2>5, <2>6
<1>6. CASE UNCHANGED calendarVars
  BY <1>6 DEF calendarVars, DateCounted
<1> QED
  BY <1>3, <1>4, <1>5, <1>6 DEF CalendarNext

LEMMA CalendarInvariant == CalendarSpec => []DateCounted
  BY InitDateCounted, NextDateCounted, PTL DEF CalendarSpec

(***************************************************************************)
(* Times of day.                                                           *)
(***************************************************************************)
LEMMA SecondsPerDay == seconds_per_day \in Nat /\ seconds_per_day > 0
  BY SMT DEF seconds_per_day

LEMMA SecondsOfDay ==
  ASSUME NEW t \in TimeOfDay
  PROVE  /\ Seconds(t) \in Nat /\ Seconds(t) < seconds_per_day
         /\ Seconds(t) = 0 <=> t = Midnight
<1>1. PICK h \in 0..23, m \in 0..59, s \in 0..59 : t = [hour |-> h, min |-> m, sec |-> s]
  BY TimeOfDayAssumption
<1>2. Seconds(t) = 3600 * h + 60 * m + s
  BY <1>1, SMT DEF Seconds, seconds_per_hour, seconds_per_minute
<1>3. t = Midnight <=> h = 0 /\ m = 0 /\ s = 0
  BY <1>1 DEF Midnight
<1>4. 3600 * h + 60 * m + s \in Nat /\ 3600 * h + 60 * m + s <= 86399
  BY SMT
<1>5. 3600 * h + 60 * m + s = 0 <=> h = 0 /\ m = 0 /\ s = 0
  BY SMT
<1> QED
  BY <1>2, <1>3, <1>4, <1>5, SMT DEF seconds_per_day

LEMMA EndsOfDay == Seconds(Midnight) = 0 /\ Seconds(DayEnd) = seconds_per_day - 1
  BY SMT DEF Seconds, Midnight, DayEnd, seconds_per_day, seconds_per_hour, seconds_per_minute

(* mkgmtime of the clock's date is the clock's count. *)
LEMMA CountOfTheClock ==
  ASSUME DateCounted, NEW t
  PROVE  mkgmtime(date, t) = [days |-> elapsed, secs |-> Seconds(t)]
<1>1. mkgmtime(date, t) =
        [days |-> DaysOfYears(date.year) + DaysOfMonths(date.year, date.month) + date.day - 1,
         secs |-> Seconds(t)]
  BY DEF mkgmtime, Seconds
<1> QED
  BY <1>1 DEF DateCounted

LEMMA TextsOfTheClock ==
  ASSUME NEW t, ~IsEpoch(t)
  PROVE  /\ gmttime_to_string(t) = [date |-> <<date>>, time |-> <<t>>]
         /\ gmttime_to_ldaptime(t) = [date |-> <<date>>, time |-> <<t>>]
         /\ gmttime_to_date_string(t) = [date |-> <<date>>, time |-> <<>>]
         /\ gmttime_to_string(t) # NoText
         /\ gmttime_to_ldaptime(t) # NoText
         /\ gmttime_to_date_string(t) # NoText
<1>1. <<date>> # <<>> /\ <<t>> # <<>>
  OBVIOUS
<1>2. NoText.date = <<>>
  BY DEF NoText
<1> QED
  BY <1>1, <1>2 DEF gmttime_to_string, gmttime_to_ldaptime, gmttime_to_date_string

(* What is read back of a text of the clock's day. *)
LEMMA TextsRead ==
  ASSUME DateCounted, NEW t, ~IsEpoch(t), NEW eod \in BOOLEAN
  PROVE  /\ string_to_time_t(gmttime_to_string(t), eod)
              = [days |-> elapsed, secs |-> Seconds(t)]
         /\ string_to_time_t(gmttime_to_date_string(t), eod)
              = [days |-> elapsed, secs |-> Seconds(IF eod THEN DayEnd ELSE Midnight)]
<1>1. \A u : <<u>>[1] = u /\ <<u>> # <<>>
  OBVIOUS
<1>2. TimeRead(gmttime_to_string(t), eod) = t
  BY <1>1, TextsOfTheClock DEF TimeRead
<1>3. TimeRead(gmttime_to_date_string(t), eod) = IF eod THEN DayEnd ELSE Midnight
  BY TextsOfTheClock DEF TimeRead
<1>4. gmttime_to_string(t).date[1] = date /\ gmttime_to_date_string(t).date[1] = date
  BY <1>1, TextsOfTheClock
<1>5. string_to_time_t(gmttime_to_string(t), eod) = mkgmtime(date, t)
  BY <1>2, <1>4, TextsOfTheClock DEF string_to_time_t
<1>6. string_to_time_t(gmttime_to_date_string(t), eod)
        = mkgmtime(date, IF eod THEN DayEnd ELSE Midnight)
  BY <1>3, <1>4, TextsOfTheClock DEF string_to_time_t
<1> QED
  BY <1>5, <1>6, CountOfTheClock

(* mkgmtime undoes gmtime on every day of the years texts have room for,
   through every leap year. *)
THEOREM WrittenTimesReadBack == CalendarSpec => []WrittenTimeReadBack
<1>1. DateCounted => WrittenTimeReadBack
  <2> SUFFICES ASSUME DateCounted, NEW t \in TimeOfDay, NEW eod \in BOOLEAN
               PROVE  string_to_time_t(gmttime_to_string(t), eod)
                        = [days |-> elapsed, secs |-> Seconds(t)]
    BY DEF WrittenTimeReadBack
  <2>1. CASE IsEpoch(t)
    BY <2>1, EndsOfDay DEF IsEpoch, gmttime_to_string, string_to_time_t, Epoch
  <2>2. CASE ~IsEpoch(t)
    BY <2>2, TextsRead
  <2> QED
    BY <2>1, <2>2
<1> QED
  BY <1>1, CalendarInvariant, PTL

(* Since 1970 begin_of_day and end_of_day are the bounds of the day. *)
LEMMA BoundsOfDay ==
  ASSUME NEW day \in Nat, NEW s \in Nat
  PROVE  /\ begin_of_day([days |-> day, secs |-> s]) = [days |-> day, secs |-> 0]
         /\ end_of_day([days |-> day, secs |-> s])
              = [days |-> day, secs |-> seconds_per_day - 1]
<1>1. begin_of_day([days |-> day, secs |-> s]) = [days |-> day, secs |-> 0]
  BY DEF begin_of_day
<1>2. 0 + seconds_per_day - 1 = seconds_per_day - 1
  BY SecondsPerDay
<1> QED
  BY <1>1, <1>2 DEF end_of_day

(* A date alone reads as the first second of its day or as the last. *)
THEOREM DatesCoverTheirDays == CalendarSpec => []DateCoversItsDay
<1>1. DateCounted => DateCoversItsDay
  <2> DEFINE first(t) == string_to_time_t(gmttime_to_date_string(t), FALSE)
             last(t) == string_to_time_t(gmttime_to_date_string(t), TRUE)
  <2>1. ASSUME DateCounted, NEW t \in TimeOfDay, ~IsEpoch(t)
        PROVE  /\ first(t) = begin_of_day(last(t))
               /\ last(t) = end_of_day(first(t))
               /\ last(t) = [days |-> elapsed, secs |-> seconds_per_day - 1]
    <3>1. first(t) = [days |-> elapsed, secs |-> 0]
      BY <2>1, TextsRead, EndsOfDay
    <3>2. last(t) = [days |-> elapsed, secs |-> seconds_per_day - 1]
      BY <2>1, TextsRead, EndsOfDay
    <3>3. elapsed \in Nat /\ 0 \in Nat /\ seconds_per_day - 1 \in Nat
      BY <2>1, SecondsPerDay DEF DateCounted
    <3> HIDE DEF first, last
    <3> QED
      BY <3>1, <3>2, <3>3, BoundsOfDay
  <2> QED
    BY <2>1 DEF DateCoversItsDay
<1> QED
  BY <1>1, CalendarInvariant, PTL

(* mktime is off by the zone, whatever day that makes. *)
LEMMA MktimeOff ==
  ASSUME DateCounted, NEW t, Seconds(t) \in Nat
  PROVE  SinceMidnight(mktime(date, t)) = Seconds(t) - Zone
<1> DEFINE x == Seconds(t) - Zone
           day == x \div seconds_per_day
           rest == x % seconds_per_day
<1>1. x \in Int /\ elapsed \in Int
  BY CalendarAssumption DEF DateCounted
<1>2. mktime(date, t) = [days |-> elapsed + day, secs |-> rest]
  BY CountOfTheClock DEF mktime
<1>3. day * seconds_per_day + rest = x /\ day \in Int
  <2> HIDE DEF x
  <2> QED
    BY <1>1, SMT DEF seconds_per_day
<1> HIDE DEF x, day, rest
<1>4. mktime(date, t).days - elapsed = day /\ mktime(date, t).secs = rest
  <2>1. mktime(date, t).days = elapsed + day /\ mktime(date, t).secs = rest
    BY <1>2
  <2> QED
    BY <1>1, <1>3, <2>1
<1>5. SinceMidnight(mktime(date, t)) = day * seconds_per_day + rest
  BY <1>4, Zenon DEF SinceMidnight
<1> QED
  BY <1>3, <1>5 DEF x

(* Times written in UTC and read in the host's time are off by the zone. *)
THEOREM LocalReadsOffByZone == CalendarSpec => []LocalReadOffByZone
<1>1. DateCounted => LocalReadOffByZone
  <2> SUFFICES ASSUME DateCounted, NEW t \in TimeOfDay, ~IsEpoch(t)
               PROVE  /\ SinceMidnight(ldaptime_to_time_t(gmttime_to_ldaptime(t)))
                           = Seconds(t) - Zone
                      /\ SinceMidnight(date_string_to_time_t(gmttime_to_date_string(t), FALSE))
                           = -Zone
                      /\ SinceMidnight(date_string_to_time_t(gmttime_to_string(t), TRUE))
                           = seconds_per_day - 1 - Zone
    BY DEF LocalReadOffByZone
  <2>1. \A u : <<u>>[1] = u
    OBVIOUS
  <2>2. /\ ldaptime_to_time_t(gmttime_to_ldaptime(t)) = mktime(date, t)
        /\ date_string_to_time_t(gmttime_to_date_string(t), FALSE) = mktime(date, Midnight)
        /\ date_string_to_time_t(gmttime_to_string(t), TRUE) = mktime(date, DayEnd)
    BY <2>1, TextsOfTheClock DEF ldaptime_to_time_t, date_string_to_time_t
  <2>3. Seconds(t) \in Nat /\ Seconds(Midnight) \in Nat /\ Seconds(DayEnd) \in Nat
    BY SecondsOfDay, EndsOfDay, SecondsPerDay
  <2>4. Seconds(Midnight) - Zone = -Zone
    BY CalendarAssumption, EndsOfDay
  <2>5. Seconds(DayEnd) - Zone = seconds_per_day - 1 - Zone
    BY EndsOfDay
  <2> QED
    BY <2>2, <2>3, <2>4, <2>5, MktimeOff
<1> QED
  BY <1>1, CalendarInvariant, PTL

(* is_today says nothing of today: it holds of every time since 1970, and
   before of each midnight and of nothing else. *)
THEOREM AnyDayIsToday == CalendarSpec => []TodayIsAnyDay
<1>1. DateCounted => TodayIsAnyDay
  <2> SUFFICES ASSUME DateCounted, NEW t \in TimeOfDay
               PROVE  /\ is_today([days |-> elapsed, secs |-> Seconds(t)])
                      /\ is_today([days |-> -elapsed - 1, secs |-> Seconds(t)]) <=> t = Midnight
    BY DEF TodayIsAnyDay
  <2> DEFINE n == Seconds(t)
             day == -elapsed - 1
             ts == [days |-> day, secs |-> n]
  <2>1. /\ elapsed \in Nat /\ n \in Nat /\ n <= seconds_per_day - 1 /\ (n = 0 <=> t = Midnight)
        /\ seconds_per_day - 1 \in Nat
    BY SecondsOfDay, SecondsPerDay DEF DateCounted
  <2>2. day \in Int /\ day < 0
    BY <2>1
  <2> HIDE DEF n, day
  <2>3. is_today([days |-> elapsed, secs |-> n])
    <3>1. /\ begin_of_day([days |-> elapsed, secs |-> n]) = [days |-> elapsed, secs |-> 0]
          /\ end_of_day([days |-> elapsed, secs |-> n])
               = [days |-> elapsed, secs |-> seconds_per_day - 1]
      BY <2>1, BoundsOfDay
    <3>2. n >= 0
      BY <2>1
    <3> QED
      BY <2>1, <3>1, <3>2 DEF is_today, NotAfter
  <2>4. is_today(ts) <=> n = 0
    <3>1. CASE n = 0
      <4>1. begin_of_day(ts) = [days |-> day, secs |-> 0]
        BY <3>1 DEF begin_of_day
      <4>2. end_of_day(ts) = [days |-> day, secs |-> seconds_per_day - 1]
        BY <4>1, SecondsPerDay DEF end_of_day
      <4> QED
        BY <2>1, <2>2, <3>1, <4>1, <4>2 DEF is_today, NotAfter
    <3>2. CASE n # 0
      <4>1. begin_of_day(ts) = [days |-> day + 1, secs |-> 0]
        BY <2>1, <2>2, <3>2 DEF begin_of_day
      <4>2. day < day + 1 /\ day # day + 1
        BY <2>2
      <4> QED
        BY <2>1, <2>2, <3>2, <4>1, <4>2 DEF is_today, NotAfter
    <3> QED
      BY <3>1, <3>2
  <2> QED
    BY <2>1, <2>3, <2>4 DEF n, day
<1> QED
  BY <1>1, CalendarInvariant, PTL

(***************************************************************************)
(* Amounts: powers of ten, and the numbers that digits stand for.          *)
(***************************************************************************)
(* The powers of ten.                                                      *)
Powers(p, n) ==
    p \in [0..n -> Nat] /\ p[0] = 1 /\ \A k \in 1..n : p[k] = 10 * p[k - 1]

LEMMA TenToSteps ==
    ASSUME NEW n \in Nat
    PROVE  \E p : Powers(p, n) /\ TenTo(n) = p[n]
  <1> DEFINE Turns(g) == [k \in 0..n |-> IF k = 0 THEN 1 ELSE 10 * g[k - 1]]
             power == CHOOSE g : g = Turns(g)
             step == [k \in 1..n |-> [x \in Nat |-> 10 * x]]
  <1>1. TenTo(n) = power[n]
    BY DEF TenTo
  <1>2. step \in TurnsOn(n, Nat) /\ \A k \in 1..n, x \in Nat : step[k][x] = 10 * x
    BY DEF TurnsOn
  <1> HIDE DEF step
  <1>3. PICK p \in [0..n -> Nat] : p[0] = 1 /\ \A k \in 1..n : p[k] = step[k][p[k - 1]]
    <2>1. \E f : Runs(f, n, Nat, 1, step)
      BY <1>2, Steps, 1 \in Nat
    <2> QED BY <2>1 DEF Runs
  <1>4. \A k \in 1..n : p[k - 1] \in Nat
    OBVIOUS
  <1>5. \A k \in 1..n : p[k] = 10 * p[k - 1]
    BY <1>2, <1>3, <1>4
  <1>6. p = Turns(p)
    BY <1>3, <1>5
  <1>7. power = Turns(power)
    <2> HIDE DEF Turns
    <2> QED BY <1>6, Zenon
  <1> HIDE DEF power
  <1>8. power[0] = p[0] /\ \A k \in 1..n : power[k - 1] = p[k - 1] => power[k] = p[k]
    <2>1. power[0] = 1 /\ \A k \in 1..n : power[k] = 10 * power[k - 1]
      BY <1>7
    <2> QED BY <1>3, <1>5, <2>1
  <1>9. power[n] = p[n]
    BY <1>8, SameSteps, n \in 0..n
  <1> QED BY <1>1, <1>3, <1>5, <1>9 DEF Powers

LEMMA TenToNext ==
    /\ TenTo(0) = 1
    /\ \A n \in Nat : TenTo(n + 1) = 10 * TenTo(n)
  <1>1. TenTo(0) = 1
    BY TenToSteps DEF Powers
  <1>2. ASSUME NEW n \in Nat PROVE TenTo(n + 1) = 10 * TenTo(n)
    <2>1. PICK p : Powers(p, n) /\ TenTo(n) = p[n]
      BY TenToSteps
    <2>2. PICK q : Powers(q, n + 1) /\ TenTo(n + 1) = q[n + 1]
      BY TenToSteps
    <2>3. \A k \in 1..n : k \in 1..n + 1
      OBVIOUS
    <2>4. p[0] = q[0] /\ \A k \in 1..n : p[k - 1] = q[k - 1] => p[k] = q[k]
      BY <2>1, <2>2, <2>3 DEF Powers
    <2>5. p[n] = q[n]
      BY <2>4, SameSteps
    <2>6. n + 1 \in 1..n + 1 /\ (n + 1) - 1 = n
      OBVIOUS
    <2>7. q[n + 1] = 10 * q[n]
      BY <2>2, <2>6 DEF Powers
    <2> QED BY <2>1, <2>2, <2>5, <2>7
  <1> QED BY <1>1, <1>2

LEMMA TenToType == \A n \in Nat : TenTo(n) \in Nat /\ TenTo(n) >= 1
  <1> DEFINE S == {n \in Nat : TenTo(n) \in Nat /\ TenTo(n) >= 1}
  <1>1. 0 \in S
    BY TenToNext
  <1>2. ASSUME NEW n \in Nat, n \in S PROVE n + 1 \in S
    BY <1>2, TenToNext
  <1>3. Nat \subseteq S
    <2> HIDE DEF S
    <2> QED BY <1>1, <1>2, NextInduction
  <1> QED BY <1>3

LEMMA TenToSum ==
    ASSUME NEW m \in Nat, NEW n \in Nat
    PROVE  TenTo(m + n) = TenTo(m) * TenTo(n)
  <1> DEFINE S == {k \in Nat : TenTo(m + k) = TenTo(m) * TenTo(k)}
  <1>1. 0 \in S
    BY TenToNext, TenToType
  <1>2. ASSUME NEW k \in Nat, k \in S PROVE k + 1 \in S
    <2>1. m + k \in Nat /\ m + (k + 1) = (m + k) + 1
      OBVIOUS
    <2>2. TenTo(m + (k + 1)) = 10 * TenTo(m + k) /\ TenTo(k + 1) = 10 * TenTo(k)
      BY <2>1, TenToNext
    <2>3. TenTo(m + k) = TenTo(m) * TenTo(k)
      BY <1>2
    <2>4. TenTo(m) \in Nat /\ TenTo(k) \in Nat
      BY TenToType
    <2>5. 10 * (TenTo(m) * TenTo(k)) = TenTo(m) * (10 * TenTo(k))
      BY <2>4
    <2> QED BY <2>2, <2>3, <2>5
  <1>3. Nat \subseteq S
    <2> HIDE DEF S
    <2> QED BY <1>1, <1>2, NextInduction
  <1> QED BY <1>3

(* The characters of digits, and what Value adds up along them.            *)
Numerical == 48..57

Adds(v, digits) ==
    /\ v \in [0..Len(digits) -> Int] /\ v[0] = 0
    /\ \A k \in 1..Len(digits) : v[k] = 10 * v[k - 1] + digits[k] - 48

LEMMA ValueSteps ==
    ASSUME NEW digits \in Seq(Numerical)
    PROVE  \E v : Adds(v, digits) /\ Value(digits) = v[Len(digits)]
  <1> DEFINE n == Len(digits)
             Turns(g) == [k \in 0..n |-> IF k = 0 THEN 0 ELSE 10 * g[k - 1] + digits[k] - 48]
             read == CHOOSE g : g = Turns(g)
             step == [k \in 1..n |-> [x \in Int |-> 10 * x + digits[k] - 48]]
  <1>1. Value(digits) = read[n]
    BY DEF Value, Digit
  <1>2. n \in Nat /\ \A k \in 1..n : digits[k] \in Int
    BY DEF Numerical
  <1> HIDE DEF n
  <1>3. /\ step \in TurnsOn(n, Int)
        /\ \A k \in 1..n, x \in Int : step[k][x] = 10 * x + digits[k] - 48
    BY <1>2 DEF TurnsOn
  <1> HIDE DEF step
  <1>4. PICK v \in [0..n -> Int] : v[0] = 0 /\ \A k \in 1..n : v[k] = step[k][v[k - 1]]
    <2>1. \E f : Runs(f, n, Int, 0, step)
      BY <1>2, <1>3, Steps, 0 \in Int
    <2> QED BY <2>1 DEF Runs
  <1>5. \A k \in 1..n : v[k] = 10 * v[k - 1] + digits[k] - 48
    <2>1. \A k \in 1..n : v[k - 1] \in Int
      BY <1>2
    <2> QED BY <1>3, <1>4, <2>1
  <1>6. v = Turns(v)
    BY <1>4, <1>5
  <1>7. read = Turns(read)
    <2> HIDE DEF Turns
    <2> QED BY <1>6, Zenon
  <1> HIDE DEF read
  <1>8. read[0] = v[0] /\ \A k \in 1..n : read[k - 1] = v[k - 1] => read[k] = v[k]
    <2>1. read[0] = 0 /\ \A k \in 1..n : read[k] = 10 * read[k - 1] + digits[k] - 48
      BY <1>2, <1>7
    <2> QED BY <1>4, <1>5, <2>1
  <1>9. read[n] = v[n]
    BY <1>2, <1>8, SameSteps, n \in 0..n
  <1> QED BY <1>1, <1>4, <1>5, <1>9 DEF Adds, n

LEMMA ValueEmpty == Value(<<>>) = 0
  <1>1. <<>> \in Seq(Numerical) /\ Len(<<>>) = 0
    OBVIOUS
  <1>2. PICK v : Adds(v, <<>>) /\ Value(<<>>) = v[0]
    BY <1>1, ValueSteps
  <1> QED BY <1>2 DEF Adds

LEMMA ValueInt == \A s \in Seq(Numerical) : Value(s) \in Int
  <1> SUFFICES ASSUME NEW s \in Seq(Numerical) PROVE Value(s) \in Int
    OBVIOUS
  <1>1. PICK v : Adds(v, s) /\ Value(s) = v[Len(s)]
    BY ValueSteps
  <1>2. Len(s) \in 0..Len(s)
    OBVIOUS
  <1> QED BY <1>1, <1>2 DEF Adds

LEMMA ValueLast ==
    ASSUME NEW s \in Seq(Numerical), NEW c \in Numerical
    PROVE  Value(Append(s, c)) = 10 * Value(s) + c - 48
  <1> DEFINE t == Append(s, c)
             n == Len(s)
  <1>1. /\ t \in Seq(Numerical) /\ Len(t) = n + 1 /\ n \in Nat
        /\ t[n + 1] = c /\ \A k \in 1..n : t[k] = s[k]
    OBVIOUS
  <1> HIDE DEF t
  <1>2. PICK v : Adds(v, s) /\ Value(s) = v[Len(s)]
    BY ValueSteps
  <1>3. PICK w : Adds(w, t) /\ Value(t) = w[Len(t)]
    BY <1>1, ValueSteps
  <1> HIDE DEF n
  <1>4. v[0] = w[0] /\ \A k \in 1..n : v[k - 1] = w[k - 1] => v[k] = w[k]
    <2>1. \A k \in 1..n : k \in 1..n + 1
      BY <1>1
    <2> QED BY <1>1, <1>2, <1>3, <2>1 DEF Adds, n
  <1>5. v[n] = w[n]
    <2>1. n \in Nat /\ n \in 0..n
      BY <1>1
    <2>2. \A k \in 0..n : v[k] = w[k]
      BY <1>4, <2>1, SameSteps
    <2> QED BY <2>1, <2>2
  <1>6. w[n + 1] = 10 * w[n] + c - 48
    <2>1. n + 1 \in 1..n + 1 /\ (n + 1) - 1 = n
      BY <1>1
    <2> QED BY <1>1, <1>3, <2>1 DEF Adds
  <1> QED BY <1>1, <1>2, <1>3, <1>5, <1>6 DEF t, n

LEMMA ValueBounds ==
    \A s \in Seq(Numerical) : Value(s) \in Nat /\ Value(s) < TenTo(Len(s))
  <1> DEFINE S == {n \in Nat : \A s \in Seq(Numerical) : Len(s) = n =>
                                   Value(s) \in Nat /\ Value(s) < TenTo(n)}
  <1>1. 0 \in S
    <2>1. \A s \in Seq(Numerical) : Len(s) = 0 => s = <<>>
      OBVIOUS
    <2>2. Value(<<>>) \in Nat /\ Value(<<>>) < TenTo(0)
      <3>1. TenTo(0) = 1
        BY TenToNext
      <3>2. Value(<<>>) = 0
        BY ValueEmpty
      <3> QED BY <3>1, <3>2
    <2> QED BY <2>1, <2>2
  <1>2. ASSUME NEW n \in Nat, n \in S PROVE n + 1 \in S
    <2> SUFFICES ASSUME NEW s \in Seq(Numerical), Len(s) = n + 1
                 PROVE  Value(s) \in Nat /\ Value(s) < TenTo(n + 1)
      OBVIOUS
    <2>1. PICK f \in Seq(Numerical), c \in Numerical : s = Append(f, c) /\ Len(f) = n
      <3>1. s # <<>>
        OBVIOUS
      <3>2. /\ SubSeq(s, 1, n) \in Seq(Numerical) /\ Len(SubSeq(s, 1, n)) = n
            /\ s[n + 1] \in Numerical /\ s = Append(SubSeq(s, 1, n), s[n + 1])
        OBVIOUS
      <3> QED BY <3>2
    <2>2. Value(f) \in Nat /\ Value(f) < TenTo(n)
      BY <1>2, <2>1
    <2>3. Value(s) = 10 * Value(f) + c - 48 /\ c \in 48..57
      BY <2>1, ValueLast DEF Numerical
    <2>4. TenTo(n + 1) = 10 * TenTo(n) /\ TenTo(n) \in Nat
      BY TenToNext, TenToType
    <2> QED BY <2>2, <2>3, <2>4
  <1>3. Nat \subseteq S
    <2> HIDE DEF S
    <2> QED BY <1>1, <1>2, NextInduction
  <1> QED BY <1>3

(* A text of digits is empty, or one digit behind another text of digits. *)
LEMMA LastDigit ==
    ASSUME NEW s \in Seq(Numerical), NEW n \in Nat, Len(s) = n + 1
    PROVE  \E f \in Seq(Numerical), c \in Numerical : s = Append(f, c) /\ Len(f) = n
  <1>1. /\ SubSeq(s, 1, n) \in Seq(Numerical) /\ Len(SubSeq(s, 1, n)) = n
        /\ s[n + 1] \in Numerical /\ s = Append(SubSeq(s, 1, n), s[n + 1])
    OBVIOUS
  <1> QED BY <1>1

LEMMA Shifted ==
    \A v, p, w, c \in Int : 10 * (v * p + w) + c - 48 = v * (10 * p) + (10 * w + c - 48)
  OBVIOUS

(* What comes behind moves a number to the left. *)
LEMMA ValueBehind ==
    ASSUME NEW s \in Seq(Numerical), NEW t \in Seq(Numerical)
    PROVE  Value(s \o t) = Value(s) * TenTo(Len(t)) + Value(t)
  <1> DEFINE S == {n \in Nat : \A u \in Seq(Numerical) : Len(u) = n =>
                                   Value(s \o u) = Value(s) * TenTo(n) + Value(u)}
  <1>1. 0 \in S
    <2>1. \A u \in Seq(Numerical) : Len(u) = 0 => u = <<>>
      OBVIOUS
    <2>2. Value(s \o <<>>) = Value(s) * TenTo(0) + Value(<<>>)
      <3>1. s \o <<>> = s
        BY ConcatEmptySeq
      <3>2. Value(s) \in Int
        BY ValueInt
      <3> QED BY <3>1, <3>2, ValueEmpty, TenToNext
    <2> QED BY <2>1, <2>2
  <1>2. ASSUME NEW n \in Nat, n \in S PROVE n + 1 \in S
    <2> SUFFICES ASSUME NEW u \in Seq(Numerical), Len(u) = n + 1
                 PROVE  Value(s \o u) = Value(s) * TenTo(n + 1) + Value(u)
      OBVIOUS
    <2>1. PICK f \in Seq(Numerical), c \in Numerical : u = Append(f, c) /\ Len(f) = n
      BY LastDigit
    <2>2. s \o u = Append(s \o f, c) /\ s \o f \in Seq(Numerical)
      BY <2>1
    <2>3. /\ Value(s \o u) = 10 * Value(s \o f) + c - 48
          /\ Value(u) = 10 * Value(f) + c - 48 /\ c \in Int
      <3>1. c \in Int
        BY DEF Numerical
      <3>2. Value(Append(s \o f, c)) = 10 * Value(s \o f) + c - 48
        BY <2>2, ValueLast
      <3>3. Value(Append(f, c)) = 10 * Value(f) + c - 48
        BY ValueLast
      <3> QED BY <2>1, <2>2, <3>1, <3>2, <3>3
    <2>4. Value(s \o f) = Value(s) * TenTo(n) + Value(f)
      BY <1>2, <2>1
    <2>5. Value(s) \in Int /\ Value(f) \in Int /\ TenTo(n) \in Int
      BY ValueInt, TenToType
    <2>6. TenTo(n + 1) = 10 * TenTo(n)
      BY TenToNext
    <2>7. 10 * (Value(s) * TenTo(n) + Value(f)) + c - 48
              = Value(s) * (10 * TenTo(n)) + (10 * Value(f) + c - 48)
      <3> DEFINE v == Value(s)
                 p == TenTo(n)
                 w == Value(f)
      <3>1. v \in Int /\ p \in Int /\ w \in Int
        BY <2>5
      <3>2. c \in Int
        BY <2>3
      <3> HIDE DEF v, p, w
      <3>3. 10 * (v * p + w) + c - 48 = v * (10 * p) + (10 * w + c - 48)
        BY <3>1, <3>2, Shifted
      <3> QED BY <3>3 DEF v, p, w
    <2> QED BY <2>3, <2>4, <2>6, <2>7
  <1>3. Nat \subseteq S
    <2> HIDE DEF S
    <2> QED BY <1>1, <1>2, NextInduction
  <1>4. Len(t) \in Nat
    OBVIOUS
  <1> QED BY <1>3, <1>4

(* A number is zero if its digits are. *)
LEMMA ValueZero ==
    \A s \in Seq(Numerical) : Value(s) = 0 <=> \A i \in 1..Len(s) : s[i] = 48
  <1> DEFINE S == {n \in Nat : \A s \in Seq(Numerical) : Len(s) = n =>
                                   (Value(s) = 0 <=> \A i \in 1..n : s[i] = 48)}
  <1>1. 0 \in S
    <2>1. \A s \in Seq(Numerical) : Len(s) = 0 => s = <<>>
      OBVIOUS
    <2>2. Value(<<>>) = 0 /\ \A i \in 1..0 : <<>>[i] = 48
      BY ValueEmpty
    <2> QED BY <2>1, <2>2
  <1>2. ASSUME NEW n \in Nat, n \in S PROVE n + 1 \in S
    <2> SUFFICES ASSUME NEW s \in Seq(Numerical), Len(s) = n + 1
                 PROVE  Value(s) = 0 <=> \A i \in 1..n + 1 : s[i] = 48
      OBVIOUS
    <2>1. PICK f \in Seq(Numerical), c \in Numerical : s = Append(f, c) /\ Len(f) = n
      BY LastDigit
    <2>2. /\ Value(s) = 10 * Value(f) + c - 48 /\ c \in 48..57 /\ Value(f) \in Nat
      BY <2>1, ValueLast, ValueBounds DEF Numerical
    <2>3. Value(s) = 0 <=> Value(f) = 0 /\ c = 48
      BY <2>2
    <2>4. Value(f) = 0 <=> \A i \in 1..n : f[i] = 48
      BY <1>2, <2>1
    <2>5. s[n + 1] = c /\ \A i \in 1..n : s[i] = f[i]
      BY <2>1
    <2>6. \A i \in 1..n + 1 : i \in 1..n \/ i = n + 1
      OBVIOUS
    <2>7. n + 1 \in 1..n + 1 /\ \A i \in 1..n : i \in 1..n + 1
      OBVIOUS
    <2>8. (\A i \in 1..n + 1 : s[i] = 48) <=> (\A i \in 1..n : f[i] = 48) /\ c = 48
      BY <2>5, <2>6, <2>7
    <2> QED BY <2>3, <2>4, <2>8
  <1>3. Nat \subseteq S
    <2> HIDE DEF S
    <2> QED BY <1>1, <1>2, NextInduction
  <1>4. \A s \in Seq(Numerical) : Len(s) \in Nat
    OBVIOUS
  <1> QED BY <1>3, <1>4

LEMMA ZerosValue ==
    ASSUME NEW n \in Nat
    PROVE  Zeros(n) \in Seq(Numerical) /\ Len(Zeros(n)) = n /\ Value(Zeros(n)) = 0
  <1>1. /\ Zeros(n) \in Seq(Numerical) /\ Len(Zeros(n)) = n
        /\ \A i \in 1..n : Zeros(n)[i] = 48
    BY DEF Zeros, Digit, Numerical
  <1> QED BY <1>1, ValueZero

(* std::to_string writes at least one digit, and std::stoll reads it back. *)
LEMMA DigitsBack ==
    ASSUME NEW n \in Nat
    PROVE  /\ DigitsOf(n) \in Seq(Numerical) /\ Len(DigitsOf(n)) > 0
           /\ Value(DigitsOf(n)) = n
  <1> DEFINE D == 0..n
             R == Seq(Numerical)
             Turn(m, g) == IF m < 10 THEN <<Digit(m)>>
                           ELSE Append(g[m \div 10], Digit(m % 10))
             Turns(g) == [m \in D |-> Turn(m, g)]
             digits == CHOOSE g : g = Turns(g)
             turn == [m \in D |-> [g \in [D -> R] |-> Turn(m, g)]]
             rank == [m \in D |-> m]
  <1>1. DigitsOf(n) = digits[n]
    BY DEF DigitsOf
  <1>2. ASSUME NEW m \in D
        PROVE  /\ m \in Nat /\ m < 10 => Digit(m) \in Numerical
               /\ m % 10 \in 0..9 /\ Digit(m % 10) \in Numerical
               /\ m >= 10 => m \div 10 \in D /\ m \div 10 < m /\ m \div 10 \in Nat
               /\ m = 10 * (m \div 10) + (m % 10)
    <2>1. m \in Nat /\ m <= n
      OBVIOUS
    <2>2. m % 10 \in 0..9 /\ m = 10 * (m \div 10) + (m % 10) /\ m \div 10 \in Nat
      BY <2>1
    <2> DEFINE k == m \div 10
    <2>3. m >= 10 => k < m /\ k \in 0..n
      <3>1. k \in Nat /\ m % 10 \in 0..9 /\ m = 10 * k + (m % 10)
        BY <2>2
      <3> HIDE DEF k
      <3> QED BY <2>1, <3>1
    <2> QED BY <2>1, <2>2, <2>3 DEF Digit, Numerical
  <1>3. ASSUME NEW m \in D, NEW g \in [D -> R]
        PROVE  Turn(m, g) \in R
    <2>1. CASE m < 10
      BY <1>2, <2>1
    <2>2. CASE ~(m < 10)
      <3>1. g[m \div 10] \in R /\ Digit(m % 10) \in Numerical
        BY <1>2, <2>2
      <3> QED BY <2>2, <3>1
    <2> QED BY <2>1, <2>2
  <1>4. turn \in StepsOn(D, R)
    <2>1. \A m \in D : [g \in [D -> R] |-> Turn(m, g)] \in [[D -> R] -> R]
      <3> HIDE DEF Turn
      <3> QED BY <1>3
    <2> HIDE DEF Turn
    <2> QED BY <2>1 DEF StepsOn
  <1>5. \A m \in D, g \in [D -> R] : turn[m][g] = Turn(m, g)
    BY Zenon
  <1>6. rank \in [D -> 0..n] /\ \A m \in D : rank[m] = m
    OBVIOUS
  <1>7. DependsBelow(turn, rank, D, R)
    <2> SUFFICES ASSUME NEW m \in D, NEW f \in [D -> R], NEW g \in [D -> R],
                        \A y \in D : rank[y] < rank[m] => f[y] = g[y]
                 PROVE  Turn(m, f) = Turn(m, g)
      BY <1>5, Zenon DEF DependsBelow
    <2>1. CASE m < 10
      BY <2>1
    <2>2. CASE ~(m < 10)
      <3>1. f[m \div 10] = g[m \div 10]
        BY <1>2, <1>6, <2>2
      <3> QED BY <2>2, <3>1
    <2> QED BY <2>1, <2>2
  <1> HIDE DEF turn, rank
  <1>8. PICK g \in [D -> R] : \A m \in D : g[m] = turn[m][g]
    <2>1. <<>> \in R
      OBVIOUS
    <2> HIDE DEF D, R
    <2>2. rank \in [D -> 0..n]
      BY <1>6
    <2>3. Solvable(turn, D, R)
      BY <1>4, <1>7, <2>1, <2>2, Recursion
    <2> QED BY <2>3 DEF Solvable
  <1>9. g = Turns(g)
    <2>1. \A m \in D : g[m] = Turn(m, g)
      BY <1>5, <1>8
    <2> HIDE DEF Turn
    <2> QED BY <2>1
  <1>10. digits = Turns(digits)
    <2> HIDE DEF Turns
    <2> QED BY <1>9, Zenon
  <1> HIDE DEF digits
  <1>11. \A m \in D : digits[m] = Turn(m, digits)
    <2> HIDE DEF Turn
    <2> QED BY <1>10
  <1> DEFINE S == {m \in Nat : m <= n => /\ digits[m] \in Seq(Numerical) /\ Len(digits[m]) > 0
                                         /\ Value(digits[m]) = m}
  <1>12. ASSUME NEW m \in Nat, \A k \in Nat : k < m => k \in S
         PROVE  m \in S
    <2> SUFFICES ASSUME m <= n
                 PROVE  /\ digits[m] \in Seq(Numerical) /\ Len(digits[m]) > 0
                        /\ Value(digits[m]) = m
      OBVIOUS
    <2>1. m \in D
      OBVIOUS
    <2>2. CASE m < 10
      <3>1. digits[m] = <<Digit(m)>>
        BY <1>11, <2>1, <2>2
      <3>2. Digit(m) \in Numerical /\ Digit(m) = 48 + m
        BY <1>2, <2>1, <2>2 DEF Digit
      <3>3. <<Digit(m)>> \in Seq(Numerical) /\ <<Digit(m)>> = Append(<<>>, Digit(m))
        BY <3>2
      <3>4. Value(<<Digit(m)>>) = 10 * Value(<<>>) + Digit(m) - 48
        <4>1. <<>> \in Seq(Numerical)
          OBVIOUS
        <4> QED BY <3>2, <3>3, <4>1, ValueLast
      <3> QED BY <3>1, <3>2, <3>3, <3>4, ValueEmpty
    <2>3. CASE ~(m < 10)
      <3> DEFINE k == m \div 10
                 c == Digit(m % 10)
      <3>1. digits[m] = Append(digits[k], c)
        BY <1>11, <2>1, <2>3
      <3>2. k \in Nat /\ k < m /\ k <= n /\ c \in Numerical /\ c - 48 = m % 10 /\ m = 10 * k + (m % 10)
        BY <1>2, <2>1, <2>3 DEF Digit
      <3>3. m % 10 \in Int
        BY <1>2, <2>1
      <3> HIDE DEF k, c
      <3>4. k \in S
        BY <1>12, <3>2
      <3>5. /\ digits[k] \in Seq(Numerical) /\ Value(digits[k]) = k
        BY <3>2, <3>4
      <3>6. Value(digits[m]) = 10 * k + c - 48
        BY <3>1, <3>2, <3>5, ValueLast
      <3>7. digits[m] \in Seq(Numerical) /\ Len(digits[m]) > 0
        BY <3>1, <3>2, <3>5
      <3>8. c \in Int
        BY <3>2 DEF Numerical
      <3>9. 10 * k + c - 48 = m
        BY <3>2, <3>3, <3>8
      <3> QED BY <3>6, <3>7, <3>9
    <2> QED BY <2>2, <2>3
  <1>13. Nat \subseteq S
    <2> HIDE DEF S
    <2> QED BY <1>12, BelowInduction
  <1> QED BY <1>1, <1>13

(***************************************************************************)
(* Amounts: where the point is put, and where it is found.                 *)
(***************************************************************************)
LEMMA JoinedInts ==
    ASSUME NEW x \in Seq(Int), NEW y \in Seq(Int)
    PROVE  /\ x \o y \in Seq(Int) /\ Len(x \o y) = Len(x) + Len(y)
           /\ \A i \in 1..Len(x) + Len(y) :
                  (x \o y)[i] = IF i <= Len(x) THEN x[i] ELSE y[i - Len(x)]
  BY ConcatProperties, Zenon

LEMMA AllLeading ==
    ASSUME NEW s \in Seq(Numerical)
    PROVE  LeadingDigits(s) = s
  <1> DEFINE Leads(k) == (\A i \in 1..k : IsDigit(s[i])) /\ (k = Len(s) \/ ~IsDigit(s[k + 1]))
             n == CHOOSE k \in 0..Len(s) : Leads(k)
  <1>1. LeadingDigits(s) = SubSeq(s, 1, n)
    BY DEF LeadingDigits
  <1>2. \A i \in 1..Len(s) : IsDigit(s[i])
    BY DEF IsDigit, Numerical
  <1>3. Leads(Len(s)) /\ Len(s) \in 0..Len(s)
    BY <1>2
  <1>4. n \in 0..Len(s) /\ Leads(n)
    <2> HIDE DEF Leads
    <2> QED BY <1>3
  <1> HIDE DEF n
  <1>5. n = Len(s)
    <2>1. n + 1 \in 1..Len(s) \/ n = Len(s)
      BY <1>4
    <2> QED BY <1>2, <1>4, <2>1
  <1> QED BY <1>1, <1>5

LEMMA StollDigits ==
    ASSUME NEW s \in Seq(Numerical), s # <<>>
    PROVE  stoll(s) = IF Value(s) <= MaxAmount THEN <<Value(s)>> ELSE <<>>
  <1>1. ~(s # <<>> /\ s[1] = Minus)
    BY DEF Minus, Numerical
  <1>2. LeadingDigits(s) = s
    BY AllLeading
  <1>3. stoll(s) = IF s = <<>> \/ Value(s) \notin -MaxAmount - 1..MaxAmount THEN <<>> ELSE <<Value(s)>>
    BY <1>1, <1>2, Zenon DEF stoll
  <1>4. Value(s) \in Nat /\ MaxAmount \in Nat
    BY ValueBounds, AmountAssumption
  <1>5. Value(s) \in -MaxAmount - 1..MaxAmount <=> Value(s) <= MaxAmount
    BY <1>4
  <1> QED BY <1>3, <1>5

LEMMA StollNegative ==
    ASSUME NEW s \in Seq(Numerical), s # <<>>
    PROVE  stoll(<<Minus>> \o s) =
               IF -Value(s) >= -MaxAmount - 1 THEN <<-Value(s)>> ELSE <<>>
  <1> DEFINE t == <<Minus>> \o s
  <1>1. t # <<>> /\ t[1] = Minus /\ Tail(t) = s
    <2>1. <<Minus>> \in Seq(Int) /\ s \in Seq(Int) /\ Len(<<Minus>>) = 1 /\ <<Minus>>[1] = Minus
      BY DEF Minus, Numerical
    <2>2. /\ t \in Seq(Int) /\ Len(t) = 1 + Len(s)
          /\ \A i \in 1..1 + Len(s) : t[i] = IF i <= 1 THEN <<Minus>>[i] ELSE s[i - 1]
      BY <2>1, ConcatProperties
    <2> HIDE DEF t
    <2>3. Tail(t) \in Seq(Int) /\ Len(Tail(t)) = Len(s) /\ \A i \in 1..Len(s) : Tail(t)[i] = t[i + 1]
      BY <2>1, <2>2
    <2>4. \A i \in 1..Len(s) : t[i + 1] = s[i]
      <3> TAKE i \in 1..Len(s)
      <3>1. i + 1 \in 1..1 + Len(s) /\ ~(i + 1 <= 1) /\ (i + 1) - 1 = i
        BY <2>1
      <3> QED BY <2>2, <3>1
    <2>5. Tail(t) = s
      BY <2>1, <2>3, <2>4, SeqEqual
    <2>6. 1 \in 1..1 + Len(s)
      BY <2>1
    <2> QED BY <2>1, <2>2, <2>5, <2>6
  <1>2. LeadingDigits(s) = s
    BY AllLeading
  <1>3. stoll(t) = IF s = <<>> \/ -Value(s) \notin -MaxAmount - 1..MaxAmount
                   THEN <<>> ELSE <<-Value(s)>>
    <2> HIDE DEF t
    <2> QED BY <1>1, <1>2, Zenon DEF stoll
  <1>4. Value(s) \in Nat /\ MaxAmount \in Nat
    BY ValueBounds, AmountAssumption
  <1>5. -Value(s) \in -MaxAmount - 1..MaxAmount <=> -Value(s) >= -MaxAmount - 1
    BY <1>4
  <1> HIDE DEF t
  <1> QED BY <1>3, <1>5 DEF t

(* The digits behind the point, filled up to the decimals. *)
Filled(minor, decimals) ==
    IF Len(minor) < decimals THEN minor \o Zeros(decimals - Len(minor)) ELSE minor

LEMMA PointTakenOut ==
    ASSUME NEW major \in Seq(Int), NEW minor \in Seq(Int), NEW decimals \in Nat,
           \A i \in 1..Len(major) : major[i] # Point
    PROVE  amount_from_string(major \o <<Point>> \o minor, decimals) =
               IF RestIsZero(Filled(minor, decimals), decimals)
               THEN stoll(major \o SubSeq(Filled(minor, decimals), 1, decimals))
               ELSE <<>>
  <1> DEFINE s == major \o <<Point>> \o minor
             n == Len(major)
             points == {i \in DOMAIN s : s[i] = Point}
             first == CHOOSE i \in points : \A j \in points : i <= j
  <1>1. /\ s \in Seq(Int) /\ Len(s) = n + 1 + Len(minor) /\ n \in Nat /\ Len(minor) \in Nat
        /\ \A i \in 1..n : s[i] = major[i]
        /\ s[n + 1] = Point
        /\ \A i \in 1..Len(minor) : s[n + 1 + i] = minor[i]
    <2> DEFINE p == <<Point>>
               h == major \o p
    <2>1. p \in Seq(Int) /\ Len(p) = 1 /\ p[1] = Point /\ n \in Nat /\ Len(minor) \in Nat
      BY DEF Point
    <2> HIDE DEF p
    <2>2. /\ h \in Seq(Int) /\ Len(h) = n + 1
          /\ \A i \in 1..n + 1 : h[i] = IF i <= n THEN major[i] ELSE p[i - n]
      <3>1. /\ h \in Seq(Int) /\ Len(h) = Len(major) + Len(p)
            /\ \A i \in 1..Len(major) + Len(p) :
                   h[i] = IF i <= Len(major) THEN major[i] ELSE p[i - Len(major)]
        BY <2>1, JoinedInts, Zenon
      <3>2. Len(major) + Len(p) = n + 1
        BY <2>1
      <3> QED BY <3>1, <3>2, Zenon
    <2>3. (\A i \in 1..n : h[i] = major[i]) /\ h[n + 1] = Point
      <3>1. n + 1 \in 1..n + 1 /\ ~(n + 1 <= n) /\ (n + 1) - n = 1
        BY <2>1
      <3>2. \A i \in 1..n : i \in 1..n + 1 /\ i <= n
        BY <2>1
      <3> QED BY <2>1, <2>2, <3>1, <3>2
    <2> HIDE DEF h
    <2>4. /\ h \o minor \in Seq(Int) /\ Len(h \o minor) = n + 1 + Len(minor)
          /\ \A i \in 1..n + 1 + Len(minor) :
                 (h \o minor)[i] = IF i <= n + 1 THEN h[i] ELSE minor[i - (n + 1)]
      <3>1. /\ h \o minor \in Seq(Int) /\ Len(h \o minor) = Len(h) + Len(minor)
            /\ \A i \in 1..Len(h) + Len(minor) :
                   (h \o minor)[i] = IF i <= Len(h) THEN h[i] ELSE minor[i - Len(h)]
        <4>1. h \in Seq(Int) /\ minor \in Seq(Int)
          BY <2>2
        <4> QED BY <4>1, JoinedInts
      <3> QED BY <2>2, <3>1, Zenon
    <2> DEFINE t == h \o minor
    <2>5. \A i \in 1..n : t[i] = h[i]
      BY <2>1, <2>4
    <2>6. t[n + 1] = h[n + 1]
      BY <2>1, <2>4
    <2>7. \A i \in 1..Len(minor) : t[n + 1 + i] = minor[i]
      <3> TAKE i \in 1..Len(minor)
      <3>1. n + 1 + i \in 1..n + 1 + Len(minor) /\ ~(n + 1 + i <= n + 1) /\ (n + 1 + i) - (n + 1) = i
        BY <2>1
      <3> QED BY <2>4, <3>1
    <2>8. s = t
      BY DEF h, p
    <2> HIDE DEF s, t
    <2> QED BY <2>1, <2>3, <2>4, <2>5, <2>6, <2>7, <2>8 DEF t
  <1> HIDE DEF s
  <1>2. n + 1 \in points /\ \A j \in points : n + 1 <= j
    <2>1. n + 1 \in DOMAIN s /\ DOMAIN s = 1..Len(s)
      BY <1>1
    <2>2. ASSUME NEW j \in points PROVE n + 1 <= j
      <3>1. j \in 1..Len(s) /\ s[j] = Point
        BY <2>1
      <3>2. j \notin 1..n
        BY <1>1, <3>1
      <3> QED BY <1>1, <3>1, <3>2
    <2> QED BY <1>1, <2>1, <2>2
  <1>3. first = n + 1
    <2>1. first \in points /\ \A j \in points : first <= j
      BY <1>2
    <2>2. points \subseteq Int
      BY <1>1
    <2> HIDE DEF points, first
    <2> QED BY <1>1, <1>2, <2>1, <2>2
  <1>4. SubSeq(s, 1, (n + 1) - 1) = major
    <2>1. SubSeq(s, 1, n) \in Seq(Int) /\ Len(SubSeq(s, 1, n)) = n
      BY <1>1
    <2>2. \A i \in 1..n : SubSeq(s, 1, n)[i] = major[i]
      BY <1>1
    <2>3. (n + 1) - 1 = n
      BY <1>1
    <2> QED BY <2>1, <2>2, <2>3, SeqEqual
  <1>5. SubSeq(s, (n + 1) + 1, Len(s)) = minor
    <2> DEFINE u == SubSeq(s, (n + 1) + 1, Len(s))
    <2>1. u \in Seq(Int) /\ Len(u) = Len(minor)
      BY <1>1
    <2>2. \A i \in 1..Len(minor) : u[i] = s[n + 1 + i]
      BY <1>1
    <2> HIDE DEF u
    <2>3. \A i \in 1..Len(minor) : u[i] = minor[i]
      BY <1>1, <2>2
    <2> QED BY <2>1, <2>3, SeqEqual DEF u
  <1>6. points # {}
    BY <1>2
  <1> HIDE DEF points, first
  <1>7. amount_from_string(s, decimals) =
            IF RestIsZero(Filled(minor, decimals), decimals)
            THEN stoll(major \o SubSeq(Filled(minor, decimals), 1, decimals))
            ELSE <<>>
    <2>1. (IF points = {} THEN Len(s) + 1 ELSE first) = n + 1
      BY <1>3, <1>6
    <2>2. LET at == IF points = {} THEN Len(s) + 1 ELSE first
              top == SubSeq(s, 1, at - 1)
              rest == SubSeq(s, at + 1, Len(s))
              filled == IF Len(rest) < decimals THEN rest \o Zeros(decimals - Len(rest)) ELSE rest
          IN  amount_from_string(s, decimals) =
                  IF RestIsZero(filled, decimals) THEN stoll(top \o SubSeq(filled, 1, decimals))
                  ELSE <<>>
      BY Zenon DEF amount_from_string, points, first
    <2> QED BY <1>4, <1>5, <2>1, <2>2, Zenon DEF Filled
  <1> QED BY <1>7 DEF s

(* amount_to_string's point is taken out again. *)
LEMMA InsertedPoint ==
    ASSUME NEW s \in Seq(Int), NEW decimals \in Nat, decimals <= Len(s),
           \A i \in 1..Len(s) : s[i] # Point
    PROVE  amount_from_string(Inserted(s, Len(s) - decimals, <<Point>>), decimals) = stoll(s)
  <1> DEFINE n == Len(s) - decimals
             major == SubSeq(s, 1, n)
             minor == SubSeq(s, n + 1, Len(s))
  <1>1. n \in Nat /\ Len(s) \in Nat /\ n <= Len(s)
    OBVIOUS
  <1>2. /\ major \in Seq(Int) /\ Len(major) = n /\ \A i \in 1..n : major[i] = s[i]
        /\ minor \in Seq(Int) /\ Len(minor) = decimals /\ \A i \in 1..decimals : minor[i] = s[n + i]
    OBVIOUS
  <1>3. Inserted(s, n, <<Point>>) = major \o <<Point>> \o minor
    BY DEF Inserted
  <1> HIDE DEF major, minor, n
  <1>4. \A i \in 1..Len(major) : major[i] # Point
    <2>1. \A i \in 1..n : i \in 1..Len(s)
      BY <1>1
    <2> QED BY <1>2, <2>1
  <1>5. Filled(minor, decimals) = minor
    BY <1>2 DEF Filled
  <1>6. RestIsZero(minor, decimals)
    BY <1>2 DEF RestIsZero
  <1>7. SubSeq(minor, 1, decimals) = minor
    BY <1>2
  <1>8. major \o minor = s
    <2>1. /\ major \o minor \in Seq(Int) /\ Len(major \o minor) = n + decimals
          /\ \A i \in 1..n + decimals :
                 (major \o minor)[i] = IF i <= n THEN major[i] ELSE minor[i - n]
      <3>1. /\ major \o minor \in Seq(Int) /\ Len(major \o minor) = Len(major) + Len(minor)
            /\ \A i \in 1..Len(major) + Len(minor) :
                   (major \o minor)[i] = IF i <= Len(major) THEN major[i] ELSE minor[i - Len(major)]
        <4>1. major \in Seq(Int) /\ minor \in Seq(Int)
          BY <1>2
        <4> QED BY <4>1, JoinedInts
      <3> QED BY <1>2, <3>1, Zenon
    <2>2. n + decimals = Len(s)
      BY <1>1 DEF n
    <2>3. \A i \in 1..Len(s) : (major \o minor)[i] = s[i]
      <3> TAKE i \in 1..Len(s)
      <3>1. CASE i <= n
        <4>1. i \in 1..n
          BY <1>1, <3>1
        <4> QED BY <1>2, <2>1, <2>2, <3>1, <4>1
      <3>2. CASE ~(i <= n)
        <4>1. i - n \in 1..decimals /\ n + (i - n) = i
          BY <1>1, <2>2, <3>2
        <4> QED BY <1>2, <2>1, <2>2, <3>2, <4>1
      <3> QED BY <3>1, <3>2
    <2> QED BY <2>1, <2>2, <2>3, SeqEqual
  <1>9. amount_from_string(major \o <<Point>> \o minor, decimals) = stoll(s)
    BY <1>2, <1>4, <1>5, <1>6, <1>7, <1>8, PointTakenOut
  <1> QED BY <1>3, <1>9 DEF n

LEMMA NoPoint ==
    ASSUME NEW s \in Seq(Int), \A i \in 1..Len(s) : s[i] # Point
    PROVE  amount_from_string(s, 0) = stoll(s)
  <1> DEFINE points == {i \in DOMAIN s : s[i] = Point}
             at == Len(s) + 1
  <1>1. points = {} /\ Len(s) \in Nat
    OBVIOUS
  <1>2. /\ SubSeq(s, 1, at - 1) = s /\ SubSeq(s, at + 1, Len(s)) = <<>>
        /\ ~(Len(<<>>) < 0) /\ SubSeq(<<>>, 1, 0) = <<>> /\ s \o <<>> = s
    BY <1>1, ConcatEmptySeq
  <1>3. RestIsZero(<<>>, 0)
    BY DEF RestIsZero
  <1>4. LET a == IF points = {} THEN Len(s) + 1 ELSE CHOOSE i \in points : \A j \in points : i <= j
            top == SubSeq(s, 1, a - 1)
            rest == SubSeq(s, a + 1, Len(s))
            filled == IF Len(rest) < 0 THEN rest \o Zeros(0 - Len(rest)) ELSE rest
        IN  amount_from_string(s, 0) =
                IF RestIsZero(filled, 0) THEN stoll(top \o SubSeq(filled, 1, 0)) ELSE <<>>
    BY Zenon DEF amount_from_string, points
  <1> HIDE DEF points
  <1> QED BY <1>1, <1>2, <1>3, <1>4, Zenon

(* Zeros in front change no number. *)
LEMMA PaddedDigits ==
    ASSUME NEW s \in Seq(Numerical), s # <<>>, NEW n \in Nat
    PROVE  /\ Padded(s, n) \in Seq(Numerical) /\ Padded(s, n) # <<>>
           /\ Len(Padded(s, n)) >= n /\ Value(Padded(s, n)) = Value(s)
  <1>1. CASE Len(s) < n
    <2> DEFINE k == n - Len(s) + 1
               z == Zeros(k)
    <2>1. k \in Nat /\ k > 0 /\ k + Len(s) >= n
      BY <1>1
    <2>2. Padded(s, n) = z \o s
      BY <1>1 DEF Padded
    <2> HIDE DEF k
    <2>3. z \in Seq(Numerical) /\ Len(z) = k /\ Value(z) = 0
      BY <2>1, ZerosValue
    <2> HIDE DEF z
    <2>4. z \o s \in Seq(Numerical) /\ Len(z \o s) = k + Len(s) /\ Len(s) \in Nat
      BY <2>3
    <2>5. Value(z \o s) = 0 * TenTo(Len(s)) + Value(s)
      BY <2>3, ValueBehind
    <2>6. Value(z \o s) = Value(s)
      BY <2>4, <2>5, TenToType, ValueInt
    <2> QED BY <2>1, <2>2, <2>4, <2>6
  <1>2. CASE ~(Len(s) < n)
    BY <1>2 DEF Padded
  <1> QED BY <1>1, <1>2

(* What amount_to_string writes is read back, if the text it pads stands   *)
(* for the amount.                                                         *)
LEMMA WrittenBack ==
    ASSUME NEW n \in Int, NEW decimals \in Nat,
           to_string(n) \in Seq(Int), \A i \in 1..Len(to_string(n)) : to_string(n)[i] # Point,
           stoll(to_string(n)) = <<n>>,
           Padded(to_string(n), decimals) \in Seq(Int),
           \A i \in 1..Len(Padded(to_string(n), decimals)) :
               Padded(to_string(n), decimals)[i] # Point,
           Len(Padded(to_string(n), decimals)) >= decimals,
           stoll(Padded(to_string(n), decimals)) = <<n>>
    PROVE  amount_from_string(amount_to_string(n, decimals), decimals) = <<n>>
  <1> DEFINE t == to_string(n)
             u == Padded(t, decimals)
  <1>1. CASE decimals = 0
    <2>1. amount_to_string(n, decimals) = t
      BY <1>1, Zenon DEF amount_to_string
    <2> HIDE DEF t
    <2>2. t \in Seq(Int) /\ (\A i \in 1..Len(t) : t[i] # Point) /\ stoll(t) = <<n>>
      BY Zenon DEF t
    <2> QED BY <1>1, <2>1, <2>2, NoPoint
  <1>2. CASE decimals # 0
    <2>1. amount_to_string(n, decimals) = Inserted(u, Len(u) - decimals, <<Point>>)
      BY <1>2, Zenon DEF amount_to_string
    <2> HIDE DEF t, u
    <2>2. u \in Seq(Int) /\ (\A i \in 1..Len(u) : u[i] # Point) /\ stoll(u) = <<n>>
      BY Zenon DEF t, u
    <2>3. Len(u) >= decimals /\ Len(u) \in Nat
      BY <2>2 DEF t, u
    <2> QED BY <2>1, <2>2, <2>3, InsertedPoint
  <1> QED BY <1>1, <1>2

LEMMA NumericalInts ==
    \A s \in Seq(Numerical) : s \in Seq(Int) /\ \A i \in 1..Len(s) : s[i] # Point
  BY DEF Numerical, Point

LEMMA AmountBack ==
    ASSUME NEW n \in Amounts, NEW decimals \in Nat,
           n >= 0 \/ Len(to_string(n)) >= decimals
    PROVE  amount_from_string(amount_to_string(n, decimals), decimals) = <<n>>
  <1>1. n \in Int /\ n <= MaxAmount /\ n >= -MaxAmount - 1 /\ MaxAmount \in Nat
    BY AmountAssumption
  <1>2. CASE n >= 0
    <2> DEFINE t == DigitsOf(n)
               u == Padded(t, decimals)
    <2>1. n \in Nat
      BY <1>1, <1>2
    <2>2. to_string(n) = t
      BY <1>1, <1>2 DEF to_string
    <2>3. t \in Seq(Numerical) /\ t # <<>> /\ Value(t) = n
      BY <2>1, DigitsBack
    <2> HIDE DEF t
    <2>4. u \in Seq(Numerical) /\ u # <<>> /\ Len(u) >= decimals /\ Value(u) = n
      BY <2>3, PaddedDigits
    <2> HIDE DEF u
    <2>5. stoll(t) = <<n>> /\ stoll(u) = <<n>>
      BY <1>1, <2>3, <2>4, StollDigits
    <2>6. /\ t \in Seq(Int) /\ (\A i \in 1..Len(t) : t[i] # Point)
          /\ u \in Seq(Int) /\ (\A i \in 1..Len(u) : u[i] # Point)
      BY <2>3, <2>4, NumericalInts
    <2>7. Padded(to_string(n), decimals) = u
      BY <2>2, Zenon DEF u
    <2> QED BY <1>1, <2>2, <2>4, <2>5, <2>6, <2>7, WrittenBack
  <1>3. CASE ~(n >= 0)
    <2> DEFINE s == DigitsOf(-n)
               t == <<Minus>> \o s
    <2>1. -n \in Nat /\ -(-n) = n /\ n < 0 /\ -(-n) >= -MaxAmount - 1
      BY <1>1, <1>3
    <2>2. to_string(n) = t
      BY <2>1 DEF to_string
    <2>3. s \in Seq(Numerical) /\ s # <<>> /\ Value(s) = -n
      BY <2>1, DigitsBack
    <2> HIDE DEF s
    <2>4. stoll(t) = <<n>>
      BY <2>1, <2>3, StollNegative
    <2>5. t \in Seq(Int) /\ \A i \in 1..Len(t) : t[i] # Point
      <3> DEFINE m == <<Minus>>
      <3>1. m \in Seq(Int) /\ Len(m) = 1 /\ m[1] # Point
        BY DEF Minus, Point
      <3>2. s \in Seq(Int) /\ \A i \in 1..Len(s) : s[i] # Point
        BY <2>3, NumericalInts
      <3> HIDE DEF m
      <3>3. /\ m \o s \in Seq(Int) /\ Len(m \o s) = Len(m) + Len(s)
            /\ \A i \in 1..Len(m) + Len(s) : (m \o s)[i] = IF i <= Len(m) THEN m[i] ELSE s[i - Len(m)]
        BY <3>1, <3>2, JoinedInts
      <3>4. Len(s) \in Nat
        BY <3>2
      <3>5. ASSUME NEW i \in 1..Len(m) + Len(s) PROVE (m \o s)[i] # Point
        <4>1. CASE i = 1
          BY <3>1, <3>3, <3>4, <4>1
        <4>2. CASE i # 1
          <5>1. i - 1 \in 1..Len(s) /\ ~(i <= 1)
            BY <3>1, <3>4, <4>2
          <5> QED BY <3>1, <3>2, <3>3, <5>1
        <4> QED BY <4>1, <4>2
      <3>6. t = m \o s
        BY DEF m
      <3> HIDE DEF t
      <3> QED BY <3>3, <3>5, <3>6
    <2> HIDE DEF t
    <2>6. Len(t) \in Nat /\ Len(t) >= decimals
      BY <1>3, <2>2, <2>5
    <2>7. Padded(to_string(n), decimals) = t
      BY <2>2, <2>6 DEF Padded
    <2> QED BY <1>1, <2>2, <2>4, <2>5, <2>6, <2>7, WrittenBack
  <1> QED BY <1>2, <1>3

(***************************************************************************)
(* A peer's amount.                                                        *)
(***************************************************************************)
LEMMA Divided ==
    ASSUME NEW u \in Nat, u >= 1, NEW x \in Nat, NEW r \in Nat, r < u
    PROVE  (u * x + r) \div u = x /\ (u * x + r) % u = r
  <1> DEFINE y == u * x + r
             q == y \div u
             p == y % u
  <1>1. y \in Nat
    OBVIOUS
  <1>2. q \in Int /\ p \in Int /\ y = u * q + p /\ 0 <= p /\ p < u
    <2> HIDE DEF y
    <2> QED BY <1>1
  <1> HIDE DEF q, p
  <1>3. u * (x - q) = p - r
    BY <1>2
  <1>4. x - q = 0
    <2> DEFINE z == x - q
    <2>1. z \in Int /\ u * z = p - r /\ p - r < u /\ p - r > -u
      BY <1>2, <1>3
    <2> HIDE DEF z
    <2>2. z >= 1 => u * z >= u
      BY <2>1
    <2>3. z <= -1 => u * z <= -u
      BY <2>1
    <2>4. u * z \in Int
      BY <2>1
    <2>5. z = 0
      BY <2>1, <2>2, <2>3, <2>4
    <2> QED BY <2>5 DEF z
  <1>5. q = x /\ p = r
    BY <1>2, <1>3, <1>4
  <1> QED BY <1>5 DEF q, p

(* The number of a peer's text in minor units, times a power of ten. *)
LEMMA ShortScaled ==
    \A n, f, l, e \in Int : (n * l + f) * (l * e) = l * (n * (l * e) + f * e) + 0
  OBVIOUS

LEMMA LongScaled ==
    \A n, a, b, t, e \in Int :
        (n * (t * e) + (a * e + b)) * t = (t * e) * (n * t + a) + b * t
  OBVIOUS

LEMMA PeerBack ==
    ASSUME NEW m \in Seq(Numerical), m # <<>>, NEW q \in Seq(Numerical), NEW decimals \in Nat
    PROVE  LET unit == TenTo(Len(q))
               scaled == (Value(m) * unit + Value(q)) * TenTo(decimals)
           IN  amount_from_string(m \o <<Point>> \o q, decimals) =
                   IF scaled % unit = 0 /\ scaled \div unit <= MaxAmount
                   THEN <<scaled \div unit>> ELSE <<>>
  <1> DEFINE l == Len(q)
             n == Value(m)
             f == Value(q)
             unit == TenTo(l)
             scaled == (n * unit + f) * TenTo(decimals)
             filled == Filled(q, decimals)
             full == m \o SubSeq(filled, 1, decimals)
             s == m \o <<Point>> \o q
  <1>1. /\ n \in Nat /\ f \in Nat /\ unit \in Nat /\ unit >= 1 /\ TenTo(decimals) \in Nat
        /\ TenTo(decimals) >= 1 /\ l \in Nat
    <2>1. l \in Nat
      OBVIOUS
    <2>2. n \in Nat /\ f \in Nat
      BY ValueBounds
    <2>3. unit \in Nat /\ unit >= 1 /\ TenTo(decimals) \in Nat /\ TenTo(decimals) >= 1
      <3> HIDE DEF l
      <3> QED BY <2>1, TenToType
    <2> HIDE DEF l, n, f, unit
    <2> QED BY <2>1, <2>2, <2>3
  <1>2. amount_from_string(s, decimals) =
            IF RestIsZero(filled, decimals) THEN stoll(full) ELSE <<>>
    <2>1. m \in Seq(Int) /\ q \in Seq(Int) /\ \A i \in 1..Len(m) : m[i] # Point
      BY NumericalInts
    <2> QED BY <2>1, PointTakenOut, Zenon
  <1>3. CASE l <= decimals
    <2> DEFINE e == decimals - l
    <2>1. e \in Nat /\ l + e = decimals
      BY <1>1, <1>3
    <2>2. /\ filled \in Seq(Numerical) /\ Len(filled) = decimals
          /\ Value(filled) = f * TenTo(e)
      <3>1. CASE l < decimals
        <4> DEFINE z == Zeros(e)
        <4> HIDE DEF e
        <4>1. z \in Seq(Numerical) /\ Len(z) = e /\ Value(z) = 0
          BY <2>1, ZerosValue
        <4> HIDE DEF z
        <4>2. filled = q \o z
          BY <3>1 DEF Filled, z, e
        <4>3. q \o z \in Seq(Numerical) /\ Len(q \o z) = l + e
          BY <4>1
        <4>4. Value(q \o z) = f * TenTo(e) + 0
          BY <4>1, ValueBehind
        <4>5. f * TenTo(e) \in Int
          BY <1>1, <2>1, TenToType
        <4> HIDE DEF filled
        <4> QED BY <2>1, <4>2, <4>3, <4>4, <4>5
      <3>2. CASE ~(l < decimals)
        <4>1. filled = q /\ l = decimals /\ e = 0
          BY <1>1, <1>3, <3>2 DEF Filled
        <4>2. f * TenTo(0) = f
          BY <1>1, TenToNext
        <4> HIDE DEF filled
        <4> QED BY <4>1, <4>2
      <3> QED BY <3>1, <3>2
    <2> HIDE DEF filled, e
    <2>3. RestIsZero(filled, decimals)
      BY <2>2 DEF RestIsZero
    <2>4. full = m \o filled /\ full \in Seq(Numerical) /\ full # <<>>
      BY <2>2
    <2> DEFINE x == n * TenTo(decimals) + f * TenTo(e)
    <2>5. Value(full) = x
      BY <2>2, <2>4, ValueBehind
    <2>6. x \in Nat
      <3> DEFINE p == TenTo(decimals)
                 w == TenTo(e)
      <3>1. n \in Nat /\ f \in Nat /\ p \in Nat
        BY <1>1
      <3>2. w \in Nat
        BY <2>1, TenToType
      <3> HIDE DEF n, f, p, w
      <3>3. n * p + f * w \in Nat
        BY <3>1, <3>2
      <3> QED BY <3>3 DEF p, w
    <2>7. scaled = unit * x + 0
      <3>1. TenTo(decimals) = unit * TenTo(e)
        BY <1>1, <2>1, TenToSum
      <3>2. TenTo(e) \in Int
        BY <2>1, TenToType
      <3> DEFINE w == TenTo(e)
      <3> HIDE DEF n, f, unit, w
      <3>3. (n * unit + f) * (unit * w) = unit * (n * (unit * w) + f * w) + 0
        BY <1>1, <3>2, ShortScaled DEF w
      <3> QED BY <3>1, <3>3 DEF w
    <2> HIDE DEF x, unit, n, f
    <2>8. (unit * x + 0) \div unit = x /\ (unit * x + 0) % unit = 0
      <3>1. 0 \in Nat /\ unit \in Nat /\ unit >= 1 /\ 0 < unit
        BY <1>1
      <3> QED BY <2>6, <3>1, Divided, Zenon
    <2> HIDE DEF scaled, full
    <2>9. stoll(full) = IF x <= MaxAmount THEN <<x>> ELSE <<>>
      BY <2>4, <2>5, StollDigits
    <2>10. amount_from_string(s, decimals) =
              IF scaled % unit = 0 /\ scaled \div unit <= MaxAmount
              THEN <<scaled \div unit>> ELSE <<>>
      BY <1>2, <2>3, <2>7, <2>8, <2>9, Zenon
    <2> QED BY <2>10, Zenon DEF unit, scaled, n, f
  <1>4. CASE ~(l <= decimals)
    <2> DEFINE e == l - decimals
               a == SubSeq(q, 1, decimals)
               b == SubSeq(q, decimals + 1, l)
               va == Value(a)
               vb == Value(b)
               t == TenTo(decimals)
               w == TenTo(e)
    <2>1. e \in Nat /\ e >= 1 /\ decimals + e = l
      BY <1>1, <1>4
    <2>2. filled = q
      BY <1>1, <1>4 DEF Filled
    <2>3. /\ a \in Seq(Numerical) /\ Len(a) = decimals
          /\ b \in Seq(Numerical) /\ Len(b) = e
          /\ \A i \in 1..e : b[i] = q[decimals + i]
          /\ \A i \in 1..decimals : a[i] = q[i]
      BY <1>1, <1>4
    <2>4. q = a \o b
      <3> HIDE DEF a, b, e
      <3>1. a \in Seq(Int) /\ b \in Seq(Int) /\ q \in Seq(Int)
        BY <2>3, NumericalInts
      <3>2. /\ a \o b \in Seq(Int) /\ Len(a \o b) = Len(a) + Len(b)
            /\ \A i \in 1..Len(a) + Len(b) :
                   (a \o b)[i] = IF i <= Len(a) THEN a[i] ELSE b[i - Len(a)]
        BY <3>1, JoinedInts
      <3>3. \A i \in 1..l : (a \o b)[i] = q[i]
        <4> TAKE i \in 1..l
        <4>1. CASE i <= decimals
          BY <2>1, <2>3, <3>2, <4>1
        <4>2. CASE ~(i <= decimals)
          <5>1. i - decimals \in 1..e /\ decimals + (i - decimals) = i
            BY <2>1, <4>2
          <5> QED BY <2>1, <2>3, <3>2, <4>2, <5>1
        <4> QED BY <4>1, <4>2
      <3> QED BY <2>1, <2>3, <3>1, <3>2, <3>3, SeqEqual
    <2> HIDE DEF a, b, e
    <2>5. va \in Nat /\ vb \in Nat /\ vb < w /\ t \in Nat /\ w \in Nat /\ t >= 1 /\ w >= 1
      BY <2>1, <2>3, ValueBounds, TenToType
    <2>6. f = va * w + vb
      BY <2>3, <2>4, ValueBehind
    <2>7. unit = t * w
      BY <2>1, TenToSum
    <2> DEFINE x == n * t + va
               r == vb * t
    <2>8. scaled = unit * x + r
      <3> HIDE DEF n, f, unit, va, vb, t, w
      <3>1. (n * (t * w) + (va * w + vb)) * t = (t * w) * (n * t + va) + vb * t
        BY <1>1, <2>5, LongScaled
      <3> QED BY <2>6, <2>7, <3>1 DEF t
    <2>9. x \in Nat /\ r \in Nat /\ r < unit /\ (r = 0 <=> vb = 0)
      <3> HIDE DEF n, f, unit, va, vb, t, w
      <3>1. vb * t < w * t
        BY <2>5
      <3>2. w * t = t * w
        BY <2>5
      <3>3. vb * t = 0 <=> vb = 0
        BY <2>5
      <3>4. n * t + va \in Nat /\ vb * t \in Nat
        BY <1>1, <2>5
      <3> QED BY <2>7, <3>1, <3>2, <3>3, <3>4
    <2>10. full = m \o a /\ full \in Seq(Numerical) /\ full # <<>> /\ Value(full) = x
      <3>1. full = m \o a
        BY <2>2 DEF a
      <3>2. m \o a \in Seq(Numerical) /\ m \o a # <<>>
        BY <2>3
      <3>3. Value(m \o a) = n * t + va
        BY <2>3, ValueBehind
      <3> QED BY <3>1, <3>2, <3>3
    <2>11. RestIsZero(filled, decimals) <=> vb = 0
      <3>1. RestIsZero(q, decimals) <=> \A i \in decimals + 1..l : q[i] = 48
        BY DEF RestIsZero, Digit
      <3>2. (\A i \in decimals + 1..l : q[i] = 48) <=> (\A i \in 1..e : b[i] = 48)
        <4>1. \A i \in decimals + 1..l : i - decimals \in 1..e /\ decimals + (i - decimals) = i
          BY <2>1
        <4>2. \A i \in 1..e : decimals + i \in decimals + 1..l
          BY <2>1
        <4>3. \A i \in decimals + 1..l : q[i] = b[i - decimals]
          BY <2>3, <4>1
        <4>4. \A i \in 1..e : b[i] = q[decimals + i]
          BY <2>3
        <4>5. ASSUME \A i \in decimals + 1..l : q[i] = 48 PROVE \A i \in 1..e : b[i] = 48
          BY <4>2, <4>4, <4>5, Zenon
        <4>6. ASSUME \A i \in 1..e : b[i] = 48 PROVE \A i \in decimals + 1..l : q[i] = 48
          BY <4>1, <4>3, <4>6, Zenon
        <4> QED BY <4>5, <4>6
      <3> QED BY <2>2, <2>3, <3>1, <3>2, ValueZero
    <2> HIDE DEF x, r, unit, n, f, va, vb, t, w
    <2>12. (unit * x + r) \div unit = x /\ (unit * x + r) % unit = r
      BY <1>1, <2>9, Divided
    <2> HIDE DEF scaled, full, filled
    <2>13. stoll(full) = IF x <= MaxAmount THEN <<x>> ELSE <<>>
      BY <2>10, StollDigits
    <2>14. amount_from_string(s, decimals) =
              IF scaled % unit = 0 /\ scaled \div unit <= MaxAmount
              THEN <<scaled \div unit>> ELSE <<>>
      BY <1>2, <2>8, <2>9, <2>11, <2>12, <2>13, Zenon
    <2> QED BY <2>14, Zenon DEF unit, scaled, n, f
  <1> QED BY <1>3, <1>4

(***************************************************************************)
(* The inductive invariant: a text is what its stage made it of.           *)
(***************************************************************************)
AmountInv ==
    /\ stage \in {"start", "written", "read"}
    /\ stage = "start" => fraction = <<>>
    /\ stage # "start" => d \in Decimals /\ amount \in Amounts
    /\ stage # "start" /\ fraction = <<>> => text = amount_to_string(amount, d)
    /\ fraction # <<>> => /\ fraction \in Fraction /\ amount \in Nat
                          /\ text = to_string(amount) \o <<Point>> \o Numerals(fraction)
    /\ stage = "read" => back = amount_from_string(text, d)

LEMMA AmountInvariant == AmountSpec => []AmountInv
  <1>1. AmountInit => AmountInv
    BY DEF AmountInit, AmountInv
  <1>2. AmountInv /\ [AmountNext]_amountVars => AmountInv'
    <2> SUFFICES ASSUME AmountInv, [AmountNext]_amountVars PROVE AmountInv'
      OBVIOUS
    <2>1. CASE Write
      BY <2>1, Zenon DEF Write, AmountInv
    <2>2. CASE PeerWrites
      <3>1. PICK n \in Amounts \cap Nat, decimals \in Decimals, f \in Fraction :
                /\ stage = "start" /\ stage' = "written" /\ f # <<>>
                /\ amount' = n /\ d' = decimals /\ fraction' = f
                /\ text' = to_string(n) \o <<Point>> \o Numerals(f)
        BY <2>2, Zenon DEF PeerWrites
      <3>2. n \in Amounts /\ n \in Nat
        OBVIOUS
      <3>3. "written" # "read" /\ "written" # "start"
        OBVIOUS
      <3> QED BY <3>1, <3>2, <3>3, Zenon DEF AmountInv
    <2>3. CASE Read
      BY <2>3, Zenon DEF Read, AmountInv
    <2>4. CASE UNCHANGED amountVars
      BY <2>4, Zenon DEF amountVars, AmountInv
    <2> QED BY <2>1, <2>2, <2>3, <2>4 DEF AmountNext
  <1> QED BY <1>1, <1>2, PTL DEF AmountSpec

(* What amount_to_string writes, amount_from_string reads back as it was,  *)
(* for every amount and every number of decimals, but for negative amounts *)
(* whose text is shorter than the decimals.                                *)
THEOREM AmountsReadBack == AmountSpec => []AmountReadBack
  <1>1. AmountInv => AmountReadBack
    <2> SUFFICES ASSUME AmountInv, stage = "read", fraction = <<>>,
                        amount >= 0 \/ Len(to_string(amount)) >= d
                 PROVE  back = <<amount>>
      BY DEF AmountReadBack
    <2>1. /\ amount \in Amounts /\ d \in Nat
          /\ back = amount_from_string(amount_to_string(amount, d), d)
      BY AmountAssumption DEF AmountInv
    <2> QED BY <2>1, AmountBack
  <1> QED BY <1>1, AmountInvariant, PTL

(* amount_from_string takes a peer's text for exactly the number that it   *)
(* is, or throws: when part of a minor unit would be left, or when an      *)
(* int64_t cannot hold it.                                                 *)
THEOREM PeerAmountsExact == AmountSpec => []PeerAmountExact
  <1>1. AmountInv => PeerAmountExact
    <2> SUFFICES ASSUME AmountInv, stage = "read", fraction # <<>>
                 PROVE  LET unit == TenTo(Len(fraction))
                            scaled == (amount * unit + Value(Numerals(fraction))) * TenTo(d)
                        IN  back = IF scaled % unit = 0 /\ scaled \div unit <= MaxAmount
                                   THEN <<scaled \div unit>> ELSE <<>>
      BY Zenon DEF PeerAmountExact
    <2> DEFINE m == DigitsOf(amount)
               q == Numerals(fraction)
    <2>1. /\ amount \in Nat /\ d \in Nat /\ fraction \in Seq(0..9)
          /\ back = amount_from_string(to_string(amount) \o <<Point>> \o q, d)
      <3>1. stage # "start"
        OBVIOUS
      <3>2. d \in Nat /\ fraction \in Seq(0..9)
        BY <3>1, AmountAssumption DEF AmountInv
      <3> QED BY <3>2, Zenon DEF AmountInv
    <2>2. m \in Seq(Numerical) /\ m # <<>> /\ Value(m) = amount
      BY <2>1, DigitsBack
    <2>3. q \in Seq(Numerical) /\ Len(q) = Len(fraction)
      <3>1. q = [i \in 1..Len(fraction) |-> 48 + fraction[i]]
        BY <2>1 DEF Numerals, Digit
      <3>2. \A i \in 1..Len(fraction) : fraction[i] \in 0..9
        BY <2>1
      <3>3. \A i \in 1..Len(fraction) : 48 + fraction[i] \in 48..57
        BY <3>2
      <3>4. Len(fraction) \in Nat
        BY <2>1
      <3> HIDE DEF q
      <3> QED BY <3>1, <3>3, <3>4 DEF Numerical
    <2>4. to_string(amount) = m
      BY <2>1 DEF to_string
    <2> HIDE DEF m, q
    <2>5. LET unit == TenTo(Len(q))
              scaled == (Value(m) * unit + Value(q)) * TenTo(d)
          IN  amount_from_string(m \o <<Point>> \o q, d) =
                  IF scaled % unit = 0 /\ scaled \div unit <= MaxAmount
                  THEN <<scaled \div unit>> ELSE <<>>
      BY <2>1, <2>2, <2>3, PeerBack
    <2> QED BY <2>1, <2>2, <2>3, <2>4, <2>5, Zenon DEF q
  <1> QED BY <1>1, AmountInvariant, PTL
=============================================================================
