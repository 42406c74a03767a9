------------------------------- MODULE RfcTime -------------------------------
(***************************************************************************)
(* RFC 3339 timestamps without a date library: src/time.rs.                *)
(*                                                                         *)
(* The prober and cleanup_orphans never parse a timestamp: they compare    *)
(* the strings.  A string of rfc3339_at is modelled by its fields, most    *)
(* significant first.  While the year has four digits every field has a    *)
(* fixed width, and the strings compare as the fields do, one by one.      *)
(*                                                                         *)
(* An instant is a pair <<day, second of the day>>: unix_secs is            *)
(* 86400 * day + second, which div_euclid and rem_euclid by 86400 split    *)
(* into the same two numbers.                                              *)
(*                                                                         *)
(* \div and % round towards minus infinity, as div_euclid and rem_euclid   *)
(* do for these positive divisors; Quot is the / of Rust, which truncates. *)
(***************************************************************************)
EXTENDS Integers, Sequences

CONSTANTS
  FirstDay, LastDay,  \* the days, counted from 1970-01-01, that the run visits
  Seconds             \* the seconds of a day that it looks at

(* All days are of the years 0 to 9999, and so are those after them.       *)
ASSUME TimeAssumption ==
  /\ FirstDay \in Int /\ LastDay \in Int
  /\ -719528 <= FirstDay /\ FirstDay < 2932896 /\ LastDay < 2932896
  /\ \A s \in Seconds : s \in Nat /\ s < 86400

Quot(a, b) == IF a >= 0 THEN a \div b ELSE -((-a) \div b)

\* Mutants: a year of the era is leap whenever 4 divides it; January and February keep
\* the year that began in March.
DaysToYmdJulian(days) ==
  LET z   == days + 719468
      era == Quot(IF z >= 0 THEN z ELSE z - 146096, 146097)
      doe == z - era * 146097
      yoe == (doe - doe \div 1460) \div 365
      doy == doe - (365 * yoe + yoe \div 4)
      mp  == (5 * doy + 2) \div 153
      m   == IF mp < 10 THEN mp + 3 ELSE mp - 9
      y   == yoe + era * 400
  IN  <<IF m <= 2 THEN y + 1 ELSE y, m, doy - (153 * mp + 2) \div 5 + 1>>
DaysToYmdYearFromMarch(days) ==
  LET z   == days + 719468
      era == Quot(IF z >= 0 THEN z ELSE z - 146096, 146097)
      doe == z - era * 146097
      yoe == (doe - doe \div 1460 + doe \div 36524 - doe \div 146096) \div 365
      doy == doe - (365 * yoe + yoe \div 4 - yoe \div 100)
      mp  == (5 * doy + 2) \div 153
      m   == IF mp < 10 THEN mp + 3 ELSE mp - 9
  IN  <<yoe + era * 400, m, doy - (153 * mp + 2) \div 5 + 1>>

(* Howard Hinnant's civil_from_days: <<year, month, day>>.                 *)
DaysToYmd(days) ==
  LET z   == days + 719468
      era == Quot(IF z >= 0 THEN z ELSE z - 146096, 146097)
      doe == z - era * 146097
      yoe == (doe - doe \div 1460 + doe \div 36524 - doe \div 146096) \div 365
      doy == doe - (365 * yoe + yoe \div 4 - yoe \div 100)
      mp  == (5 * doy + 2) \div 153
      m   == IF mp < 10 THEN mp + 3 ELSE mp - 9
      y   == yoe + era * 400
  IN  <<IF m <= 2 THEN y + 1 ELSE y, m, doy - (153 * mp + 2) \div 5 + 1>>

Rfc3339At(t) ==
  LET date == DaysToYmd(t[1])
  IN  <<date[1], date[2], date[3], t[2] \div 3600, (t[2] \div 60) % 60, t[2] % 60>>

(* String order.                                                           *)
Before(f, g) ==
  \E i \in 1 .. Len(f) : f[i] < g[i] /\ \A j \in 1 .. i - 1 : f[j] = g[j]

VARIABLE day  \* the day looked at

DayInit == day = FirstDay
DayNext == day < LastDay /\ day' = day + 1
Days == DayInit /\ [][DayNext]_day

-----------------------------------------------------------------------------
(* The Gregorian calendar, told from one day to the next.                  *)
Leap(y) == y % 4 = 0 /\ (y % 100 # 0 \/ y % 400 = 0)
MonthLength(y, m) ==
  CASE m = 2 -> IF Leap(y) THEN 29 ELSE 28
    [] m \in {4, 6, 9, 11} -> 30
    [] OTHER -> 31
Tomorrow(d) ==
  CASE d[3] < MonthLength(d[1], d[2]) -> <<d[1], d[2], d[3] + 1>>
    [] d[3] >= MonthLength(d[1], d[2]) /\ d[2] < 12 -> <<d[1], d[2] + 1, 1>>
    [] OTHER -> <<d[1] + 1, 1, 1>>

(* days_to_ymd counts days as the calendar does, from 1970-01-01.          *)
CivilDates ==
  /\ day = 0 => DaysToYmd(day) = <<1970, 1, 1>>
  /\ DaysToYmd(day + 1) = Tomorrow(DaysToYmd(day))

(* The year has four digits, and comparing two timestamps as strings       *)
(* compares the seconds they stand for, within a day and over its end:     *)
(* what pick_pair, pick_loopback and cleanup_orphans rely on.              *)
StringOrderIsTimeOrder ==
  /\ 0 <= DaysToYmd(day)[1] /\ DaysToYmd(day)[1] <= 9999
  /\ \A a, b \in {day, day + 1} \X Seconds :
       Before(Rfc3339At(a), Rfc3339At(b)) <=> Before(a, b)
=============================================================================
