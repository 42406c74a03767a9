---------------------------- MODULE RfcTimeProofs ----------------------------
(***************************************************************************)
(* The timestamps of src/time.rs are right on every day, and compare as    *)
(* the instants they stand for.                                            *)
(*                                                                         *)
(* A day is a year that begins in March, and a day of that year, counted   *)
(* from 0.  The days before the March of year y are MarchStart(y); years   *)
(* differ by 365 days, or 366 if their February is a leap one; and within  *)
(* a year months and days grow with the day of the year.                   *)
(*                                                                         *)
(* Numbers are bounded by inequalities rather than by ranges, which the    *)
(* provers handle badly when they are large.                               *)
(***************************************************************************)
EXTENDS RfcTime, TLAPS

MarchStart(y) == 365 * y + y \div 4 - y \div 100 + y \div 400

YearOfEra(doe) == (doe - doe \div 1460 + doe \div 36524 - doe \div 146096) \div 365

(* Day doy of the year that begins in the March of y: year, month and day. *)
Fields(y, doy) ==
  LET mp == (5 * doy + 2) \div 153
      m  == IF mp < 10 THEN mp + 3 ELSE mp - 9
  IN  <<IF m <= 2 THEN y + 1 ELSE y, m, doy - (153 * mp + 2) \div 5 + 1>>

IsDayOf(y, doy) == 0 <= doy /\ doy < MarchStart(y + 1) - MarchStart(y)

(* Counted from 1970-01-01, this day is the one of that year.              *)
IsDate(days, y, doy) ==
  /\ DaysToYmd(days) = Fields(y, doy)
  /\ days + 719468 = MarchStart(y) + doy
  /\ IsDayOf(y, doy)

-----------------------------------------------------------------------------
(* The detour over z - 146096 makes the division that truncates round down.*)
LEMMA QuotIsFloor ==
  ASSUME NEW z \in Int
  PROVE  LET era == Quot(IF z >= 0 THEN z ELSE z - 146096, 146097)
         IN  era \in Int /\ 0 <= z - era * 146097 /\ z - era * 146097 <= 146096
BY SMT DEF Quot

(* The division by 365 of a corrected day finds the year of an era.        *)
LEMMA YearOfEraFits ==
  ASSUME NEW doe \in Int, 0 <= doe, doe <= 146096
  PROVE  LET yoe == YearOfEra(doe) IN
         /\ yoe \in Int /\ 0 <= yoe /\ yoe <= 399
         /\ MarchStart(yoe) <= doe /\ doe < MarchStart(yoe + 1)
BY SMTT(60) DEF YearOfEra, MarchStart

(* days_to_ymd, with all of its divisions, splits a day into its year and  *)
(* its day of the year.                                                    *)
LEMMA DaysAreFields ==
  ASSUME NEW days \in Int
  PROVE  \E y \in Int, doy \in Int : IsDate(days, y, doy)
<1> DEFINE z   == days + 719468
           era == Quot(IF z >= 0 THEN z ELSE z - 146096, 146097)
           doe == z - era * 146097
           yoe == YearOfEra(doe)
           y   == yoe + era * 400
           doy == doe - (365 * yoe + yoe \div 4 - yoe \div 100)
<1>1. z \in Int
  BY SMT
<1>2. era \in Int /\ doe \in Int /\ 0 <= doe /\ doe <= 146096
  <2> HIDE DEF z
  <2> QED
    BY <1>1, QuotIsFloor, SMT
<1> HIDE DEF era
<1>3. /\ yoe \in Int /\ 0 <= yoe /\ yoe <= 399
      /\ MarchStart(yoe) <= doe /\ doe < MarchStart(yoe + 1)
  <2> HIDE DEF doe
  <2> QED
    BY <1>2, YearOfEraFits, SMT
<1>4. DaysToYmd(days) = Fields(y, doy)
  BY SMT DEF DaysToYmd, Fields, YearOfEra, era
<1> HIDE DEF doe, yoe
<1>5. doy \in Int /\ y \in Int /\ doy = doe - MarchStart(yoe)
  BY <1>2, <1>3, SMT DEF MarchStart
<1>6. /\ MarchStart(y) = 146097 * era + MarchStart(yoe)
      /\ MarchStart(y + 1) = 146097 * era + MarchStart(yoe + 1)
  BY <1>2, <1>3, SMT DEF MarchStart
<1>7. z = 146097 * era + doe
  BY <1>2, SMT DEF doe
<1> HIDE DEF y, doy
<1>8. days + 719468 = MarchStart(y) + doy
  BY <1>2, <1>3, <1>5, <1>6, <1>7, SMT DEF MarchStart
<1>9. IsDayOf(y, doy)
  BY <1>2, <1>3, <1>5, <1>6, SMT DEF MarchStart, IsDayOf
<1>10. IsDate(days, y, doy)
  BY <1>4, <1>8, <1>9, SMT DEF IsDate
<1> QED
  BY <1>5, <1>10

-----------------------------------------------------------------------------
(* Years that begin in March, and their lengths.                           *)
LEMMA YearLength ==
  ASSUME NEW y \in Int
  PROVE  /\ MarchStart(y) \in Int /\ MarchStart(y + 1) \in Int
         /\ Leap(y + 1)  => MarchStart(y + 1) = MarchStart(y) + 366
         /\ ~Leap(y + 1) => MarchStart(y + 1) = MarchStart(y) + 365
BY SMT DEF MarchStart, Leap

LEMMA LaterYears ==
  ASSUME NEW y \in Int, NEW w \in Int, y < w
  PROVE  MarchStart(y + 1) <= MarchStart(w)
BY SMTT(60) DEF MarchStart

(* Tomorrow within a year, and over its end in February.                   *)
LEMMA NextDay ==
  ASSUME NEW y \in Int, NEW doy \in Int, 0 <= doy, doy < 365, doy = 364 => Leap(y + 1)
  PROVE  Fields(y, doy + 1) = Tomorrow(Fields(y, doy))
BY SMT DEF Fields, Tomorrow, MonthLength

LEMMA NextYear ==
  ASSUME NEW y \in Int, NEW doy \in Int, doy = IF Leap(y + 1) THEN 365 ELSE 364
  PROVE  Fields(y + 1, 0) = Tomorrow(Fields(y, doy))
BY SMT DEF Fields, Tomorrow, MonthLength

LEMMA DaysAdvance ==
  ASSUME NEW days \in Int
  PROVE  DaysToYmd(days + 1) = Tomorrow(DaysToYmd(days))
<1>1. PICK y \in Int, doy \in Int : IsDate(days, y, doy)
  BY DaysAreFields
<1>2. PICK w \in Int, dow \in Int : IsDate(days + 1, w, dow)
  <2>1. days + 1 \in Int
    BY SMT
  <2> QED
    BY <2>1, DaysAreFields
<1> USE DEF IsDate
<1>3. /\ MarchStart(w) + dow = MarchStart(y) + doy + 1
      /\ MarchStart(y) \in Int /\ MarchStart(y + 1) \in Int
      /\ MarchStart(w) \in Int /\ MarchStart(w + 1) \in Int
  BY <1>1, <1>2, YearLength, SMT
<1>4. ~(w < y)
  BY <1>1, <1>2, <1>3, LaterYears, SMT DEF IsDayOf
<1>5. CASE w = y
  <2>1. dow = doy + 1 /\ 0 <= doy /\ doy < 365 /\ (doy = 364 => Leap(y + 1))
    BY <1>1, <1>2, <1>3, <1>5, YearLength, SMT DEF IsDayOf
  <2> QED
    BY <1>1, <1>2, <1>5, <2>1, NextDay, SMT
<1>6. CASE y < w
  <2>1. MarchStart(y + 1) <= MarchStart(w)
    BY <1>6, LaterYears, SMT
  <2>2. MarchStart(w) = MarchStart(y + 1) /\ dow = 0
        /\ doy = MarchStart(y + 1) - MarchStart(y) - 1
    BY <1>1, <1>2, <1>3, <2>1, SMT DEF IsDayOf
  <2>3. w = y + 1
    <3>1. CASE y + 1 < w
      <4>1. MarchStart(y + 1 + 1) <= MarchStart(w)
        BY <3>1, LaterYears, SMT
      <4>2. MarchStart(y + 1) < MarchStart(y + 1 + 1)
        BY YearLength, SMT
      <4> QED
        BY <2>2, <4>1, <4>2, YearLength, SMT
    <3> QED
      BY <1>6, <3>1, SMT
  <2>4. doy = IF Leap(y + 1) THEN 365 ELSE 364
    BY <1>3, <2>2, YearLength, SMT
  <2> QED
    BY <1>1, <1>2, <2>2, <2>3, <2>4, NextYear, SMT
<1> QED
  BY <1>4, <1>5, <1>6, SMT

-----------------------------------------------------------------------------
(* Dates grow with the days.                                               *)
DateBefore(f, g) ==
  \/ f[1] < g[1]
  \/ f[1] = g[1] /\ f[2] < g[2]
  \/ f[1] = g[1] /\ f[2] = g[2] /\ f[3] < g[3]

LEMMA FieldsGrow ==
  ASSUME NEW y \in Int, NEW p \in Int, NEW w \in Int, NEW q \in Int,
         IsDayOf(y, p), IsDayOf(w, q), y < w \/ (y = w /\ p < q)
  PROVE  DateBefore(Fields(y, p), Fields(w, q))
<1>1. 0 <= p /\ p < 366 /\ 0 <= q /\ q < 366
  BY YearLength, SMT DEF IsDayOf
<1> QED
  BY <1>1, SMTT(60) DEF Fields, DateBefore

LEMMA DatesGrow ==
  ASSUME NEW a \in Int, NEW b \in Int, a < b
  PROVE  DateBefore(DaysToYmd(a), DaysToYmd(b))
<1>1. PICK y \in Int, p \in Int : IsDate(a, y, p)
  BY DaysAreFields
<1>2. PICK w \in Int, q \in Int : IsDate(b, w, q)
  BY DaysAreFields
<1> USE DEF IsDate
<1>3. /\ MarchStart(y) \in Int /\ MarchStart(y + 1) \in Int
      /\ MarchStart(w) \in Int /\ MarchStart(w + 1) \in Int
  BY YearLength, SMT
<1>4. ~(w < y)
  BY <1>1, <1>2, <1>3, LaterYears, SMT DEF IsDayOf
<1>5. y < w \/ (y = w /\ p < q)
  BY <1>1, <1>2, <1>3, <1>4, SMT
<1> QED
  BY <1>1, <1>2, <1>5, FieldsGrow, SMT

-----------------------------------------------------------------------------
(* A date is three numbers, a timestamp six.                               *)
LEMMA DateIsTriple ==
  ASSUME NEW days \in Int
  PROVE  LET f == DaysToYmd(days)
         IN  f = <<f[1], f[2], f[3]>> /\ f[1] \in Int /\ f[2] \in Int /\ f[3] \in Int
<1>1. PICK y \in Int, doy \in Int : IsDate(days, y, doy)
  BY DaysAreFields
<1>2. DaysToYmd(days) = Fields(y, doy)
  BY <1>1, SMT DEF IsDate
<1> QED
  BY <1>2, SMT DEF Fields

LEMMA BeforeOfSix ==
  ASSUME NEW f, NEW g, Len(f) = 6
  PROVE  Before(f, g) <=>
    \/ DateBefore(f, g)
    \/ /\ f[1] = g[1] /\ f[2] = g[2] /\ f[3] = g[3]
       /\ \/ f[4] < g[4]
          \/ f[4] = g[4] /\ f[5] < g[5]
          \/ f[4] = g[4] /\ f[5] = g[5] /\ f[6] < g[6]
<1>1. \A i \in 1 .. 6 : (\A j \in 1 .. i - 1 : f[j] = g[j]) <=>
        \/ i = 1
        \/ i = 2 /\ f[1] = g[1]
        \/ i = 3 /\ f[1] = g[1] /\ f[2] = g[2]
        \/ i = 4 /\ f[1] = g[1] /\ f[2] = g[2] /\ f[3] = g[3]
        \/ i = 5 /\ f[1] = g[1] /\ f[2] = g[2] /\ f[3] = g[3] /\ f[4] = g[4]
        \/ i = 6 /\ f[1] = g[1] /\ f[2] = g[2] /\ f[3] = g[3] /\ f[4] = g[4] /\ f[5] = g[5]
  OBVIOUS
<1> QED
  BY <1>1 DEF Before, DateBefore

LEMMA BeforeOfTwo ==
  ASSUME NEW a, NEW r, NEW b, NEW s
  PROVE  Before(<<a, r>>, <<b, s>>) <=> a < b \/ (a = b /\ r < s)
<1> DEFINE f == <<a, r>>
           g == <<b, s>>
<1>1. Len(f) = 2 /\ f[1] = a /\ f[2] = r /\ g[1] = b /\ g[2] = s
  OBVIOUS
<1> HIDE DEF f, g
<1>2. \A i \in 1 .. 2 : (\A j \in 1 .. i - 1 : f[j] = g[j]) <=> i = 1 \/ (i = 2 /\ f[1] = g[1])
  OBVIOUS
<1>3. Before(f, g) <=> f[1] < g[1] \/ (f[1] = g[1] /\ f[2] < g[2])
  BY <1>1, <1>2 DEF Before
<1> QED
  BY <1>1, <1>3 DEF f, g

(* The fields of a timestamp.                                              *)
LEMMA FieldsOfTime ==
  ASSUME NEW c \in Int, NEW t \in Int
  PROVE  LET f == Rfc3339At(<<c, t>>)
             A == DaysToYmd(c)
         IN  /\ Len(f) = 6 /\ f[1] = A[1] /\ f[2] = A[2] /\ f[3] = A[3]
             /\ f[4] = t \div 3600 /\ f[5] = (t \div 60) % 60 /\ f[6] = t % 60
BY SMT DEF Rfc3339At

(* Comparing two timestamps as strings, as pick_pair, pick_loopback and    *)
(* cleanup_orphans do, compares the instants, however far apart they are:  *)
(* what Prober, Rotation and ProbePair assume when they take timestamps    *)
(* for numbers.                                                            *)
THEOREM StringsCompareAsTimes ==
  ASSUME NEW a \in Int, NEW r \in Int, 0 <= r, r < 86400,
         NEW b \in Int, NEW s \in Int, 0 <= s, s < 86400
  PROVE  Before(Rfc3339At(<<a, r>>), Rfc3339At(<<b, s>>)) <=> Before(<<a, r>>, <<b, s>>)
<1> DEFINE A == DaysToYmd(a)
           B == DaysToYmd(b)
           f == Rfc3339At(<<a, r>>)
           g == Rfc3339At(<<b, s>>)
<1>1. A[1] \in Int /\ A[2] \in Int /\ A[3] \in Int
  BY DateIsTriple, SMT
<1>2. B[1] \in Int /\ B[2] \in Int /\ B[3] \in Int
  BY DateIsTriple, SMT
<1>3. f = Rfc3339At(<<a, r>>) /\ g = Rfc3339At(<<b, s>>)
  OBVIOUS
<1>4. /\ Len(f) = 6 /\ f[1] = A[1] /\ f[2] = A[2] /\ f[3] = A[3]
      /\ f[4] = r \div 3600 /\ f[5] = (r \div 60) % 60 /\ f[6] = r % 60
  BY FieldsOfTime, SMT
<1>5. /\ Len(g) = 6 /\ g[1] = B[1] /\ g[2] = B[2] /\ g[3] = B[3]
      /\ g[4] = s \div 3600 /\ g[5] = (s \div 60) % 60 /\ g[6] = s % 60
  BY FieldsOfTime, SMT
<1>13. DaysToYmd(a) = A /\ DaysToYmd(b) = B
  OBVIOUS
<1> HIDE DEF A, B, f, g
<1>6. a < b => DateBefore(f, g)
  <2>1. a < b => DateBefore(A, B)
    BY <1>13, DatesGrow
  <2> QED
    BY <1>4, <1>5, <2>1 DEF DateBefore
<1>7. b < a => DateBefore(g, f)
  <2>1. b < a => DateBefore(B, A)
    BY <1>13, DatesGrow
  <2> QED
    BY <1>4, <1>5, <2>1 DEF DateBefore
<1>8. a = b => f[1] = g[1] /\ f[2] = g[2] /\ f[3] = g[3]
  BY <1>4, <1>5, <1>13
<1>9. Before(<<a, r>>, <<b, s>>) <=> a < b \/ (a = b /\ r < s)
  BY BeforeOfTwo
<1>10. f[1] \in Int /\ f[2] \in Int /\ f[3] \in Int /\ g[1] \in Int /\ g[2] \in Int /\ g[3] \in Int
  BY <1>1, <1>2, <1>4, <1>5
<1>11. r < s <=>
         \/ f[4] < g[4]
         \/ f[4] = g[4] /\ f[5] < g[5]
         \/ f[4] = g[4] /\ f[5] = g[5] /\ f[6] < g[6]
  <2>1. /\ f[4] = r \div 3600 /\ f[5] = (r \div 60) % 60 /\ f[6] = r % 60
        /\ g[4] = s \div 3600 /\ g[5] = (s \div 60) % 60 /\ g[6] = s % 60
    BY <1>4, <1>5
  <2>2. r < s <=>  \* hours, minutes and seconds grow with the second of the day
           \/ r \div 3600 < s \div 3600
           \/ r \div 3600 = s \div 3600 /\ (r \div 60) % 60 < (s \div 60) % 60
           \/ r \div 3600 = s \div 3600 /\ (r \div 60) % 60 = (s \div 60) % 60 /\ r % 60 < s % 60
    BY SMTT(60)
  <2> HIDE DEF f, g
  <2> QED
    BY <2>1, <2>2, SMT
<1>12. Before(f, g) <=> a < b \/ (a = b /\ r < s)
  <2>1. CASE a < b
    BY <1>4, <1>6, <2>1, BeforeOfSix, SMT
  <2>2. CASE a = b
    BY <1>4, <1>8, <1>10, <1>11, <2>2, BeforeOfSix, SMT DEF DateBefore
  <2>3. CASE b < a
    <3>1. ~DateBefore(f, g) /\ ~(f[1] = g[1] /\ f[2] = g[2] /\ f[3] = g[3])
      BY <1>7, <1>10, <2>3, SMT DEF DateBefore
    <3> QED
      BY <1>4, <2>3, <3>1, BeforeOfSix, SMT
  <2> QED
    BY <2>1, <2>2, <2>3, SMT
<1> QED
  BY <1>3, <1>9, <1>12, SMT

-----------------------------------------------------------------------------
(* The days on which the year has four digits.                             *)
DayInv == day \in Int /\ -719528 <= day /\ day < 2932896

LEMMA DayInvariant == Days => []DayInv
<1>1. DayInit => DayInv
  BY TimeAssumption, SMT DEF DayInit, DayInv
<1>2. DayInv /\ [DayNext]_day => DayInv'
  BY TimeAssumption, SMT DEF DayNext, DayInv
<1> QED
  BY <1>1, <1>2, PTL DEF Days

(* On every day days_to_ymd has the date that follows that of the day      *)
(* before in the Gregorian calendar, counted from 1970-01-01.              *)
THEOREM CalendarIsRight == Days => []CivilDates
<1>1. DayInv => CivilDates
  <2>1. DaysToYmd(0) = <<1970, 1, 1>>
    BY SMT DEF DaysToYmd, Quot
  <2> QED
    BY <2>1, DaysAdvance, SMT DEF DayInv, CivilDates
<1> QED
  BY <1>1, DayInvariant, PTL

(* Years have four digits, so that the fields have their fixed widths.     *)
LEMMA FourDigits ==
  ASSUME DayInv
  PROVE  0 <= DaysToYmd(day)[1] /\ DaysToYmd(day)[1] <= 9999
<1>0. day \in Int
  BY SMT DEF DayInv
<1>1. PICK y \in Int, doy \in Int : IsDate(day, y, doy)
  BY <1>0, DaysAreFields
<1> USE DEF IsDate
<1>2. 0 <= doy /\ doy < 366
  BY <1>1, YearLength, SMT DEF IsDayOf
<1>3. -1 <= y /\ y <= 9999 /\ (y = -1 => doy >= 306) /\ (y = 9999 => doy < 306)
  BY <1>1, <1>2, SMT DEF DayInv, MarchStart
<1>4. 0 <= Fields(y, doy)[1] /\ Fields(y, doy)[1] <= 9999
  BY <1>2, <1>3, SMT DEF Fields
<1> QED
  BY <1>1, <1>4, SMT

(* The year has four digits, and of two times of a day and the next the    *)
(* later one has the greater string: pick_pair sorts by age.               *)
THEOREM StringOrderHolds == Days => []StringOrderIsTimeOrder
<1>1. DayInv => StringOrderIsTimeOrder
  <2> SUFFICES ASSUME DayInv
               PROVE  /\ 0 <= DaysToYmd(day)[1] /\ DaysToYmd(day)[1] <= 9999
                      /\ \A a, b \in {day, day + 1} \X Seconds :
                           Before(Rfc3339At(a), Rfc3339At(b)) <=> Before(a, b)
    BY SMT DEF StringOrderIsTimeOrder
  <2>1. ASSUME NEW a \in {day, day + 1} \X Seconds, NEW b \in {day, day + 1} \X Seconds
        PROVE  Before(Rfc3339At(a), Rfc3339At(b)) <=> Before(a, b)
    <3>1. /\ a = <<a[1], a[2]>> /\ a[1] \in Int /\ a[2] \in Seconds
          /\ b = <<b[1], b[2]>> /\ b[1] \in Int /\ b[2] \in Seconds
      BY <2>1, SMT DEF DayInv
    <3>2. /\ a[2] \in Int /\ 0 <= a[2] /\ a[2] < 86400
          /\ b[2] \in Int /\ 0 <= b[2] /\ b[2] < 86400
      BY <3>1, TimeAssumption, SMT
    <3>3. Before(Rfc3339At(<<a[1], a[2]>>), Rfc3339At(<<b[1], b[2]>>))
            <=> Before(<<a[1], a[2]>>, <<b[1], b[2]>>)
      BY <3>1, <3>2, StringsCompareAsTimes, SMT
    <3> QED
      BY <3>1, <3>3, SMT
  <2> QED
    BY <2>1, FourDigits, SMT
<1> QED
  BY <1>1, DayInvariant, PTL
=============================================================================
