------------------------------ MODULE CronProofs -----------------------------
(***************************************************************************)
(* getNextRunTime is right in UTC for every calendar, expression and       *)
(* reference: no step of the scan moves the cursor past a matching minute, *)
(* and what is returned matches.  Dates are compared field by field; that  *)
(* this is the order of time follows from the calendar alone.  In a zone,  *)
(* the conversion of the minute found is right too: the guess is off by no *)
(* more than summer time, and one of the adjustments makes up for that.    *)
(***************************************************************************)
EXTENDS CronProperties, TLAPS

Before(p, q) ==
  \/ p.year < q.year
  \/ /\ p.year = q.year
     /\ \/ p.month < q.month
        \/ /\ p.month = q.month
           /\ \/ p.day < q.day
              \/ /\ p.day = q.day
                 /\ \/ p.hour < q.hour
                    \/ p.hour = q.hour /\ p.minute < q.minute

Cursors ==
  [year : Int, month : 1..12, day : 1..31, hour : 0..24, minute : 0..59]

(* Dates of the calendar; 24 is an hour only where Intl shows it.          *)
Dates ==
  {p \in [year : Years, month : 1..12, day : 1..31, hour : 0..23,
          minute : 0..59] : p.day <= MonthDays(p.year, p.month)}

Scanning == phase \notin {"parse", "rejected"}

(* The years that are searched belong to the calendar.                     *)
YearInv ==
  Scanning =>
    /\ (maxYear - 4)..maxYear \subseteq Years
    /\ maxYear - 4 <= cursor.year /\ cursor.year <= maxYear + 1
    /\ phase \notin {"month", "gaveUp"} => cursor.year <= maxYear
    /\ phase = "gaveUp" => cursor.year > maxYear

(* The fields that the scan has passed in this round match.                *)
FoundInv ==
  /\ phase \in {"day", "weekday", "hour", "minute", "build", "done"} =>
       cursor.month \in fields.months
  /\ phase \in {"weekday", "hour", "minute", "build", "done"} =>
       cursor.day \in fields.daysOfMonth
  /\ phase \in {"hour", "minute", "build", "done"} =>
       DayOfWeek(cursor) \in fields.daysOfWeek
  /\ phase \in {"minute", "build", "done"} => cursor.hour \in fields.hours
  /\ phase \in {"build", "done"} => cursor.minute \in fields.minutes

(* The cursor has passed no matching minute after the reference.           *)
SkipInv ==
  Scanning /\ zone.name = "UTC" =>
    \A p \in Matching : After(p) => ~Before(p, cursor)

ResultInv ==
  phase = "done" /\ zone.name = "UTC" =>
    result = Utc(cursor) /\ After(cursor)

IInv == TypeOK /\ YearInv /\ FoundInv /\ SkipInv /\ ResultInv

-----------------------------------------------------------------------------
(* Arithmetic of dates                                                     *)

LEMMA UtcType == ASSUME NEW p \in Dates PROVE Utc(p) \in Int
<1>1. p.year \in Years /\ p.month \in 1..12
  BY DEF Dates
<1>2. MonthStart(p.year, p.month) \in Int
  BY <1>1, CalendarAssumption
<1>3. p.day \in Int /\ p.hour \in Int /\ p.minute \in Int
  BY DEF Dates
<1>4. QED BY <1>2, <1>3 DEF Utc

(* The order of the fields is the order of time.                           *)
LEMMA Chronology ==
  ASSUME NEW p \in Dates, NEW q \in Dates, Before(p, q)
  PROVE  Utc(p) < Utc(q)
<1>1. /\ p.year \in Years /\ p.year \in Int /\ p.month \in 1..12
      /\ q.year \in Years /\ q.year \in Int /\ q.month \in 1..12
      /\ p.day <= MonthDays(p.year, p.month)
  BY CalendarAssumption DEF Dates
<1>2. PICK d \in 1..31, h \in 0..23, i \in 0..59 :
        p.day = d /\ p.hour = h /\ p.minute = i
  BY DEF Dates
<1>3. PICK e \in 1..31, k \in 0..23, l \in 0..59 :
        q.day = e /\ q.hour = k /\ q.minute = l
  BY DEF Dates
<1>4. PICK a \in Int, b \in Int, c \in Int :
        /\ a = MonthStart(p.year, p.month) /\ b = MonthDays(p.year, p.month)
        /\ c = MonthStart(q.year, q.month)
  <2>1. MonthStart(p.year, p.month) \in Int /\ MonthStart(q.year, q.month) \in Int
    BY <1>1, CalendarAssumption
  <2>2. MonthDays(p.year, p.month) \in 28..31
    BY <1>1, CalendarAssumption
  <2>3. MonthDays(p.year, p.month) \in Int
    BY <2>2
  <2>4. QED BY <2>1, <2>3
<1>5. /\ Utc(p) = (a + d - 1) * 1440 + h * 60 + i
      /\ Utc(q) = (c + e - 1) * 1440 + k * 60 + l
  BY <1>2, <1>3, <1>4 DEF Utc
<1>6. CASE p.year < q.year \/ (p.year = q.year /\ p.month < q.month)
  <2>1. a + b <= c
    BY <1>1, <1>4, <1>6, CalendarAssumption
  <2>2. d <= b
    BY <1>1, <1>2, <1>4
  <2>3. a + d - 1 \in Int /\ c + e - 1 \in Int /\ a + d - 1 < c + e - 1
    BY <2>1, <2>2
  <2>4. (a + d - 1) * 1440 + h * 60 + i < (c + e - 1) * 1440 + k * 60 + l
    BY <2>3
  <2>5. QED BY <1>5, <2>4
<1>7. CASE p.year = q.year /\ p.month = q.month
  <2>1. a = c
    BY <1>4, <1>7
  <2>2. d < e \/ (d = e /\ h < k) \/ (d = e /\ h = k /\ i < l)
    BY <1>1, <1>2, <1>3, <1>7 DEF Before
  <2>3. CASE d < e
    <3>1. a + d - 1 \in Int /\ c + e - 1 \in Int /\ a + d - 1 < c + e - 1
      BY <2>1, <2>3
    <3>2. (a + d - 1) * 1440 + h * 60 + i < (c + e - 1) * 1440 + k * 60 + l
      BY <3>1
    <3>3. QED BY <1>5, <3>2
  <2>4. CASE d = e /\ (h < k \/ (h = k /\ i < l))
    BY <1>5, <2>1, <2>4
  <2>5. QED BY <2>2, <2>3, <2>4
<1>8. QED BY <1>1, <1>6, <1>7 DEF Before

(* Splitting a number of minutes into days, hours and minutes.             *)
LEMMA Clock ==
  ASSUME NEW r \in Nat
  PROVE  /\ r \div 1440 \in Nat /\ (r % 1440) \div 60 \in 0..23
         /\ r % 60 \in 0..59
         /\ r = (r \div 1440) * 1440 + ((r % 1440) \div 60) * 60 + (r % 60)
<1>1. /\ r \div 1440 \in Nat /\ r % 1440 \in 0..1439
      /\ r = (r \div 1440) * 1440 + (r % 1440)
  OBVIOUS
<1>2. PICK s \in 0..1439 : s = r % 1440
  BY <1>1
<1>3. /\ s \div 60 \in 0..23 /\ s % 60 \in 0..59
      /\ s = (s \div 60) * 60 + (s % 60)
  OBVIOUS
<1>4. r % 60 = s % 60
  BY <1>1, <1>2
<1>5. QED BY <1>1, <1>2, <1>3, <1>4

(* A point in time that the calendar contains is the time of a date.       *)
LEMMA CivilDate ==
  ASSUME NEW t \in Int, NEW y \in Years, NEW m \in 1..12, Contains(<<y, m>>, t)
  PROVE  /\ CivilTime[t] \in Dates /\ Utc(CivilTime[t]) = t
         /\ CivilTime[t].year = y
<1> DEFINE mo == CHOOSE n \in Months : Contains(n, t)
           rest == t - MonthStart(mo[1], mo[2]) * 1440
<1>1. mo \in Months /\ Contains(mo, t)
  <2>1. <<y, m>> \in Months
    BY DEF Months
  <2>2. \E n \in Months : Contains(n, t)
    BY <2>1
  <2>3. QED BY <2>2
<1>2. /\ mo[1] \in Years /\ mo[1] \in Int /\ mo[2] \in 1..12
      /\ MonthStart(mo[1], mo[2]) \in Int /\ MonthDays(mo[1], mo[2]) \in 28..31
  <2>1. mo[1] \in Years /\ mo[2] \in 1..12
    BY <1>1 DEF Months
  <2>2. QED BY <2>1, CalendarAssumption
<1>3. /\ y \in Int /\ MonthStart(y, m) \in Int /\ MonthDays(y, m) \in 28..31
  BY CalendarAssumption
<1>4. mo[1] = y
  <2>1. ~(mo[1] < y)
    <3>1. SUFFICES ASSUME mo[1] < y PROVE FALSE
      OBVIOUS
    <3>2. MonthStart(mo[1], mo[2]) + MonthDays(mo[1], mo[2]) <= MonthStart(y, m)
      BY <1>2, <3>1, CalendarAssumption
    <3>3. QED BY <1>1, <1>2, <1>3, <3>2 DEF Contains
  <2>2. ~(y < mo[1])
    <3>1. SUFFICES ASSUME y < mo[1] PROVE FALSE
      OBVIOUS
    <3>2. MonthStart(y, m) + MonthDays(y, m) <= MonthStart(mo[1], mo[2])
      BY <1>2, <3>1, CalendarAssumption
    <3>3. QED BY <1>1, <1>2, <1>3, <3>2 DEF Contains
  <2>3. QED BY <1>2, <1>3, <2>1, <2>2
<1>5. CivilTime[t] = At(mo[1], mo[2], rest \div 1440 + 1,
                        (rest % 1440) \div 60, rest % 60)
  BY DEF CivilTime
<1>6. rest \in Nat /\ rest < MonthDays(mo[1], mo[2]) * 1440
  BY <1>1, <1>2 DEF Contains
<1> HIDE DEF mo, rest
<1>7. /\ rest \div 1440 \in Nat /\ (rest % 1440) \div 60 \in 0..23
      /\ rest % 60 \in 0..59
      /\ rest = (rest \div 1440) * 1440 + ((rest % 1440) \div 60) * 60 + (rest % 60)
  BY <1>6, Clock
<1> DEFINE d == rest \div 1440
           h == (rest % 1440) \div 60
           i == rest % 60
<1>8. /\ d \in Nat /\ h \in 0..23 /\ i \in 0..59
      /\ rest = d * 1440 + h * 60 + i
  BY <1>7
<1>10. CivilTime[t] = At(mo[1], mo[2], d + 1, h, i)
  BY <1>5
<1> HIDE DEF d, h, i
<1>9. d + 1 <= MonthDays(mo[1], mo[2]) /\ d + 1 \in 1..31
  BY <1>2, <1>6, <1>8
<1>11. CivilTime[t] \in Dates
  <2> DEFINE p == At(mo[1], mo[2], d + 1, h, i)
  <2>1. p \in [year : Years, month : 1..12, day : 1..31, hour : 0..23,
                minute : 0..59]
    BY <1>2, <1>8, <1>9 DEF At
  <2>2. p.day <= MonthDays(p.year, p.month)
    BY <1>9 DEF At
  <2>3. QED BY <1>10, <2>1, <2>2 DEF Dates
<1>12. Utc(CivilTime[t]) = t
  <2>1. PICK a \in Int : a = MonthStart(mo[1], mo[2])
    BY <1>2
  <2>2. Utc(CivilTime[t]) = (a + (d + 1) - 1) * 1440 + h * 60 + i
    BY <1>10, <2>1 DEF At, Utc
  <2>3. rest = t - a * 1440
    BY <2>1 DEF rest
  <2>4. QED BY <1>8, <2>2, <2>3
<1>13. QED BY <1>4, <1>10, <1>11, <1>12 DEF At

-----------------------------------------------------------------------------
(* Parsing and the start of the scan                                       *)

(* A valid field allows something, and only values in its range.           *)
LEMMA FieldValues ==
  ASSUME NEW spec, spec.min \in Int, spec.max \in Int,
         NEW field \in SUBSET Part, field # {},
         \A part \in field : ValidPart(part, spec)
  PROVE  Values(field, spec) \subseteq spec.min..spec.max
         /\ Values(field, spec) # {}
<1>1. ASSUME NEW part \in field
      PROVE  /\ First(part, spec) \in spec.min..spec.max
             /\ Last(part, spec) \in spec.min..spec.max
             /\ First(part, spec) <= Last(part, spec)
             /\ StepOf(part) \in Nat \ {0}
  <2>1. /\ part \in Part /\ ValidPart(part, spec)
    OBVIOUS
  <2>2. First(part, spec) \in Int
    BY <2>1 DEF First, Part, ValidPart
  <2>3. Last(part, spec) \in Int
    <3>1. CASE part.from = Asterisk
      BY <3>1 DEF Last
    <3>2. CASE part.from # Asterisk /\ part.to # Absent
      BY <2>1, <3>2 DEF Last, Part, ValidPart
    <3>3. CASE part.from # Asterisk /\ part.to = Absent /\ part.step # Absent
      BY <3>3 DEF Last
    <3>4. CASE part.from # Asterisk /\ part.to = Absent /\ part.step = Absent
      BY <2>1, <3>4 DEF Last, Part, ValidPart
    <3>5. QED BY <3>1, <3>2, <3>3, <3>4
  <2>4. StepOf(part) \in Int
    BY <2>1 DEF StepOf, Part, ValidPart
  <2>5. QED BY <2>1, <2>2, <2>3, <2>4 DEF ValidPart
<1>2. Values(field, spec) \subseteq spec.min..spec.max
  BY <1>1 DEF Values
<1>3. PICK part : part \in field
  OBVIOUS
<1>4. First(part, spec) \in First(part, spec)..Last(part, spec)
      /\ (First(part, spec) - First(part, spec)) % StepOf(part) = 0
  BY <1>1, <1>3
<1>5. First(part, spec) \in Values(field, spec)
  BY <1>3, <1>4 DEF Values
<1>6. QED BY <1>2, <1>5

LEMMA Parsed ==
  ASSUME NEW e \in Expressions, ValidExpression(e)
  PROVE  LET f == ParseExpression(e)
         IN /\ f \in [minutes : SUBSET (0..59), hours : SUBSET (0..23),
                      daysOfMonth : SUBSET (1..31), months : SUBSET (1..12),
                      daysOfWeek : SUBSET (0..6)]
            /\ {} \notin {f.minutes, f.hours, f.daysOfMonth, f.months,
                          f.daysOfWeek}
<1>1. Len(e) = 5 /\ \A i \in 1..5 : e[i] \in SUBSET Part /\ e[i] # {}
  <2>1. e \in Seq(SUBSET Part) /\ (\A i \in 1..Len(e) : e[i] # {}) /\ Len(e) = 5
    BY ExpressionAssumption DEF ValidExpression
  <2>2. QED BY <2>1
<1>2. \A i \in 1..5 : \A part \in e[i] : ValidPart(part, FieldSpecs[i])
  BY DEF ValidExpression
<1>3. Values(e[1], FieldSpecs[1]) \in SUBSET (0..59) /\ Values(e[1], FieldSpecs[1]) # {}
  <2>1. FieldSpecs[1].min = 0 /\ FieldSpecs[1].max = 59
    BY DEF FieldSpecs
  <2>2. QED BY <1>1, <1>2, <2>1, FieldValues
<1>4. Values(e[2], FieldSpecs[2]) \in SUBSET (0..23) /\ Values(e[2], FieldSpecs[2]) # {}
  <2>1. FieldSpecs[2].min = 0 /\ FieldSpecs[2].max = 23
    BY DEF FieldSpecs
  <2>2. QED BY <1>1, <1>2, <2>1, FieldValues
<1>5. Values(e[3], FieldSpecs[3]) \in SUBSET (1..31) /\ Values(e[3], FieldSpecs[3]) # {}
  <2>1. FieldSpecs[3].min = 1 /\ FieldSpecs[3].max = 31
    BY DEF FieldSpecs
  <2>2. QED BY <1>1, <1>2, <2>1, FieldValues
<1>6. Values(e[4], FieldSpecs[4]) \in SUBSET (1..12) /\ Values(e[4], FieldSpecs[4]) # {}
  <2>1. FieldSpecs[4].min = 1 /\ FieldSpecs[4].max = 12
    BY DEF FieldSpecs
  <2>2. QED BY <1>1, <1>2, <2>1, FieldValues
<1>7. Values(e[5], FieldSpecs[5]) \in SUBSET (0..6) /\ Values(e[5], FieldSpecs[5]) # {}
  <2>1. FieldSpecs[5].min = 0 /\ FieldSpecs[5].max = 6
    BY DEF FieldSpecs
  <2>2. QED BY <1>1, <1>2, <2>1, FieldValues
<1>8. QED BY <1>3, <1>4, <1>5, <1>6, <1>7 DEF ParseExpression

(* The scan starts at a date whose year and the four after it belong to    *)
(* the calendar; in UTC it is the minute after the reference.              *)
LEMMA StartDate ==
  ASSUME NEW r \in References, NEW z \in Zones,
         NEW c, c = DateParts(r \div 60 + 1, z)
  PROVE  /\ c \in Cursors
         /\ c.day <= MonthDays(c.year, c.month)
         /\ c.year..(c.year + 4) \subseteq Years
         /\ z.name = "UTC" => c \in Dates /\ Utc(c) = r \div 60 + 1
<1> DEFINE t == r \div 60 + 1
<1>1. t \in Int /\ z.offset \in Int /\ z.saving \in Int
  BY ClockAssumption, ReachAssumption
<1>2. ASSUME NEW s \in {0, z.saving}
      PROVE  /\ CivilTime[t + z.offset + s] \in Dates
             /\ Utc(CivilTime[t + z.offset + s]) = t + z.offset + s
             /\ CivilTime[t + z.offset + s].year..
                  (CivilTime[t + z.offset + s].year + 4) \subseteq Years
  <2>1. PICK mo \in Months : /\ Contains(mo, t + z.offset + s)
                             /\ mo[1]..(mo[1] + 4) \subseteq Years
    BY ReachAssumption
  <2>2. PICK y \in Years, m \in 1..12 : mo = <<y, m>>
    BY DEF Months
  <2>3. t + z.offset + s \in Int
    BY <1>1
  <2>4. /\ CivilTime[t + z.offset + s] \in Dates
        /\ Utc(CivilTime[t + z.offset + s]) = t + z.offset + s
        /\ CivilTime[t + z.offset + s].year = y
    BY <2>1, <2>2, <2>3, CivilDate
  <2>5. QED BY <2>1, <2>2, <2>4
<1>3. \A p \in Dates : /\ p \in Cursors /\ p.day <= MonthDays(p.year, p.month)
  <2>1. TAKE p \in Dates
  <2>2. /\ p \in [year : Years, month : 1..12, day : 1..31, hour : 0..23,
                 minute : 0..59]
        /\ p.day <= MonthDays(p.year, p.month)
    BY DEF Dates
  <2>3. Years \subseteq Int /\ 0..23 \subseteq 0..24
    BY CalendarAssumption
  <2>4. QED BY <2>2, <2>3 DEF Cursors
<1>4. CASE z.name = "UTC"
  <2>1. z.offset = 0
    BY <1>4, ReachAssumption
  <2>2. t + z.offset + 0 = t
    BY <1>1, <2>1
  <2>3. c = CivilTime[t]
    BY <1>4 DEF DateParts
  <2>4. QED BY <1>2, <1>3, <2>2, <2>3
<1>5. CASE z.name # "UTC"
  <2>1. PICK s \in {0, z.saving} : LocalTime(t, z) = CivilTime[t + z.offset + s]
    BY DEF LocalTime
  <2>2. PICK p : p = LocalTime(t, z)
    OBVIOUS
  <2>3. /\ p \in Dates /\ p.year..(p.year + 4) \subseteq Years
    BY <1>2, <2>1, <2>2
  <2>4. c = p \/ c = [p EXCEPT !.hour = Midnight]
    BY <1>5, <2>2 DEF DateParts
  <2>5. QED BY <1>3, <1>5, <2>3, <2>4, ClockAssumption DEF Cursors
<1>6. QED BY <1>4, <1>5

-----------------------------------------------------------------------------
(* The scan                                                                *)

(* No matching minute after the reference lies from c up to d.             *)
PassesNothing(c, d) ==
  zone.name = "UTC" =>
    \A p \in Matching : After(p) /\ ~Before(p, c) => ~Before(p, d)

LEMMA MatchingDates ==
  ASSUME TypeOK, Scanning, NEW p \in Matching
  PROVE  /\ p \in Dates
         /\ p.month \in fields.months /\ p.day \in fields.daysOfMonth
         /\ p.hour \in fields.hours /\ p.minute \in fields.minutes
         /\ DayOfWeek(p) \in fields.daysOfWeek
<1>1. /\ p \in [year : Years, month : fields.months, day : fields.daysOfMonth,
                hour : fields.hours, minute : fields.minutes]
      /\ p.day <= MonthDays(p.year, p.month)
      /\ DayOfWeek(p) \in fields.daysOfWeek
  BY DEF Matching
<1>2. /\ fields.months \subseteq 1..12 /\ fields.daysOfMonth \subseteq 1..31
      /\ fields.hours \subseteq 0..23 /\ fields.minutes \subseteq 0..59
  BY DEF TypeOK
<1>3. p \in [year : Years, month : 1..12, day : 1..31, hour : 0..23,
            minute : 0..59]
  BY <1>1, <1>2
<1>4. QED BY <1>1, <1>3 DEF Dates

(* What is left to show for a step of the scan.                            *)
LEMMA ScanStep ==
  ASSUME IInv,
         NEW from \in {"month", "day", "weekday", "hour", "minute", "build"},
         NEW to \in {"month", "day", "weekday", "hour", "minute", "build",
                     "gaveUp"},
         Scan(from, to),
         cursor' \in Cursors,
         cursor'.year \in Years => cursor'.day <= MonthDays(cursor'.year, cursor'.month),
         cursor.year <= cursor'.year /\ cursor'.year <= maxYear + 1,
         to \notin {"month", "gaveUp"} => cursor'.year <= maxYear,
         to = "gaveUp" => cursor'.year > maxYear,
         FoundInv',
         PassesNothing(cursor, cursor')
  PROVE  IInv'
<1>1. /\ Scanning /\ Scanning'
      /\ phase = from /\ phase' = to
      /\ expression' = expression /\ zone' = zone /\ reference' = reference
      /\ fields' = fields /\ maxYear' = maxYear /\ result' = result
  BY DEF Scan, Scanning, arguments
<1>2. TypeOK'
  BY <1>1 DEF IInv, TypeOK, Cursors, Ended
<1>3. YearInv'
  BY <1>1, CalendarAssumption DEF IInv, TypeOK, YearInv, Cursors
<1>4. SkipInv'
  <2>1. Matching' = Matching
    BY <1>1 DEF Matching, DayOfWeek
  <2>2. \A p : After(p)' = After(p)
    BY <1>1 DEF After, Utc
  <2>3. zone.name = "UTC" =>
          \A p \in Matching : After(p) => ~Before(p, cursor)
    BY <1>1 DEF IInv, SkipInv
  <2>4. zone.name = "UTC" =>
          \A p \in Matching : After(p) => ~Before(p, cursor')
    BY <2>3 DEF PassesNothing
  <2>5. QED BY <1>1, <2>1, <2>2, <2>4 DEF SkipInv, Before
<1>5. ResultInv'
  BY <1>1 DEF ResultInv
<1>6. QED BY <1>2, <1>3, <1>4, <1>5 DEF IInv

LEMMA InitIInv == Init => IInv
BY DEF Init, IInv, TypeOK, YearInv, FoundInv, SkipInv, ResultInv, Scanning, At,
       Ended

LEMMA StartIInv == IInv /\ Start => IInv'
<1>1. SUFFICES ASSUME IInv, Start PROVE IInv'
  OBVIOUS
<1>2. /\ expression' = expression /\ zone' = zone /\ reference' = reference
      /\ phase' = "month" /\ fields' = ParseExpression(expression)
      /\ cursor' = DateParts(reference \div 60 + 1, zone)
      /\ maxYear' = cursor'.year + 4
      /\ expression \in Expressions /\ zone \in Zones /\ reference \in References
  BY <1>1 DEF Start, arguments, IInv, TypeOK
<1>3. /\ cursor' \in Cursors
      /\ cursor'.day <= MonthDays(cursor'.year, cursor'.month)
      /\ cursor'.year..(cursor'.year + 4) \subseteq Years
      /\ zone.name = "UTC" =>
           cursor' \in Dates /\ Utc(cursor') = reference \div 60 + 1
  <2>1. PICK c : c = cursor'
    OBVIOUS
  <2>2. QED BY <1>2, <2>1, StartDate
<1>4. TypeOK'
  <2>1. /\ fields' \in [minutes : SUBSET (0..59), hours : SUBSET (0..23),
                        daysOfMonth : SUBSET (1..31), months : SUBSET (1..12),
                        daysOfWeek : SUBSET (0..6)]
        /\ {} \notin {fields'.minutes, fields'.hours, fields'.daysOfMonth,
                      fields'.months, fields'.daysOfWeek}
    BY <1>1, <1>2, Parsed DEF Start
  <2>2. maxYear' \in Int
    BY <1>2, <1>3 DEF Cursors
  <2>3. QED BY <1>2, <1>3, <2>1, <2>2 DEF TypeOK, Cursors, Ended
<1>5. YearInv'
  BY <1>2, <1>3 DEF YearInv, Cursors
<1>6. FoundInv' /\ ResultInv'
  BY <1>2 DEF FoundInv, ResultInv
<1>7. SkipInv'
  <2>1. SUFFICES ASSUME zone.name = "UTC", NEW p \in Matching', After(p)'
                 PROVE  ~Before(p, cursor')
    BY <1>2 DEF SkipInv, Before
  <2>2. p \in Dates
    <3>1. /\ p \in [year : Years, month : fields'.months,
                    day : fields'.daysOfMonth, hour : fields'.hours,
                    minute : fields'.minutes]
          /\ p.day <= MonthDays(p.year, p.month)
      BY <2>1 DEF Matching
    <3>2. /\ fields'.months \subseteq 1..12 /\ fields'.daysOfMonth \subseteq 1..31
          /\ fields'.hours \subseteq 0..23 /\ fields'.minutes \subseteq 0..59
      BY <1>4 DEF TypeOK
    <3>3. p \in [year : Years, month : 1..12, day : 1..31, hour : 0..23,
                minute : 0..59]
      BY <3>1, <3>2
    <3>4. QED BY <3>1, <3>3 DEF Dates
  <2>3. Utc(p) * 60 > reference
    BY <1>2, <2>1 DEF After, Utc
  <2>4. Utc(p) \in Int /\ reference \in Int
    BY <1>2, <2>2, UtcType, ClockAssumption
  <2>5. ~(Utc(p) < reference \div 60 + 1)
    BY <2>3, <2>4
  <2>6. QED BY <1>3, <2>1, <2>2, <2>5, Chronology
<1>8. QED BY <1>4, <1>5, <1>6, <1>7 DEF IInv

LEMMA NextMonthStep ==
  ASSUME NEW c \in Cursors, c.year < maxYear + 1, maxYear \in Int,
         (maxYear - 4)..maxYear \subseteq Years, maxYear - 4 <= c.year
  PROVE  /\ NextMonth(c) \in Cursors
         /\ NextMonth(c).year \in Years =>
              NextMonth(c).day <= MonthDays(NextMonth(c).year, NextMonth(c).month)
         /\ c.year <= NextMonth(c).year /\ NextMonth(c).year <= maxYear + 1
<1>1. NextMonth(c) \in Cursors /\ NextMonth(c).day = 1
  BY DEF NextMonth, At, Cursors
<1>2. c.year <= NextMonth(c).year /\ NextMonth(c).year <= maxYear + 1
  BY DEF NextMonth, At, Cursors
<1>3. ASSUME NextMonth(c).year \in Years
      PROVE  1 <= MonthDays(NextMonth(c).year, NextMonth(c).month)
  <2>1. NextMonth(c).month \in 1..12
    BY <1>1 DEF Cursors
  <2>2. MonthDays(NextMonth(c).year, NextMonth(c).month) \in 28..31
    BY <1>3, <2>1, CalendarAssumption
  <2>3. QED BY <2>2
<1>4. QED BY <1>1, <1>2, <1>3

LEMMA NextDayStep ==
  ASSUME NEW c \in Cursors, c.year < maxYear + 1, maxYear \in Int,
         (maxYear - 4)..maxYear \subseteq Years, maxYear - 4 <= c.year
  PROVE  /\ NextDay(c) \in Cursors
         /\ NextDay(c).year \in Years =>
              NextDay(c).day <= MonthDays(NextDay(c).year, NextDay(c).month)
         /\ c.year <= NextDay(c).year /\ NextDay(c).year <= maxYear + 1
<1>1. c.year \in Years /\ c.month \in 1..12 /\ c.day \in 1..31 /\ c.year \in Int
  BY DEF Cursors
<1>2. MonthDays(c.year, c.month) \in 28..31
  BY <1>1, CalendarAssumption
<1>3. CASE c.day < MonthDays(c.year, c.month)
  <2>1. NextDay(c) = At(c.year, c.month, c.day + 1, 0, 0)
    BY <1>3 DEF NextDay
  <2>2. c.day + 1 \in 1..31 /\ c.day + 1 <= MonthDays(c.year, c.month)
    BY <1>1, <1>2, <1>3
  <2>3. At(c.year, c.month, c.day + 1, 0, 0) \in Cursors
    BY <1>1, <2>2 DEF At, Cursors
  <2>4. QED BY <1>1, <2>1, <2>2, <2>3 DEF At
<1>4. CASE ~(c.day < MonthDays(c.year, c.month))
  BY <1>4, NextMonthStep DEF NextDay
<1>5. QED BY <1>3, <1>4

(* The facts that every step of the scan uses.                             *)
LEMMA ScanFacts ==
  ASSUME IInv, Scanning
  PROVE  /\ cursor \in Cursors /\ maxYear \in Int
         /\ (maxYear - 4)..maxYear \subseteq Years
         /\ maxYear - 4 <= cursor.year /\ cursor.year <= maxYear + 1
         /\ cursor.year \in Years =>
              cursor.day <= MonthDays(cursor.year, cursor.month)
         /\ cursor.year <= maxYear => cursor.year \in Years
         /\ fields.months \subseteq 1..12 /\ fields.daysOfMonth \subseteq 1..31
         /\ fields.hours \subseteq 0..23 /\ fields.minutes \subseteq 0..59
         /\ \A p \in Matching :
              /\ p.year \in Int /\ p.month \in fields.months
              /\ p.day \in fields.daysOfMonth /\ p.hour \in fields.hours
              /\ p.minute \in fields.minutes
              /\ DayOfWeek(p) \in fields.daysOfWeek
              /\ p.day <= MonthDays(p.year, p.month)
<1>1. /\ cursor \in Cursors /\ maxYear \in Int
      /\ (maxYear - 4)..maxYear \subseteq Years
      /\ maxYear - 4 <= cursor.year /\ cursor.year <= maxYear + 1
      /\ cursor.year \in Years =>
           cursor.day <= MonthDays(cursor.year, cursor.month)
      /\ fields.months \subseteq 1..12 /\ fields.daysOfMonth \subseteq 1..31
      /\ fields.hours \subseteq 0..23 /\ fields.minutes \subseteq 0..59
  BY DEF IInv, TypeOK, YearInv, Scanning, Cursors
<1>2. cursor.year <= maxYear => cursor.year \in Years
  BY <1>1 DEF Cursors
<1>3. ASSUME NEW p \in Matching
      PROVE  /\ p.year \in Int /\ p.month \in fields.months
             /\ p.day \in fields.daysOfMonth /\ p.hour \in fields.hours
             /\ p.minute \in fields.minutes
             /\ DayOfWeek(p) \in fields.daysOfWeek
             /\ p.day <= MonthDays(p.year, p.month)
  BY CalendarAssumption DEF Matching
<1>4. QED BY <1>1, <1>2, <1>3

(* A move to the first minute of the next month, or of a later month, when *)
(* nothing matches in the rest of this one.                                *)
LEMMA SkipMonth ==
  ASSUME IInv, Scanning, cursor.year <= maxYear,
         \A p \in Matching :
           ~Before(p, cursor) =>
             ~(p.year = cursor.year /\ p.month = cursor.month)
  PROVE  PassesNothing(cursor, NextMonth(cursor))
BY ScanFacts DEF PassesNothing, NextMonth, At, Before, Cursors

LEMMA SkipRestOfDay ==
  ASSUME IInv, Scanning, cursor.year <= maxYear,
         \A p \in Matching :
           ~Before(p, cursor) =>
             ~(p.year = cursor.year /\ p.month = cursor.month /\ p.day = cursor.day)
  PROVE  PassesNothing(cursor, NextDay(cursor))
<1>1. CASE cursor.day < MonthDays(cursor.year, cursor.month)
  BY <1>1, ScanFacts DEF PassesNothing, NextDay, At, Before, Cursors
<1>2. CASE ~(cursor.day < MonthDays(cursor.year, cursor.month))
  <2>1. MonthDays(cursor.year, cursor.month) \in 28..31
    BY ScanFacts, CalendarAssumption DEF Cursors
  <2>2. \A p \in Matching :
          ~Before(p, cursor) =>
            ~(p.year = cursor.year /\ p.month = cursor.month)
    BY <1>2, <2>1, ScanFacts DEF Before, Cursors
  <2>3. NextDay(cursor) = NextMonth(cursor)
    BY <1>2 DEF NextDay
  <2>4. QED BY <2>2, <2>3, SkipMonth
<1>3. QED BY <1>1, <1>2

-----------------------------------------------------------------------------
(* One lemma per kind of step                                              *)

LEMMA MonthSteps ==
  ASSUME IInv, NEW m \in 1..12, FindMonth(m) \/ OverflowMonth(m)
  PROVE  IInv'
<1>1. /\ Scanning /\ phase = "month" /\ cursor.year <= maxYear
      /\ fields' = fields
  BY DEF Scanning, FindMonth, OverflowMonth, Scan
<1>2. /\ cursor.year \in Int /\ cursor.month \in 1..12
      /\ cursor.year \in Years /\ maxYear \in Int
  BY <1>1, ScanFacts DEF Cursors
<1>3. ASSUME NEW y \in Years PROVE 1 <= MonthDays(y, m)
  <2>1. MonthDays(y, m) \in 28..31
    BY CalendarAssumption
  <2>2. QED BY <2>1
<1>4. CASE FindMonth(m)
  <2>1. IsNext(m, fields.months, cursor.month) /\ Scan("month", "day")
    BY <1>4 DEF FindMonth
  <2>2. CASE m > cursor.month
    <3>1. cursor' = At(cursor.year, m, 1, 0, 0)
      BY <1>4, <2>2 DEF FindMonth
    <3>2. cursor' \in Cursors
      BY <1>2, <3>1 DEF At, Cursors
    <3>3. FoundInv'
      BY <1>1, <2>1, <3>1 DEF FoundInv, Scan, At, IsNext
    <3>4. PassesNothing(cursor, cursor')
      BY <1>1, <2>1, <2>2, <3>1, ScanFacts
      DEF PassesNothing, Before, At, IsNext, Cursors
    <3>5. /\ cursor'.year = cursor.year
          /\ cursor'.day <= MonthDays(cursor'.year, cursor'.month)
      BY <1>2, <1>3, <3>1 DEF At
    <3>6. QED BY <1>1, <1>2, <2>1, <3>2, <3>3, <3>4, <3>5, ScanStep
  <2>3. CASE ~(m > cursor.month)
    <3>1. cursor' = cursor /\ m = cursor.month
      BY <1>2, <1>4, <2>1, <2>3 DEF FindMonth, IsNext
    <3>2. FoundInv'
      BY <1>1, <2>1, <3>1 DEF FoundInv, Scan, IsNext
    <3>3. PassesNothing(cursor, cursor')
      BY <3>1 DEF PassesNothing
    <3>4. QED BY <1>1, <1>2, <2>1, <3>1, <3>2, <3>3, ScanFacts, ScanStep
  <2>4. QED BY <2>2, <2>3
<1>5. CASE OverflowMonth(m)
  <2>1. /\ cursor' = At(cursor.year + 1, m, 1, 0, 0) /\ Scan("month", "month")
        /\ IsNext(m, fields.months, 1) /\ NoneLeft(fields.months, cursor.month)
    BY <1>5 DEF OverflowMonth
  <2>2. cursor' \in Cursors
    BY <1>2, <2>1 DEF At, Cursors
  <2>3. FoundInv'
    BY <2>1 DEF FoundInv, Scan
  <2>4. PassesNothing(cursor, cursor')
    BY <1>1, <2>1, ScanFacts
    DEF PassesNothing, Before, At, IsNext, NoneLeft, Cursors
  <2>5. /\ cursor'.year = cursor.year + 1
        /\ cursor'.year \in Years =>
             cursor'.day <= MonthDays(cursor'.year, cursor'.month)
    BY <1>3, <2>1 DEF At
  <2>6. QED BY <1>1, <1>2, <2>1, <2>2, <2>3, <2>4, <2>5, ScanStep
<1>6. QED BY <1>4, <1>5

LEMMA DaySteps ==
  ASSUME IInv, (\E d \in 1..31 : FindDay(d)) \/ OverflowDay
  PROVE  IInv'
<1>1. /\ Scanning /\ phase = "day" /\ fields' = fields
  BY DEF Scanning, FindDay, OverflowDay, Scan
<1>2. /\ cursor.year <= maxYear /\ cursor.month \in fields.months
      /\ cursor.year \in Int /\ cursor.month \in 1..12 /\ cursor.day \in 1..31
      /\ maxYear \in Int
  BY <1>1, ScanFacts DEF IInv, YearInv, FoundInv, Cursors
<1>3. ASSUME NEW d \in 1..31, FindDay(d)
      PROVE  IInv'
  <2>1. IsNext(d, ValidDays, cursor.day) /\ Scan("day", "weekday")
    BY <1>3 DEF FindDay
  <2>2. /\ d \in fields.daysOfMonth /\ d <= MonthDays(cursor.year, cursor.month)
        /\ d >= cursor.day
    BY <2>1 DEF IsNext, ValidDays
  <2>3. CASE d > cursor.day
    <3>1. cursor' = At(cursor.year, cursor.month, d, 0, 0)
      BY <1>3, <2>3 DEF FindDay
    <3>2. cursor' \in Cursors
      BY <1>2, <3>1 DEF At, Cursors
    <3>3. FoundInv'
      BY <1>1, <1>2, <2>1, <2>2, <3>1 DEF FoundInv, Scan, At
    <3>4. PassesNothing(cursor, cursor')
      <4>1. SUFFICES ASSUME NEW p \in Matching, ~Before(p, cursor)
                     PROVE  ~Before(p, cursor')
        BY DEF PassesNothing
      <4>2. p.year = cursor.year /\ p.month = cursor.month =>
              p.day \in ValidDays /\ p.day >= cursor.day
        BY <1>1, <1>2, <4>1, ScanFacts DEF ValidDays, Before
      <4>3. p.year = cursor.year /\ p.month = cursor.month => p.day >= d
        BY <2>1, <4>2 DEF IsNext
      <4>4. QED BY <1>1, <1>2, <3>1, <4>1, <4>3, ScanFacts DEF Before, At
    <3>5. /\ cursor'.year = cursor.year
          /\ cursor'.day <= MonthDays(cursor'.year, cursor'.month)
      BY <2>2, <3>1 DEF At
    <3>6. QED BY <1>1, <1>2, <2>1, <3>2, <3>3, <3>4, <3>5, ScanStep
  <2>4. CASE ~(d > cursor.day)
    <3>1. cursor' = cursor /\ d = cursor.day
      BY <1>2, <1>3, <2>2, <2>4 DEF FindDay
    <3>2. FoundInv'
      BY <1>1, <1>2, <2>1, <2>2, <3>1 DEF FoundInv, Scan
    <3>3. PassesNothing(cursor, cursor')
      BY <3>1 DEF PassesNothing
    <3>4. QED BY <1>1, <1>2, <2>1, <3>1, <3>2, <3>3, ScanFacts, ScanStep
  <2>5. QED BY <2>3, <2>4
<1>4. CASE OverflowDay
  <2>1. /\ NoneLeft(ValidDays, cursor.day) /\ cursor' = NextMonth(cursor)
        /\ Scan("day", "month")
    BY <1>4 DEF OverflowDay
  <2>2. \A p \in Matching :
          ~Before(p, cursor) =>
            ~(p.year = cursor.year /\ p.month = cursor.month)
    BY <1>1, <1>2, <2>1, ScanFacts DEF NoneLeft, ValidDays, Before
  <2>3. FoundInv'
    BY <2>1 DEF FoundInv, Scan
  <2>4. /\ cursor' \in Cursors
        /\ cursor'.year \in Years =>
             cursor'.day <= MonthDays(cursor'.year, cursor'.month)
        /\ cursor.year <= cursor'.year /\ cursor'.year <= maxYear + 1
    BY <1>1, <1>2, <2>1, ScanFacts, NextMonthStep
  <2>5. PassesNothing(cursor, cursor')
    BY <1>1, <1>2, <2>1, <2>2, SkipMonth
  <2>6. QED BY <2>1, <2>3, <2>4, <2>5, ScanStep
<1>5. QED BY <1>3, <1>4

LEMMA SkipDayStep ==
  ASSUME IInv, NEW from \in {"weekday", "hour"}, Scan(from, "month"),
         cursor' = NextDay(cursor),
         \A p \in Matching :
           ~Before(p, cursor) =>
             ~(p.year = cursor.year /\ p.month = cursor.month /\ p.day = cursor.day)
  PROVE  IInv'
<1>1. Scanning /\ phase = from
  BY DEF Scanning, Scan
<1>2. cursor.year <= maxYear /\ cursor.year \in Int /\ maxYear \in Int
  BY <1>1, ScanFacts DEF IInv, YearInv, Cursors
<1>3. FoundInv'
  BY DEF FoundInv, Scan
<1>4. /\ cursor' \in Cursors
      /\ cursor'.year \in Years =>
           cursor'.day <= MonthDays(cursor'.year, cursor'.month)
      /\ cursor.year <= cursor'.year /\ cursor'.year <= maxYear + 1
  BY <1>1, <1>2, ScanFacts, NextDayStep
<1>5. PassesNothing(cursor, cursor')
  BY <1>1, <1>2, SkipRestOfDay
<1>6. QED BY <1>3, <1>4, <1>5, ScanStep

LEMMA WeekdaySteps ==
  ASSUME IInv, CheckWeekday \/ SkipDay
  PROVE  IInv'
<1>1. Scanning /\ phase = "weekday"
  BY DEF Scanning, CheckWeekday, SkipDay, Scan
<1>2. CASE CheckWeekday
  <2>1. cursor' = cursor /\ Scan("weekday", "hour")
    BY <1>2 DEF CheckWeekday
  <2>2. FoundInv'
    BY <1>1, <1>2, <2>1 DEF CheckWeekday, IInv, FoundInv, Scan, DayOfWeek
  <2>3. PassesNothing(cursor, cursor')
    BY <2>1 DEF PassesNothing
  <2>4. cursor.year <= maxYear /\ cursor.year \in Int /\ maxYear \in Int
    BY <1>1, ScanFacts DEF IInv, YearInv, Cursors
  <2>5. QED BY <1>1, <2>1, <2>2, <2>3, <2>4, ScanFacts, ScanStep
<1>3. CASE SkipDay
  <2>1. \A p \in Matching :
          ~(p.year = cursor.year /\ p.month = cursor.month /\ p.day = cursor.day)
    BY <1>1, <1>3, ScanFacts DEF SkipDay, DayOfWeek
  <2>2. QED BY <1>3, <2>1, SkipDayStep DEF SkipDay
<1>4. QED BY <1>2, <1>3

LEMMA HourSteps ==
  ASSUME IInv, (\E h \in 0..23 : FindHour(h)) \/ OverflowHour
  PROVE  IInv'
<1>1. /\ Scanning /\ phase = "hour" /\ fields' = fields
  BY DEF Scanning, FindHour, OverflowHour, Scan
<1>2. /\ cursor.month \in fields.months /\ cursor.day \in fields.daysOfMonth
      /\ DayOfWeek(cursor) \in fields.daysOfWeek
      /\ cursor.year <= maxYear /\ cursor.year \in Years
      /\ cursor.day <= MonthDays(cursor.year, cursor.month)
      /\ cursor.year \in Int /\ cursor.month \in 1..12 /\ cursor.day \in 1..31
      /\ cursor.hour \in 0..24 /\ maxYear \in Int
  BY <1>1, ScanFacts DEF IInv, YearInv, FoundInv, Cursors
<1>3. ASSUME NEW h \in 0..23, FindHour(h)
      PROVE  IInv'
  <2>1. IsNext(h, fields.hours, cursor.hour) /\ Scan("hour", "minute")
    BY <1>3 DEF FindHour
  <2>2. CASE h > cursor.hour
    <3>1. cursor' = At(cursor.year, cursor.month, cursor.day, h, 0)
      BY <1>3, <2>2 DEF FindHour
    <3>2. cursor' \in Cursors
      BY <1>2, <3>1 DEF At, Cursors
    <3>3. FoundInv'
      BY <1>1, <1>2, <2>1, <3>1 DEF FoundInv, Scan, At, IsNext, DayOfWeek
    <3>4. PassesNothing(cursor, cursor')
      <4>1. SUFFICES ASSUME NEW p \in Matching, ~Before(p, cursor)
                     PROVE  ~Before(p, cursor')
        BY DEF PassesNothing
      <4>2. p.year = cursor.year /\ p.month = cursor.month /\ p.day = cursor.day
              => p.hour \in fields.hours /\ p.hour >= cursor.hour
        BY <1>1, <1>2, <4>1, ScanFacts DEF Before
      <4>3. p.year = cursor.year /\ p.month = cursor.month /\ p.day = cursor.day
              => p.hour >= h
        BY <2>1, <4>2 DEF IsNext
      <4>4. QED BY <1>1, <1>2, <3>1, <4>1, <4>3, ScanFacts DEF Before, At
    <3>5. /\ cursor'.year = cursor.year
          /\ cursor'.day <= MonthDays(cursor'.year, cursor'.month)
      BY <1>2, <3>1 DEF At
    <3>6. QED BY <1>1, <1>2, <2>1, <3>2, <3>3, <3>4, <3>5, ScanStep
  <2>3. CASE ~(h > cursor.hour)
    <3>1. cursor' = cursor /\ h = cursor.hour
      BY <1>2, <1>3, <2>1, <2>3 DEF FindHour, IsNext
    <3>2. FoundInv'
      BY <1>1, <1>2, <2>1, <3>1 DEF FoundInv, Scan, IsNext, DayOfWeek
    <3>3. PassesNothing(cursor, cursor')
      BY <3>1 DEF PassesNothing
    <3>4. QED BY <1>1, <1>2, <2>1, <3>1, <3>2, <3>3, ScanFacts, ScanStep
  <2>4. QED BY <2>2, <2>3
<1>4. CASE OverflowHour
  <2>1. NoneLeft(fields.hours, cursor.hour)
    BY <1>4 DEF OverflowHour
  <2>2. \A p \in Matching :
          ~Before(p, cursor) =>
            ~(p.year = cursor.year /\ p.month = cursor.month /\ p.day = cursor.day)
    BY <1>1, <1>2, <2>1, ScanFacts DEF NoneLeft, Before
  <2>3. QED BY <1>4, <2>2, SkipDayStep DEF OverflowHour
<1>5. QED BY <1>3, <1>4

(* Moving to the next hour when no minute is left in this one.  The hour   *)
(* found is at most 23.                                                    *)
LEMMA MinuteSteps ==
  ASSUME IInv, (\E m \in 0..59 : FindMinute(m)) \/ OverflowMinute
  PROVE  IInv'
<1>1. /\ Scanning /\ phase = "minute" /\ fields' = fields
  BY DEF Scanning, FindMinute, OverflowMinute, Scan
<1>2. /\ cursor.month \in fields.months /\ cursor.day \in fields.daysOfMonth
      /\ DayOfWeek(cursor) \in fields.daysOfWeek /\ cursor.hour \in fields.hours
      /\ cursor.year <= maxYear /\ cursor.year \in Years
      /\ cursor.day <= MonthDays(cursor.year, cursor.month)
      /\ cursor.hour \in 0..23 /\ cursor.minute \in 0..59
      /\ cursor \in Cursors /\ cursor.year \in Int /\ maxYear \in Int
  BY <1>1, ScanFacts DEF IInv, YearInv, FoundInv, Cursors
<1>3. ASSUME NEW m \in 0..59, FindMinute(m)
      PROVE  IInv'
  <2>1. /\ IsNext(m, fields.minutes, cursor.minute) /\ Scan("minute", "build")
        /\ cursor' = [cursor EXCEPT !.minute = m]
    BY <1>3 DEF FindMinute
  <2>2. /\ cursor' \in Cursors /\ cursor'.year = cursor.year
        /\ cursor'.month = cursor.month /\ cursor'.day = cursor.day
        /\ cursor'.hour = cursor.hour /\ cursor'.minute = m
    BY <1>2, <2>1 DEF Cursors
  <2>3. FoundInv'
    BY <1>1, <1>2, <2>1, <2>2 DEF FoundInv, Scan, IsNext, DayOfWeek
  <2>4. PassesNothing(cursor, cursor')
    BY <1>1, <1>2, <2>1, <2>2, ScanFacts DEF PassesNothing, Before, IsNext
  <2>5. QED BY <1>1, <1>2, <2>1, <2>2, <2>3, <2>4, ScanStep
<1>4. CASE OverflowMinute
  <2>1. /\ NoneLeft(fields.minutes, cursor.minute) /\ Scan("minute", "month")
        /\ cursor' = [cursor EXCEPT !.hour = @ + 1, !.minute = 0]
    BY <1>4 DEF OverflowMinute
  <2>2. /\ cursor' \in Cursors /\ cursor'.year = cursor.year
        /\ cursor'.month = cursor.month /\ cursor'.day = cursor.day
        /\ cursor'.hour = cursor.hour + 1 /\ cursor'.minute = 0
    <3>1. cursor.hour + 1 \in 0..24 /\ 0 \in 0..59
      BY <1>2
    <3>2. QED BY <1>2, <2>1, <3>1 DEF Cursors
  <2>3. FoundInv'
    BY <2>1 DEF FoundInv, Scan
  <2>4. PassesNothing(cursor, cursor')
    BY <1>1, <1>2, <2>1, <2>2, ScanFacts DEF PassesNothing, Before, NoneLeft
  <2>5. QED BY <1>1, <1>2, <2>1, <2>2, <2>3, <2>4, ScanStep
<1>5. QED BY <1>3, <1>4

LEMMA GiveUpStep ==
  ASSUME IInv, GiveUp
  PROVE  IInv'
<1>1. /\ Scanning /\ cursor' = cursor /\ Scan("month", "gaveUp")
      /\ cursor.year > maxYear
  BY DEF GiveUp, Scanning, Scan
<1>2. FoundInv'
  BY <1>1 DEF FoundInv, Scan
<1>3. PassesNothing(cursor, cursor')
  BY <1>1 DEF PassesNothing
<1>4. cursor.year \in Int
  BY <1>1, ScanFacts DEF Cursors
<1>5. QED BY <1>1, <1>2, <1>3, <1>4, ScanFacts, ScanStep

(* Another minute is tried only when the result is not after the           *)
(* reference; in UTC the minute left behind is not after it either.        *)
LEMMA AdvanceStep ==
  ASSUME IInv, Advance
  PROVE  IInv'
<1>1. Scanning /\ phase = "build" /\ Scan("build", "month")
  BY DEF Scanning, Advance, Scan
<1>2. /\ cursor.hour \in 0..23 /\ cursor.minute \in 0..59
      /\ cursor.year <= maxYear /\ cursor.year \in Years
      /\ cursor.day <= MonthDays(cursor.year, cursor.month)
      /\ cursor \in Cursors /\ cursor.year \in Int /\ maxYear \in Int
  BY <1>1, ScanFacts DEF IInv, YearInv, FoundInv, Cursors
<1>3. /\ cursor' \in Cursors /\ cursor'.year = cursor.year
      /\ cursor'.month = cursor.month /\ cursor'.day = cursor.day
      /\ \/ /\ cursor.minute = 59 /\ cursor'.minute = 0
            /\ cursor'.hour = cursor.hour + 1
         \/ /\ cursor.minute < 59 /\ cursor'.minute = cursor.minute + 1
            /\ cursor'.hour = cursor.hour
  <2>1. CASE cursor.minute = 59
    <3>1. cursor.hour + 1 \in 0..24 /\ 0 \in 0..59
      BY <1>2
    <3>2. QED BY <1>2, <2>1, <3>1 DEF Advance, Cursors
  <2>2. CASE cursor.minute # 59
    <3>1. cursor.minute + 1 \in 0..59 /\ cursor.minute < 59
      BY <1>2, <2>2
    <3>2. QED BY <1>2, <2>2, <3>1 DEF Advance, Cursors
  <2>3. QED BY <2>1, <2>2
<1>4. FoundInv'
  BY <1>1 DEF FoundInv, Scan
<1>5. PassesNothing(cursor, cursor')
  <2>1. SUFFICES ASSUME zone.name = "UTC", NEW p \in Matching, After(p),
                        ~Before(p, cursor)
                 PROVE  ~Before(p, cursor')
    BY DEF PassesNothing
  <2>2. ~(Utc(cursor) * 60 > reference)
    <3>1. BuildTimestamp(cursor, zone) = Utc(cursor)
      BY <2>1 DEF BuildTimestamp
    <3>2. cursor \in Dates
      BY <1>2 DEF Dates, Cursors
    <3>3. Utc(cursor) \in Int /\ reference \in Int
      BY <3>2, UtcType, ClockAssumption DEF IInv, TypeOK
    <3>4. PICK u \in Int : u = Utc(cursor)
      BY <3>3
    <3>5. u * 60 <= reference
      BY <3>1, <3>4 DEF Advance
    <3>6. ~(u * 60 > reference)
      BY <3>3, <3>5
    <3>7. QED BY <3>4, <3>6
  <2>3. ~(/\ p.year = cursor.year /\ p.month = cursor.month
          /\ p.day = cursor.day /\ p.hour = cursor.hour
          /\ p.minute = cursor.minute)
    BY <2>1, <2>2 DEF After, Utc
  <2>4. /\ p.year \in Int /\ p.month \in Int /\ p.day \in Int
        /\ p.hour \in Int /\ p.minute \in 0..59
    BY <1>1, ScanFacts
  <2>5. QED BY <1>2, <1>3, <2>1, <2>3, <2>4 DEF Before, Cursors
<1>6. QED BY <1>1, <1>2, <1>3, <1>4, <1>5, ScanStep

LEMMA ReturnStep ==
  ASSUME IInv, Return
  PROVE  IInv'
<1>1. /\ phase = "build" /\ phase' = "done"
      /\ expression' = expression /\ zone' = zone /\ reference' = reference
      /\ fields' = fields /\ cursor' = cursor /\ maxYear' = maxYear
      /\ result' = BuildTimestamp(cursor, zone)
      /\ BuildTimestamp(cursor, zone) * 60 > reference
  BY DEF Return, arguments
<1>2. TypeOK' /\ YearInv' /\ FoundInv'
  BY <1>1 DEF IInv, TypeOK, YearInv, FoundInv, Scanning, DayOfWeek, Ended
<1>3. SkipInv'
  <2>1. Matching' = Matching
    BY <1>1 DEF Matching, DayOfWeek
  <2>2. \A p : After(p)' = After(p)
    BY <1>1 DEF After, Utc
  <2>3. QED BY <1>1, <2>1, <2>2 DEF IInv, SkipInv, Scanning, Before
<1>4. ResultInv'
  <2>1. zone.name = "UTC" => BuildTimestamp(cursor, zone) = Utc(cursor)
    BY DEF BuildTimestamp
  <2>2. QED BY <1>1, <2>1 DEF ResultInv, After, Utc
<1>5. QED BY <1>2, <1>3, <1>4 DEF IInv

LEMMA RejectStep ==
  ASSUME IInv, Reject
  PROVE  IInv'
<1>1. /\ phase' = "rejected"
      /\ expression' = expression /\ zone' = zone /\ reference' = reference
      /\ fields' = fields /\ cursor' = cursor /\ maxYear' = maxYear
  BY DEF Reject, arguments
<1>2. QED BY <1>1 DEF IInv, TypeOK, YearInv, FoundInv, SkipInv, ResultInv,
                     Scanning, Ended

LEMMA StutterStep ==
  ASSUME IInv, UNCHANGED vars
  PROVE  IInv'
<1>1. /\ phase' = phase /\ expression' = expression /\ zone' = zone
      /\ reference' = reference /\ fields' = fields /\ cursor' = cursor
      /\ maxYear' = maxYear /\ result' = result
  BY DEF vars, arguments
<1>2. Matching' = Matching
  BY <1>1 DEF Matching, DayOfWeek
<1>3. (\A p : After(p)' = After(p)) /\ Utc(cursor)' = Utc(cursor)
      /\ After(cursor)' = After(cursor)
  BY <1>1 DEF After, Utc
<1>4. TypeOK' /\ YearInv' /\ FoundInv'
  BY <1>1 DEF IInv, TypeOK, YearInv, FoundInv, Scanning, DayOfWeek
<1>5. SkipInv' /\ ResultInv'
  BY <1>1, <1>2, <1>3 DEF IInv, SkipInv, ResultInv, Scanning, Before
<1>6. QED BY <1>4, <1>5 DEF IInv

-----------------------------------------------------------------------------
(* The theorems                                                            *)

LEMMA NextIInv == IInv /\ [Next]_vars => IInv'
<1>1. SUFFICES ASSUME IInv, [Next]_vars PROVE IInv'
  OBVIOUS
<1>2. CASE Reject            BY <1>1, <1>2, RejectStep
<1>3. CASE Start             BY <1>1, <1>3, StartIInv
<1>4. CASE GiveUp            BY <1>1, <1>4, GiveUpStep
<1>5. ASSUME NEW m \in 1..12, FindMonth(m) \/ OverflowMonth(m) PROVE IInv'
  BY <1>1, <1>5, MonthSteps
<1>6. CASE (\E d \in 1..31 : FindDay(d)) \/ OverflowDay
  BY <1>1, <1>6, DaySteps
<1>7. CASE CheckWeekday \/ SkipDay
  BY <1>1, <1>7, WeekdaySteps
<1>8. CASE (\E h \in 0..23 : FindHour(h)) \/ OverflowHour
  BY <1>1, <1>8, HourSteps
<1>9. CASE (\E m \in 0..59 : FindMinute(m)) \/ OverflowMinute
  BY <1>1, <1>9, MinuteSteps
<1>10. CASE Return           BY <1>1, <1>10, ReturnStep
<1>11. CASE Advance          BY <1>1, <1>11, AdvanceStep
<1>12. CASE UNCHANGED vars   BY <1>1, <1>12, StutterStep
<1>13. QED
  BY <1>1, <1>2, <1>3, <1>4, <1>5, <1>6, <1>7, <1>8, <1>9, <1>10, <1>11, <1>12
  DEF Next

(* In the end nothing earlier matches: a matching minute after the         *)
(* reference is the cursor or lies behind it.                              *)
LEMMA IInvSearch == IInv => SearchCorrect
<1>1. SUFFICES ASSUME IInv, zone.name = "UTC" PROVE SearchCorrect
  BY DEF SearchCorrect
<1>2. ASSUME phase = "done"
      PROVE  /\ \E p \in Matching : After(p) /\ Utc(p) = result
             /\ \A p \in Matching : After(p) => result <= Utc(p)
  <2>1. Scanning
    BY <1>2 DEF Scanning
  <2>2. cursor \in Matching
    BY <1>1, <1>2, <2>1, ScanFacts
    DEF IInv, YearInv, FoundInv, Matching, Cursors
  <2>3. cursor \in Dates
    BY <1>1, <2>1, <2>2, MatchingDates DEF IInv
  <2>4. result = Utc(cursor) /\ After(cursor)
    BY <1>1, <1>2 DEF IInv, ResultInv
  <2>5. ASSUME NEW p \in Matching, After(p) PROVE Utc(cursor) <= Utc(p)
    <3>1. p \in Dates /\ ~Before(p, cursor)
      BY <1>1, <2>1, <2>5, MatchingDates DEF IInv, SkipInv
    <3>2. CASE Before(cursor, p)
      BY <2>3, <3>1, <3>2, Chronology, UtcType
    <3>3. CASE ~Before(cursor, p)
      <4>1. /\ cursor.year = p.year /\ cursor.month = p.month
            /\ cursor.day = p.day /\ cursor.hour = p.hour
            /\ cursor.minute = p.minute
        <5>1. /\ cursor.year \in Int /\ cursor.month \in Int /\ cursor.day \in Int
              /\ cursor.hour \in Int /\ cursor.minute \in Int
          BY <2>1, <1>1, ScanFacts DEF Cursors
        <5>2. /\ p.year \in Int /\ p.month \in Int /\ p.day \in Int
              /\ p.hour \in Int /\ p.minute \in Int
          BY <1>1, <2>1, <2>5, ScanFacts
        <5>3. QED BY <3>1, <3>3, <5>1, <5>2 DEF Before
      <4>2. Utc(cursor) = Utc(p)
        BY <4>1 DEF Utc
      <4>3. QED BY <2>3, <4>2, UtcType
    <3>4. QED BY <3>2, <3>3
  <2>6. QED BY <2>2, <2>4, <2>5
<1>3. ASSUME phase = "gaveUp", NEW p \in Matching, After(p)
      PROVE  p.year > maxYear
  <2>1. Scanning /\ ~Before(p, cursor) /\ cursor.year > maxYear
    BY <1>1, <1>3 DEF Scanning, IInv, SkipInv, YearInv
  <2>2. p.year \in Int /\ cursor.year \in Int /\ maxYear \in Int
    BY <1>1, <2>1, ScanFacts DEF Cursors
  <2>3. QED BY <2>1, <2>2 DEF Before
<1>4. QED BY <1>2, <1>3 DEF SearchCorrect

(* The scan keeps the cursor a date of the calendar, for expressions,      *)
(* references and zones of any kind.                                       *)
THEOREM TypeCorrect == Spec => []TypeOK
<1>1. IInv => TypeOK
  BY DEF IInv
<1>2. QED BY InitIInv, NextIInv, <1>1, PTL DEF Spec

(* In UTC, getNextRunTime returns the first matching minute after the      *)
(* reference, and fails only when the searched years have none.            *)
THEOREM Search == Spec => []SearchCorrect
<1>1. QED BY InitIInv, NextIInv, IInvSearch, PTL DEF Spec

-----------------------------------------------------------------------------
(* Zones                                                                   *)

LEMMA DateFields ==
  ASSUME NEW p \in Dates
  PROVE  /\ p.year \in Years /\ p.year \in Int /\ p.month \in 1..12
         /\ p.day \in 1..31 /\ p.hour \in 0..23 /\ p.minute \in 0..59
         /\ p.day <= MonthDays(p.year, p.month)
<1>1. /\ p \in [year : Years, month : 1..12, day : 1..31, hour : 0..23,
                minute : 0..59]
      /\ p.day <= MonthDays(p.year, p.month)
  BY DEF Dates
<1>2. p.year \in Int
  BY <1>1, CalendarAssumption
<1> QED
  BY <1>1, <1>2

(* Two dates are the same or one is before the other.                      *)
LEMMA Trichotomy ==
  ASSUME NEW p \in Dates, NEW q \in Dates, ~Before(p, q), ~Before(q, p)
  PROVE  p = q
<1>1. /\ p \in [year : Years, month : 1..12, day : 1..31, hour : 0..23,
                minute : 0..59]
      /\ q \in [year : Years, month : 1..12, day : 1..31, hour : 0..23,
                minute : 0..59]
  BY DEF Dates
<1>2. p.year \in Int /\ q.year \in Int
  BY <1>1, CalendarAssumption
<1>3. /\ p.year = q.year /\ p.month = q.month /\ p.day = q.day
      /\ p.hour = q.hour /\ p.minute = q.minute
  BY <1>1, <1>2 DEF Before
<1> QED
  BY <1>1, <1>3

(* The month of a date contains its time.                                  *)
LEMMA InMonth ==
  ASSUME NEW p \in Dates PROVE Contains(<<p.year, p.month>>, Utc(p))
<1>1. p.year \in Years /\ p.month \in 1..12 /\ p.day <= MonthDays(p.year, p.month)
  BY DEF Dates
<1>2. PICK d \in 1..31, h \in 0..23, i \in 0..59 :
        p.day = d /\ p.hour = h /\ p.minute = i
  BY DEF Dates
<1>3. PICK a \in Int, b \in 28..31 :
        a = MonthStart(p.year, p.month) /\ b = MonthDays(p.year, p.month)
  BY <1>1, CalendarAssumption
<1>4. Utc(p) = (a + d - 1) * 1440 + h * 60 + i
  BY <1>2, <1>3 DEF Utc
<1>5. d <= b
  BY <1>1, <1>2, <1>3
<1>6. a * 1440 <= Utc(p) /\ Utc(p) < (a + b) * 1440
  BY <1>4, <1>5
<1> QED
  BY <1>3, <1>6 DEF Contains

LEMMA RoundTrip == ASSUME NEW p \in Dates PROVE CivilTime[Utc(p)] = p
<1>1. p.year \in Years /\ p.month \in 1..12 /\ Utc(p) \in Int
  BY UtcType DEF Dates
<1>2. CivilTime[Utc(p)] \in Dates /\ Utc(CivilTime[Utc(p)]) = Utc(p)
  BY <1>1, InMonth, CivilDate
<1>3. PICK q \in Dates : q = CivilTime[Utc(p)] /\ Utc(q) = Utc(p)
  BY <1>2
<1>4. ~Before(p, q) /\ ~Before(q, p)
  BY <1>1, <1>3, Chronology
<1> QED
  BY <1>3, <1>4, Trichotomy

LEMMA ContainedIn ==
  ASSUME NEW y \in Years, NEW m \in 1..12, NEW t,
         MonthStart(y, m) * 1440 <= t,
         t < (MonthStart(y, m) + MonthDays(y, m)) * 1440
  PROVE  \E mo \in Months : Contains(mo, t)
<1>1. <<y, m>> \in Months
  BY DEF Months
<1>2. Contains(<<y, m>>, t)
  BY DEF Contains
<1> QED
  BY <1>1, <1>2

(* In a calendar without gaps, a moment less than a month from a date lies *)
(* in its month or in one next to it.                                      *)
LEMMA Nearby ==
  ASSUME Continuous, NEW p \in Dates, (p.year - 1)..(p.year + 1) \subseteq Years,
         NEW u \in Int, u = Utc(p),
         NEW t \in Int, u - 1560 <= t, t <= u + 1560
  PROVE  \E mo \in Months : Contains(mo, t)
<1> DEFINE y == p.year
           m == p.month
<1>1. y \in Years /\ y \in Int /\ m \in 1..12 /\ y - 1 \in Years /\ y + 1 \in Years
  BY DateFields
<1>2. PICK a \in Int, b \in 28..31 : a = MonthStart(y, m) /\ b = MonthDays(y, m)
  BY <1>1, CalendarAssumption
<1>3. a * 1440 <= u /\ u < (a + b) * 1440
  <2>1. Contains(<<y, m>>, Utc(p))
    BY InMonth
  <2> QED
    BY <1>2, <2>1 DEF Contains
<1>4. PICK z \in Years, n \in 1..12 : MonthStart(z, n) = a + b
  <2> DEFINE next == NextMonth(At(y, m, 1, 0, 0))
  <2>1. next.year \in {y, y + 1} /\ next.month \in 1..12
    BY <1>1 DEF NextMonth, At
  <2>2. next.year \in Years
    BY <1>1, <2>1
  <2>3. MonthStart(next.year, next.month) = a + b
    BY <1>1, <1>2, <2>2 DEF Continuous
  <2> QED
    BY <2>1, <2>2, <2>3
<1>5. PICK w \in Years, l \in 1..12 : MonthStart(w, l) + MonthDays(w, l) = a
  <2>1. CASE m > 1
    <3>1. PICK o \in 1..12 : o = m - 1
      BY <1>1, <2>1
    <3>2. NextMonth(At(y, o, 1, 0, 0)) = At(y, m, 1, 0, 0)
      BY <1>1, <3>1 DEF NextMonth, At
    <3>3. At(y, m, 1, 0, 0).year = y /\ At(y, m, 1, 0, 0).month = m
      BY DEF At
    <3>4. MonthStart(y, m) = MonthStart(y, o) + MonthDays(y, o)
      BY <1>1, <3>2, <3>3 DEF Continuous
    <3> QED
      BY <1>1, <1>2, <3>4
  <2>2. CASE m = 1
    <3>1. PICK x \in Years : x = y - 1
      BY <1>1
    <3>2. NextMonth(At(x, 12, 1, 0, 0)) = At(y, 1, 1, 0, 0)
      BY <1>1, <3>1 DEF NextMonth, At
    <3>3. At(y, 1, 1, 0, 0).year = y /\ At(y, 1, 1, 0, 0).month = 1
      BY DEF At
    <3>4. MonthStart(y, 1) = MonthStart(x, 12) + MonthDays(x, 12)
      BY <1>1, <3>2, <3>3 DEF Continuous
    <3> QED
      BY <1>2, <2>2, <3>4
  <2> QED
    BY <1>1, <2>1, <2>2
<1>6. PICK c \in 28..31 : c = MonthDays(z, n)
  BY CalendarAssumption
<1>7. PICK e \in Int, f \in 28..31 : e = MonthStart(w, l) /\ f = MonthDays(w, l)
  BY CalendarAssumption
<1>8. CASE t < a * 1440
  <2>1. e + f = a
    BY <1>5, <1>7
  <2>2. e * 1440 <= t /\ t < (e + f) * 1440
    BY <1>3, <1>8, <2>1
  <2> QED
    BY <1>7, <2>2, ContainedIn
<1>9. CASE a * 1440 <= t /\ t < (a + b) * 1440
  BY <1>1, <1>2, <1>9, ContainedIn
<1>10. CASE (a + b) * 1440 <= t
  <2>1. t < (a + b + c) * 1440
    BY <1>3, <1>6
  <2> QED
    BY <1>4, <1>6, <1>10, <2>1, ContainedIn
<1> QED
  BY <1>8, <1>9, <1>10

LEMMA MonthDate ==
  ASSUME NEW t \in Int, NEW mo \in Months, Contains(mo, t)
  PROVE  CivilTime[t] \in Dates /\ Utc(CivilTime[t]) = t
<1>1. PICK y \in Years, m \in 1..12 : mo = <<y, m>>
  BY DEF Months
<1>2. Contains(<<y, m>>, t)
  BY <1>1
<1> QED
  BY <1>2, CivilDate

LEMMA NearbyDate ==
  ASSUME Continuous, NEW p \in Dates, (p.year - 1)..(p.year + 1) \subseteq Years,
         NEW u \in Int, u = Utc(p),
         NEW t \in Int, u - 1560 <= t, t <= u + 1560
  PROVE  CivilTime[t] \in Dates /\ Utc(CivilTime[t]) = t
BY Nearby, MonthDate

(* The same month of another year is more than a month away.               *)
LEMMA SameYear ==
  ASSUME NEW p \in Dates, NEW q \in Dates, p.month = q.month,
         NEW u \in Int, u = Utc(p), NEW v \in Int, v = Utc(q),
         v <= u + 1560, u <= v + 1560
  PROVE  p.year = q.year
<1>1. ASSUME NEW r \in Dates, NEW s \in Dates, r.month = s.month,
             NEW x \in Int, x = Utc(r), NEW w \in Int, w = Utc(s),
             w <= x + 1560, r.year < s.year
      PROVE  FALSE
  <2>1. /\ r.year \in Years /\ r.year \in Int /\ r.month \in 1..12
        /\ s.year \in Years /\ s.year \in Int
    BY DateFields
  <2>2. PICK a \in Int, b \in Int :
          a = MonthStart(r.year, r.month) /\ b = MonthDays(r.year, r.month)
    BY <2>1, CalendarAssumption
  <2>3. PICK c \in Int : c = MonthStart(s.year, s.month)
    BY <1>1, <2>1, CalendarAssumption
  <2>4. a + b + 28 <= c
    <3>1. CASE r.month < 12
      <4>1. PICK n \in 1..12 : n = r.month + 1
        BY <2>1, <3>1
      <4>2. PICK e \in Int, f \in 28..31 :
              e = MonthStart(r.year, n) /\ f = MonthDays(r.year, n)
        BY <2>1, CalendarAssumption
      <4>3. a + b <= e
        BY <2>1, <2>2, <4>1, <4>2, CalendarAssumption
      <4>4. e + f <= c
        BY <1>1, <2>1, <2>3, <4>2, CalendarAssumption
      <4> QED
        BY <4>3, <4>4
    <3>2. CASE r.month = 12
      <4>1. PICK e \in Int, f \in 28..31 :
              e = MonthStart(s.year, 1) /\ f = MonthDays(s.year, 1)
        BY <2>1, CalendarAssumption
      <4>2. a + b <= e
        BY <1>1, <2>1, <2>2, <4>1, CalendarAssumption
      <4>3. e + f <= c
        BY <1>1, <2>1, <2>3, <3>2, <4>1, CalendarAssumption
      <4> QED
        BY <4>2, <4>3
    <3> QED
      BY <2>1, <3>1, <3>2
  <2>5. x < (a + b) * 1440 /\ c * 1440 <= w
    BY <1>1, <2>2, <2>3, InMonth DEF Contains
  <2> QED
    BY <1>1, <2>4, <2>5
<1>2. p.year \in Int /\ q.year \in Int
  BY DateFields
<1>3. ~(p.year < q.year)
  BY <1>1
<1>4. ~(q.year < p.year)
  BY <1>1
<1> QED
  BY <1>2, <1>3, <1>4

(* Within a month, weights are as far apart as the times they stand for.   *)
LEMMA WeightWithinMonth ==
  ASSUME NEW p \in Dates, NEW q \in Dates, p.month = q.month, p.year = q.year
  PROVE  /\ Weight(p) \in Int /\ Weight(q) \in Int
         /\ Weight(p) - Weight(q) = Utc(p) - Utc(q)
<1>1. p.year \in Years /\ p.year \in Int /\ p.month \in 1..12
  BY DateFields
<1>2. PICK a \in Int : a = MonthStart(p.year, p.month)
  BY <1>1, CalendarAssumption
<1>3. PICK y \in Int, m \in Int : y = p.year /\ m = p.month
  BY <1>1
<1>4. PICK d \in 1..31, h \in 0..23, i \in 0..59 :
        p.day = d /\ p.hour = h /\ p.minute = i
  BY DateFields
<1>5. PICK e \in 1..31, k \in 0..23, l \in 0..59 :
        q.day = e /\ q.hour = k /\ q.minute = l
  BY DateFields
<1>6. /\ Utc(p) = (a + d - 1) * 1440 + h * 60 + i
      /\ Utc(q) = (a + e - 1) * 1440 + k * 60 + l
  BY <1>2, <1>4, <1>5 DEF Utc
<1>7. /\ Weight(p) = y * 525960 + m * 43800 + d * 1440 + h * 60 + i
      /\ Weight(q) = y * 525960 + m * 43800 + e * 1440 + k * 60 + l
  BY <1>3, <1>4, <1>5 DEF Weight
<1> QED
  BY <1>6, <1>7

LEMMA LocalDate ==
  ASSUME NEW t, NEW z
  PROVE  LocalTime(t, z) = CivilTime[t + z.offset + Saving(t, z)]
BY DEF LocalTime, Saving

LEMMA ZoneTypes ==
  ASSUME Adjustable, NEW z \in Zones, NEW t
  PROVE  /\ z.offset \in Int /\ z.saving \in Int
         /\ Saving(t, z) \in {0, z.saving} /\ Saving(t, z) \in Int
         /\ z.offset + Saving(t, z) \in -1560..1560
         /\ z.saving \in {0, 60, -60, 120, -120}
<1>1. z.offset \in -1440..1440 /\ z.saving \in {0, 60, -60, 120, -120}
  BY DEF Adjustable
<1>2. Saving(t, z) \in {0, z.saving}
  BY DEF Saving
<1>3. PICK a \in -1440..1440 : a = z.offset
  BY <1>1
<1>4. PICK b \in {0, 60, -60, 120, -120} : b = z.saving
  BY <1>1
<1>5. PICK c \in {0, b} : c = Saving(t, z)
  BY <1>2, <1>4
<1>6. b \in Int /\ -120 <= b /\ b <= 120
  <2>1. b = 0 \/ b = 60 \/ b = -60 \/ b = 120 \/ b = -120
    OBVIOUS
  <2> QED
    BY <2>1
<1>7. c \in Int /\ -120 <= c /\ c <= 120
  BY <1>5, <1>6
<1>8. a + c \in -1560..1560
  BY <1>7
<1>9. z.offset + Saving(t, z) \in -1560..1560
  BY <1>3, <1>5, <1>8
<1>10. z.offset \in Int /\ z.saving \in Int /\ Saving(t, z) \in Int
  BY <1>3, <1>4, <1>5, <1>6, <1>7
<1> QED
  BY <1>1, <1>2, <1>9, <1>10

(* What Intl shows is the local time, but for the hour of midnight.        *)
LEMMA Shown ==
  ASSUME NEW z, z.name # "UTC", NEW t, t + z.offset + Saving(t, z) \in Int,
         NEW p \in Dates
  PROVE  /\ DateParts(t, z) = p => LocalTime(t, z) = p
         /\ LocalTime(t, z) = p /\ (p.hour # 0 \/ Midnight = 0) =>
              DateParts(t, z) = p
         /\ Midnight = 24 => DateParts(t, z).hour # 0
         /\ LocalTime(t, z) = p /\ DateParts(t, z).hour # 24 =>
              DateParts(t, z) = p
<1>1. PICK y, m, d, h, i : LocalTime(t, z) = At(y, m, d, h, i)
  <2>1. PICK x \in Int : x = t + z.offset + Saving(t, z)
    OBVIOUS
  <2>2. \E y, m, d, h, i : CivilTime[x] = At(y, m, d, h, i)
    BY DEF CivilTime
  <2> QED
    BY <2>1, <2>2, LocalDate
<1>2. DateParts(t, z) =
        IF h = 0 THEN At(y, m, d, Midnight, i) ELSE At(y, m, d, h, i)
  BY <1>1 DEF DateParts, At
<1>3. \A g : At(y, m, d, g, i).hour = g
  BY DEF At
<1>4. p.hour \in 0..23
  BY DateFields
<1>5. Midnight \in {0, 24}
  BY ClockAssumption
<1> QED
  BY <1>1, <1>2, <1>3, <1>4, <1>5

(* One of the five adjustments is the first that is verified.              *)
LEMMA FirstVerified ==
  ASSUME NEW p, NEW z, z.name # "UTC",
         \E i \in 1..5 : DateParts(Guess(p, z) + Adjustments[i], z) = p
  PROVE  \E i \in 1..5 :
           /\ BuildTimestamp(p, z) = Guess(p, z) + Adjustments[i]
           /\ DateParts(Guess(p, z) + Adjustments[i], z) = p
<1> DEFINE Verified(i) == DateParts(Guess(p, z) + Adjustments[i], z) = p
           First5(i) == Verified(i) /\ \A j \in 1..i-1 : ~Verified(j)
           first == CHOOSE i \in 1..5 : First5(i)
<1>1. \E i \in 1..5 : Verified(i)
  OBVIOUS
<1>2. BuildTimestamp(p, z) = Guess(p, z) + Adjustments[first]
  BY <1>1 DEF BuildTimestamp
<1> HIDE DEF Verified
<1>3. \E i \in 1..5 : First5(i)
  <2>1. CASE Verified(1)
    BY <2>1
  <2>2. CASE ~Verified(1) /\ Verified(2)
    BY <2>2
  <2>3. CASE ~Verified(1) /\ ~Verified(2) /\ Verified(3)
    BY <2>3
  <2>4. CASE ~Verified(1) /\ ~Verified(2) /\ ~Verified(3) /\ Verified(4)
    BY <2>4
  <2>5. CASE /\ ~Verified(1) /\ ~Verified(2) /\ ~Verified(3)
             /\ ~Verified(4) /\ Verified(5)
    BY <2>5
  <2>6. Verified(1) \/ Verified(2) \/ Verified(3) \/ Verified(4) \/ Verified(5)
    BY <1>1
  <2> QED
    BY <2>1, <2>2, <2>3, <2>4, <2>5, <2>6
<1>4. first \in 1..5 /\ Verified(first)
  BY <1>3
<1> QED
  BY <1>2, <1>4 DEF Verified

LEMMA Quiet ==
  ASSUME UsualClocks, Midnight = 24, NEW z \in Zones,
         NEW p \in Dates, p.hour = 0, NEW u \in Int, u = Utc(p),
         NEW g \in Int, g = u - z.offset - Saving(u, z)
  PROVE  Saving(g, z) = Saving(u, z)
<1>1. p = At(p.year, p.month, p.day, 0, p.minute)
  BY DEF Dates, At
<1>2. PICK y \in Years, m \in 1..12 : p.year = y /\ p.month = m
  BY DateFields
<1>3. PICK i \in 0..59 : p.minute = i
  BY DateFields
<1>4. PICK d \in 1..MonthDays(y, m) : p.day = d
  <2>1. MonthDays(y, m) \in 28..31
    BY CalendarAssumption
  <2> QED
    BY <1>2, <2>1, DateFields
<1>5. u = Utc(At(y, m, d, 0, i))
  BY <1>1, <1>2, <1>3, <1>4
<1>6. LET t == Utc(At(y, m, d, 0, i))
      IN Saving(t - z.offset - Saving(t, z), z) = Saving(t, z)
  BY DEF UsualClocks, QuietMidnight
<1>7. Saving(u - z.offset - Saving(u, z), z) = Saving(u, z)
  BY <1>5, <1>6
<1> QED
  BY <1>7

(* The conversion of a date finds a moment at which the zone shows it.     *)
LEMMA ZoneConverted ==
  ASSUME UsualClocks, NEW z \in Zones, z.name # "UTC", NEW p \in Dates,
         (p.year - 1)..(p.year + 1) \subseteq Years,
         DateParts(Utc(p), z).month = p.month, DateParts(Utc(p), z).hour # 24,
         \E o \in {z.offset, z.offset + z.saving} : LocalTime(Utc(p) - o, z) = p
  PROVE  LocalTime(BuildTimestamp(p, z), z) = p
<1>1. PICK u \in Int : u = Utc(p)
  BY UtcType
<1>2. Continuous /\ Adjustable
  BY DEF UsualClocks
<1>3. PICK a \in Int, b \in {0, 60, -60, 120, -120} : a = z.offset /\ b = z.saving
  BY <1>2, ZoneTypes
<1>4. PICK s \in {0, b} : s = Saving(u, z)
  BY <1>2, <1>3, ZoneTypes
<1>5. b \in Int /\ s \in Int
  BY <1>3, <1>4
<1>6. PICK k \in -1560..1560 : k = a + s
  <2>1. z.offset + Saving(u, z) \in -1560..1560
    BY <1>2, ZoneTypes
  <2> QED
    BY <1>3, <1>4, <2>1
<1>7. PICK q \in Dates : q = LocalTime(u, z) /\ Utc(q) = u + k
  <2>1. PICK t \in Int : t = u + k
    OBVIOUS
  <2>2. u - 1560 <= t /\ t <= u + 1560
    BY <2>1
  <2>3. CivilTime[t] \in Dates /\ Utc(CivilTime[t]) = t
    BY <1>1, <1>2, <2>2, NearbyDate
  <2>4. LocalTime(u, z) = CivilTime[t]
    <3>1. u + z.offset + Saving(u, z) = t
      BY <1>3, <1>4, <1>5, <1>6, <2>1
    <3> QED
      BY <3>1, LocalDate
  <2> QED
    BY <2>1, <2>3, <2>4
<1>8. DateParts(u, z) = q
  <2>1. u + z.offset + Saving(u, z) \in Int
    BY <1>3, <1>4, <1>5
  <2> QED
    BY <1>1, <1>7, <2>1, Shown
<1>9. Guess(p, z) = u - k
  <2>1. q.month = p.month
    BY <1>1, <1>8
  <2>2. PICK x \in Int : x = Utc(q) /\ x <= u + 1560 /\ u <= x + 1560
    BY <1>7
  <2>3. q.year = p.year
    BY <1>1, <2>1, <2>2, SameYear
  <2>4. PICK v \in Int, w \in Int :
          v = Weight(p) /\ w = Weight(q) /\ v - w = Utc(p) - Utc(q)
    BY <2>1, <2>3, WeightWithinMonth
  <2>5. v - w = u - (u + k)
    BY <1>1, <1>7, <2>4
  <2>6. Guess(p, z) = u + v - w
    BY <1>1, <1>8, <2>4 DEF Guess
  <2> QED
    BY <2>5, <2>6
<1>10. CASE p.hour # 0 \/ Midnight = 0
  <2>1. PICK o \in {a, a + b} : LocalTime(u - o, z) = p
    BY <1>1, <1>3
  <2>2. PICK x \in Int : x = u - o
    BY <1>5, <2>1
  <2>3. DateParts(x, z) = p
    <3>1. x + z.offset + Saving(x, z) \in Int
      BY <1>2, <1>3, <2>2, ZoneTypes
    <3> QED
      BY <1>10, <2>1, <2>2, <3>1, Shown
  <2>4. \E i \in 1..5 : x = (u - k) + Adjustments[i]
    <3>1. PICK j \in {0, 60, -60, 120, -120} : x = (u - k) + j
      <4>1. x = (u - k) + (k - o) /\ k - o \in {0, b, -b}
        BY <1>4, <1>5, <1>6, <2>1, <2>2
      <4> QED
        BY <1>3, <4>1
    <3>2. \E i \in 1..5 : Adjustments[i] = j
      BY DEF Adjustments
    <3> QED
      BY <3>1, <3>2
  <2>5. \E i \in 1..5 : DateParts(Guess(p, z) + Adjustments[i], z) = p
    BY <1>9, <2>3, <2>4
  <2>6. PICK i \in 1..5 : /\ BuildTimestamp(p, z) = Guess(p, z) + Adjustments[i]
                          /\ DateParts(Guess(p, z) + Adjustments[i], z) = p
    BY <2>5, FirstVerified
  <2>7. PICK r \in Int : r = BuildTimestamp(p, z)
    <3>1. Adjustments[i] \in Int
      BY DEF Adjustments
    <3> QED
      BY <1>9, <2>6, <3>1
  <2>8. r + z.offset + Saving(r, z) \in Int
    BY <1>2, <2>7, ZoneTypes
  <2>9. DateParts(r, z) = p
    BY <2>6, <2>7
  <2> QED
    BY <2>7, <2>8, <2>9, Shown
<1>11. CASE p.hour = 0 /\ Midnight = 24
  <2>1. PICK g \in Int : g = Guess(p, z) /\ g = u - k
    BY <1>9
  <2>2. \A i \in 1..5 : DateParts(g + Adjustments[i], z) # p
    <3>1. TAKE i \in 1..5
    <3>2. PICK x \in Int : x = g + Adjustments[i]
      BY DEF Adjustments
    <3>3. x + z.offset + Saving(x, z) \in Int
      BY <1>2, ZoneTypes
    <3> QED
      BY <1>11, <3>2, <3>3, Shown
  <2>3. BuildTimestamp(p, z) = g
    BY <2>1, <2>2 DEF BuildTimestamp
  <2>4. g = u - z.offset - Saving(u, z)
    BY <1>3, <1>4, <1>5, <1>6, <2>1
  <2>5. Saving(g, z) = Saving(u, z)
    BY <1>1, <1>11, <2>4, Quiet
  <2>6. LocalTime(g, z) = CivilTime[u]
    <3>1. g + z.offset + Saving(g, z) = u
      BY <1>3, <1>4, <1>5, <1>6, <2>1, <2>4, <2>5
    <3> QED
      BY <3>1, LocalDate
  <2> QED
    BY <1>1, <2>3, <2>6, RoundTrip
<1> QED
  BY <1>10, <1>11, ClockAssumption, DateFields

(* The search is bounded by the year it started in, and what is returned   *)
(* is the conversion of the cursor.                                        *)
ZoneInv ==
  /\ Scanning => maxYear = DateParts(reference \div 60 + 1, zone).year + 4
  /\ phase = "done" => result = BuildTimestamp(cursor, zone)

LEMMA InitZone == Init => ZoneInv
BY DEF Init, ZoneInv, Scanning

LEMMA NextZone == ZoneInv /\ [Next]_vars => ZoneInv'
<1>1. SUFFICES ASSUME ZoneInv, [Next]_vars PROVE ZoneInv'
  OBVIOUS
<1>2. CASE Start
  <2>1. /\ maxYear' = DateParts(reference \div 60 + 1, zone).year + 4
        /\ reference' = reference /\ zone' = zone /\ phase' = "month"
    BY <1>2 DEF Start, arguments
  <2> QED
    BY <2>1 DEF ZoneInv
<1>3. CASE Return
  <2>1. /\ result' = BuildTimestamp(cursor, zone) /\ cursor' = cursor
        /\ reference' = reference /\ zone' = zone /\ maxYear' = maxYear
        /\ phase = "build"
    BY <1>3 DEF Return, arguments
  <2> QED
    BY <1>1, <2>1 DEF ZoneInv, Scanning
<1>4. ASSUME NEW from \in {"month", "day", "weekday", "hour", "minute", "build"},
             NEW to, to # "done", Scan(from, to)
      PROVE  ZoneInv'
  <2>1. /\ phase = from /\ phase' = to
        /\ reference' = reference /\ zone' = zone /\ maxYear' = maxYear
    BY <1>4 DEF Scan, arguments
  <2>2. Scanning
    BY <2>1 DEF Scanning
  <2> QED
    BY <1>1, <1>4, <2>1, <2>2 DEF ZoneInv
<1>5. CASE GiveUp
  BY <1>4, <1>5 DEF GiveUp
<1>6. CASE \E m \in 1..12 : FindMonth(m) \/ OverflowMonth(m)
  BY <1>4, <1>6 DEF FindMonth, OverflowMonth
<1>7. CASE (\E d \in 1..31 : FindDay(d)) \/ OverflowDay
  BY <1>4, <1>7 DEF FindDay, OverflowDay
<1>8. CASE CheckWeekday \/ SkipDay
  BY <1>4, <1>8 DEF CheckWeekday, SkipDay
<1>9. CASE (\E h \in 0..23 : FindHour(h)) \/ OverflowHour
  BY <1>4, <1>9 DEF FindHour, OverflowHour
<1>10. CASE (\E m \in 0..59 : FindMinute(m)) \/ OverflowMinute
  BY <1>4, <1>10 DEF FindMinute, OverflowMinute
<1>11. CASE Advance
  BY <1>4, <1>11 DEF Advance
<1>12. CASE Reject
  <2>1. phase' = "rejected"
    BY <1>12 DEF Reject
  <2> QED
    BY <2>1 DEF ZoneInv, Scanning
<1>13. CASE UNCHANGED vars
  BY <1>1, <1>13 DEF vars, arguments, ZoneInv, Scanning
<1> QED
  BY <1>1, <1>2, <1>3, <1>5, <1>6, <1>7, <1>8, <1>9, <1>10, <1>11, <1>12, <1>13
  DEF Next

(* The cursor that is returned is a date, and the years around it belong   *)
(* to the calendar.                                                        *)
LEMMA ReturnedDate ==
  ASSUME IInv, ZoneInv, Surrounded, phase = "done"
  PROVE  /\ cursor \in Dates /\ zone \in Zones
         /\ (cursor.year - 1)..(cursor.year + 1) \subseteq Years
<1>1. Scanning /\ zone \in Zones /\ reference \in References
  BY DEF Scanning, IInv, TypeOK
<1>2. cursor \in Matching
  BY <1>1, ScanFacts DEF IInv, YearInv, FoundInv, Matching, Cursors
<1>3. cursor \in Dates
  BY <1>1, <1>2, MatchingDates DEF IInv
<1>4. cursor.year \in Int /\ maxYear \in Int
  BY <1>1, ScanFacts DEF Cursors
<1>5. PICK y \in Int : y = DateParts(reference \div 60 + 1, zone).year
  <2>1. DateParts(reference \div 60 + 1, zone) \in Cursors
    BY <1>1, StartDate
  <2> QED
    BY <2>1 DEF Cursors
<1>6. maxYear = y + 4 /\ (y - 1)..(y + 5) \subseteq Years
  BY <1>1, <1>5 DEF ZoneInv, Surrounded
<1>7. y <= cursor.year /\ cursor.year <= y + 4
  <2>1. maxYear - 4 <= cursor.year /\ cursor.year <= maxYear
    BY <1>1 DEF IInv, YearInv
  <2> QED
    BY <1>4, <1>6, <2>1
<1>8. (cursor.year - 1)..(cursor.year + 1) \subseteq (y - 1)..(y + 5)
  BY <1>4, <1>7
<1> QED
  BY <1>1, <1>3, <1>6, <1>8

LEMMA ZoneIsCorrect == UsualClocks /\ IInv /\ ZoneInv => ZoneCorrect
<1>1. SUFFICES ASSUME UsualClocks, IInv, ZoneInv, phase = "done",
                      GuessIsUsable, ~IsSkipped
               PROVE  LocalTime(result, zone) = cursor
  BY DEF ZoneCorrect
<1>2. /\ cursor \in Dates /\ zone \in Zones
      /\ (cursor.year - 1)..(cursor.year + 1) \subseteq Years
  BY <1>1, ReturnedDate DEF UsualClocks
<1>3. result = BuildTimestamp(cursor, zone)
  BY <1>1 DEF ZoneInv
<1>4. CASE zone.name = "UTC"
  <2>1. PICK u \in Int : u = Utc(cursor)
    BY <1>2, UtcType
  <2>2. result = u
    BY <1>3, <1>4, <2>1 DEF BuildTimestamp
  <2>3. zone.offset = 0 /\ zone.saving = 0
    <3>1. reference \in References
      BY <1>1 DEF IInv, TypeOK
    <3> QED
      BY <1>2, <1>4, <3>1, ReachAssumption
  <2>4. Saving(u, zone) = 0
    BY <2>3 DEF Saving
  <2>5. u + zone.offset + Saving(u, zone) = u
    BY <2>3, <2>4
  <2>6. LocalTime(u, zone) = CivilTime[u]
    BY <2>5, LocalDate
  <2> QED
    BY <1>2, <2>1, <2>2, <2>6, RoundTrip
<1>5. CASE zone.name # "UTC"
  <2>1. /\ DateParts(Utc(cursor), zone).month = cursor.month
        /\ DateParts(Utc(cursor), zone).hour # 24
    BY <1>1 DEF GuessIsUsable
  <2>2. \E o \in {zone.offset, zone.offset + zone.saving} :
          LocalTime(Utc(cursor) - o, zone) = cursor
    BY <1>1 DEF IsSkipped
  <2>3. LocalTime(BuildTimestamp(cursor, zone), zone) = cursor
    BY <1>1, <1>2, <1>5, <2>1, <2>2, ZoneConverted
  <2> QED
    BY <1>3, <2>3
<1> QED
  BY <1>4, <1>5

(* Where clocks change as UsualClocks says, the moment that getNextRunTime *)
(* returns is, in the zone of the schedule, the minute that the scan found *)
(* - on the days of a change too - unless that minute is skipped, or the   *)
(* guess leaves its month or is shown as 24:00.                            *)
THEOREM ZoneSearch == ASSUME UsualClocks PROVE Spec => []ZoneCorrect
<1>1. IInv /\ ZoneInv => ZoneCorrect
  BY ZoneIsCorrect
<1> QED
  BY InitIInv, NextIInv, InitZone, NextZone, <1>1, PTL DEF Spec

-----------------------------------------------------------------------------
(* The end of the search                                                   *)

(* The minutes from p to the end of the search, in months of 31 days of 25 *)
(* hours.                                                                  *)
Ahead(p) ==
  ((((maxYear + 1 - p.year) * 12 + 12 - p.month) * 31 + 31 - p.day) * 25
     + 24 - p.hour) * 60 + 59 - p.minute

(* The fields that are still to be looked at in this round.                *)
Turns == [month |-> 6, day |-> 5, weekday |-> 4, hour |-> 3, minute |-> 2,
          build |-> 1, done |-> 0, gaveUp |-> 0]

Left == Ahead(cursor) * 7 + Turns[phase]

LEMMA AheadType ==
  ASSUME maxYear \in Int, NEW p \in Cursors, p.year <= maxYear + 1
  PROVE  Ahead(p) \in Nat
<1>1. PICK y \in Int, m \in 1..12, d \in 1..31, h \in 0..24, i \in 0..59 :
        p.year = y /\ p.month = m /\ p.day = d /\ p.hour = h /\ p.minute = i
  BY DEF Cursors
<1>2. PICK a \in Nat : a = (maxYear + 1 - y) * 12 + 12 - m
  BY <1>1
<1>3. PICK b \in Nat : b = a * 31 + 31 - d
  OBVIOUS
<1>4. PICK c \in Nat : c = b * 25 + 24 - h
  OBVIOUS
<1>5. Ahead(p) = c * 60 + 59 - i
  BY <1>1, <1>2, <1>3, <1>4 DEF Ahead
<1> QED
  BY <1>5

(* A later cursor is nearer to the end.                                    *)
LEMMA Nearer ==
  ASSUME maxYear \in Int, NEW p \in Cursors, NEW q \in Cursors,
         p.year <= maxYear + 1, q.year <= maxYear + 1, Before(p, q)
  PROVE  Ahead(q) < Ahead(p)
<1>1. PICK y \in Int, m \in 1..12, d \in 1..31, h \in 0..24, i \in 0..59 :
        p.year = y /\ p.month = m /\ p.day = d /\ p.hour = h /\ p.minute = i
  BY DEF Cursors
<1>2. PICK z \in Int, n \in 1..12, e \in 1..31, k \in 0..24, j \in 0..59 :
        q.year = z /\ q.month = n /\ q.day = e /\ q.hour = k /\ q.minute = j
  BY DEF Cursors
<1>3. PICK a \in Int, b \in Int :
        a = (maxYear + 1 - y) * 12 + 12 - m /\ b = (maxYear + 1 - z) * 12 + 12 - n
  BY <1>1, <1>2
<1>4. PICK f \in Int, g \in Int : f = a * 31 + 31 - d /\ g = b * 31 + 31 - e
  OBVIOUS
<1>5. PICK s \in Int, t \in Int : s = f * 25 + 24 - h /\ t = g * 25 + 24 - k
  OBVIOUS
<1>6. Ahead(p) = s * 60 + 59 - i /\ Ahead(q) = t * 60 + 59 - j
  BY <1>1, <1>2, <1>3, <1>4, <1>5 DEF Ahead
<1>7. \/ y < z
      \/ y = z /\ m < n
      \/ y = z /\ m = n /\ d < e
      \/ y = z /\ m = n /\ d = e /\ h < k
      \/ y = z /\ m = n /\ d = e /\ h = k /\ i < j
  BY <1>1, <1>2 DEF Before
<1>8. b < a \/ (b = a /\ (d < e \/ (d = e /\ (h < k \/ (h = k /\ i < j)))))
  BY <1>3, <1>7
<1>9. g < f \/ (g = f /\ (h < k \/ (h = k /\ i < j)))
  BY <1>4, <1>8
<1>10. t < s \/ (t = s /\ i < j)
  BY <1>5, <1>9
<1> QED
  BY <1>6, <1>10

(* A step of the scan moves the cursor on, or keeps it and goes on to the  *)
(* next field.                                                             *)
LEMMA ScanLeft ==
  ASSUME IInv, IInv', NEW from \in DOMAIN Turns, NEW to \in DOMAIN Turns,
         phase = from, phase' = to, maxYear' = maxYear,
         Before(cursor, cursor') \/ (cursor' = cursor /\ Turns[to] < Turns[from])
  PROVE  Left' < Left
<1>1. Scanning /\ Scanning'
  BY DEF Scanning, Turns
<1>2. /\ cursor \in Cursors /\ cursor' \in Cursors /\ maxYear \in Int
      /\ cursor.year <= maxYear + 1 /\ cursor'.year <= maxYear + 1
  BY <1>1 DEF IInv, TypeOK, YearInv, Cursors
<1>3. PICK a \in Nat : a = Ahead(cursor)
  BY <1>2, AheadType
<1>4. PICK b \in Nat : b = Ahead(cursor')
  BY <1>2, AheadType
<1>5. PICK s \in 0..6, t \in 0..6 : s = Turns[from] /\ t = Turns[to]
  BY DEF Turns
<1>6. b < a \/ (b = a /\ t < s)
  BY <1>2, <1>3, <1>4, <1>5, Nearer
<1>7. b * 7 + t < a * 7 + s
  BY <1>6
<1>8. Left = a * 7 + s
  BY <1>3, <1>5 DEF Left
<1>9. Left' = b * 7 + t
  BY <1>4, <1>5 DEF Left, Ahead
<1> QED
  BY <1>7, <1>8, <1>9

LEMMA MovesOn ==
  ASSUME NEW c \in Cursors
  PROVE  /\ \A m \in 1..12 : m > c.month => Before(c, At(c.year, m, 1, 0, 0))
         /\ \A m \in 1..12 : Before(c, At(c.year + 1, m, 1, 0, 0))
         /\ \A d \in 1..31 : d > c.day => Before(c, At(c.year, c.month, d, 0, 0))
         /\ \A h \in 0..23 :
              h > c.hour => Before(c, At(c.year, c.month, c.day, h, 0))
         /\ Before(c, NextMonth(c)) /\ Before(c, NextDay(c))
<1>1. c.year \in Int /\ c.month \in 1..12 /\ c.day \in 1..31 /\ c.hour \in 0..24
  BY DEF Cursors
<1>2. Before(c, NextMonth(c))
  BY <1>1 DEF NextMonth, Before, At
<1>3. Before(c, NextDay(c))
  BY <1>1, <1>2 DEF NextDay, Before, At
<1> QED
  BY <1>1, <1>2, <1>3 DEF Before, At

(* No `continue' leaves the cursor where it was: every step of the scan    *)
(* brings its end nearer, for every expression, zone and reference.        *)
LEMMA StepLeft == IInv /\ IInv' /\ Scanning /\ Next => Left' < Left
<1>1. SUFFICES ASSUME IInv, IInv', Scanning, Next PROVE Left' < Left
  OBVIOUS
<1>2. cursor \in Cursors /\ cursor.month \in Int /\ cursor.day \in Int
      /\ cursor.hour \in Int /\ cursor.minute \in 0..59
  BY <1>1, ScanFacts DEF Cursors
<1>3. ASSUME NEW from \in DOMAIN Turns, NEW to \in DOMAIN Turns, Scan(from, to),
             Before(cursor, cursor') \/ (cursor' = cursor /\ Turns[to] < Turns[from])
      PROVE  Left' < Left
  BY <1>1, <1>3, ScanLeft DEF Scan
<1>4. CASE GiveUp
  BY <1>3, <1>4 DEF GiveUp, Turns
<1>5. ASSUME NEW m \in 1..12, FindMonth(m) \/ OverflowMonth(m)
      PROVE  Left' < Left
  <2>1. CASE FindMonth(m)
    <3>1. Before(cursor, cursor') \/ cursor' = cursor
      BY <1>2, <2>1, MovesOn DEF FindMonth
    <3> QED
      BY <1>3, <2>1, <3>1 DEF FindMonth, Turns
  <2>2. CASE OverflowMonth(m)
    <3>1. Before(cursor, cursor')
      BY <1>2, <2>2, MovesOn DEF OverflowMonth
    <3> QED
      BY <1>3, <2>2, <3>1 DEF OverflowMonth, Turns
  <2> QED
    BY <1>5, <2>1, <2>2
<1>6. ASSUME NEW d \in 1..31, FindDay(d)
      PROVE  Left' < Left
  <2>1. Before(cursor, cursor') \/ cursor' = cursor
    BY <1>2, <1>6, MovesOn DEF FindDay
  <2> QED
    BY <1>3, <1>6, <2>1 DEF FindDay, Turns
<1>7. CASE OverflowDay
  <2>1. Before(cursor, cursor')
    BY <1>2, <1>7, MovesOn DEF OverflowDay
  <2> QED
    BY <1>3, <1>7, <2>1 DEF OverflowDay, Turns
<1>8. CASE CheckWeekday
  BY <1>3, <1>8 DEF CheckWeekday, Turns
<1>9. CASE SkipDay
  <2>1. Before(cursor, cursor')
    BY <1>2, <1>9, MovesOn DEF SkipDay
  <2> QED
    BY <1>3, <1>9, <2>1 DEF SkipDay, Turns
<1>10. ASSUME NEW h \in 0..23, FindHour(h)
       PROVE  Left' < Left
  <2>1. Before(cursor, cursor') \/ cursor' = cursor
    BY <1>2, <1>10, MovesOn DEF FindHour
  <2> QED
    BY <1>3, <1>10, <2>1 DEF FindHour, Turns
<1>11. CASE OverflowHour
  <2>1. Before(cursor, cursor')
    BY <1>2, <1>11, MovesOn DEF OverflowHour
  <2> QED
    BY <1>3, <1>11, <2>1 DEF OverflowHour, Turns
<1>12. ASSUME NEW m \in 0..59, FindMinute(m)
       PROVE  Left' < Left
  <2>1. Before(cursor, cursor') \/ cursor' = cursor
    <3>1. m >= cursor.minute /\ cursor' = [cursor EXCEPT !.minute = m]
      BY <1>12 DEF FindMinute, IsNext
    <3>2. CASE m = cursor.minute
      BY <1>2, <3>1, <3>2 DEF Cursors
    <3>3. CASE m > cursor.minute
      BY <1>2, <3>1, <3>3 DEF Cursors, Before
    <3> QED
      BY <1>2, <3>1, <3>2, <3>3
  <2> QED
    BY <1>3, <1>12, <2>1 DEF FindMinute, Turns
<1>13. CASE OverflowMinute
  <2>1. Before(cursor, cursor')
    BY <1>2, <1>13 DEF OverflowMinute, Cursors, Before
  <2> QED
    BY <1>3, <1>13, <2>1 DEF OverflowMinute, Turns
<1>14. CASE Return
  <2>1. /\ phase = "build" /\ phase' = "done"
        /\ cursor' = cursor /\ maxYear' = maxYear
    BY <1>14 DEF Return
  <2> QED
    BY <1>1, <2>1, ScanLeft DEF Turns
<1>15. CASE Advance
  <2>1. Before(cursor, cursor')
    BY <1>2, <1>15 DEF Advance, Cursors, Before
  <2> QED
    BY <1>3, <1>15, <2>1 DEF Advance, Turns
<1>16. CASE Reject \/ Start
  BY <1>1, <1>16 DEF Reject, Start, Scanning
<1> QED
  BY <1>1, <1>4, <1>5, <1>6, <1>7, <1>8, <1>9, <1>10, <1>11, <1>12, <1>13,
     <1>14, <1>15, <1>16 DEF Next

LEMMA LeftType == IInv /\ Scanning => Left \in Nat
<1> SUFFICES ASSUME IInv, Scanning PROVE Left \in Nat
  OBVIOUS
<1>1. Ahead(cursor) \in Nat
  BY ScanFacts, AheadType
<1>2. Turns[phase] \in Nat
  BY DEF IInv, TypeOK, Scanning, Ended, Turns
<1> QED
  BY <1>1, <1>2 DEF Left

(* The loop of getNextRunTime comes to an end: the distance to the end of  *)
(* the search is a natural number, and every step of the loop lessens it.  *)
THEOREM LoopEnds ==
  Spec => [](Scanning => Left \in Nat) /\ [][Scanning => Left' < Left]_vars
<1>1. IInv /\ IInv' /\ [Next]_vars => [Scanning => Left' < Left]_vars
  BY StepLeft
<1> QED
  BY InitIInv, NextIInv, LeftType, <1>1, PTL DEF Spec

-----------------------------------------------------------------------------
(* What module Scheduling assumes of next run times                        *)

Matches(f) ==
  {p \in [year : Years, month : f.months, day : f.daysOfMonth,
          hour : f.hours, minute : f.minutes] :
     p.day <= MonthDays(p.year, p.month) /\ DayOfWeek(p) \in f.daysOfWeek}

(* x is the first minute after r that matches an expression.               *)
IsNextRun(e, r, x) ==
  /\ \E p \in Matches(ParseExpression(e)) : Utc(p) * 60 > r /\ Utc(p) = x
  /\ \A p \in Matches(ParseExpression(e)) : Utc(p) * 60 > r => x <= Utc(p)

(* The expression is parsed once.                                          *)
ParsedInv ==
  Scanning => ValidExpression(expression) /\ fields = ParseExpression(expression)

LEMMA InitParsed == Init => ParsedInv
BY DEF Init, ParsedInv, Scanning

LEMMA NextParsed == ParsedInv /\ [Next]_vars => ParsedInv'
<1>1. SUFFICES ASSUME ParsedInv, [Next]_vars PROVE ParsedInv'
  OBVIOUS
<1>2. CASE Start
  <2>1. /\ ValidExpression(expression) /\ fields' = ParseExpression(expression)
        /\ expression' = expression
    BY <1>2 DEF Start, arguments
  <2> QED
    BY <2>1 DEF ParsedInv, ValidExpression, ParseExpression
<1>3. ASSUME fields' = fields, expression' = expression, Scanning' => Scanning
      PROVE  ParsedInv'
  BY <1>1, <1>3 DEF ParsedInv, ValidExpression, ParseExpression
<1>4. ASSUME NEW from, NEW to, from \notin {"parse", "rejected"}, Scan(from, to)
      PROVE  ParsedInv'
  BY <1>3, <1>4 DEF Scan, arguments, Scanning
<1>5. CASE Reject \/ Return \/ UNCHANGED vars
  BY <1>3, <1>5 DEF Reject, Return, vars, arguments, Scanning
<1>6. CASE GiveUp \/ Advance
  BY <1>4, <1>6 DEF GiveUp, Advance
<1>7. CASE \E m \in 1..12 : FindMonth(m) \/ OverflowMonth(m)
  BY <1>4, <1>7 DEF FindMonth, OverflowMonth
<1>8. CASE (\E d \in 1..31 : FindDay(d)) \/ OverflowDay
  BY <1>4, <1>8 DEF FindDay, OverflowDay
<1>9. CASE CheckWeekday \/ SkipDay
  BY <1>4, <1>9 DEF CheckWeekday, SkipDay
<1>10. CASE (\E h \in 0..23 : FindHour(h)) \/ OverflowHour
  BY <1>4, <1>10 DEF FindHour, OverflowHour
<1>11. CASE (\E m \in 0..59 : FindMinute(m)) \/ OverflowMinute
  BY <1>4, <1>11 DEF FindMinute, OverflowMinute
<1> QED
  BY <1>1, <1>2, <1>5, <1>6, <1>7, <1>8, <1>9, <1>10, <1>11 DEF Next

(* What getNextRunTime returns in UTC is a function of the expression and  *)
(* the reference alone: the first match of the one after the other.        *)
THEOREM NextRun ==
  Spec => [](phase = "done" /\ zone.name = "UTC" =>
               IsNextRun(expression, reference, result))
<1>1. ASSUME IInv, ParsedInv, phase = "done", zone.name = "UTC"
      PROVE  IsNextRun(expression, reference, result)
  <2>1. SearchCorrect /\ Scanning
    BY <1>1, IInvSearch DEF Scanning
  <2>2. Matching = Matches(ParseExpression(expression))
    BY <1>1, <2>1 DEF ParsedInv, Matching, Matches
  <2> QED
    BY <1>1, <2>1, <2>2 DEF SearchCorrect, IsNextRun, After
<1>2. IInv /\ ParsedInv =>
        (phase = "done" /\ zone.name = "UTC" =>
           IsNextRun(expression, reference, result))
  BY <1>1
<1> QED
  BY InitIInv, NextIInv, InitParsed, NextParsed, <1>2, PTL DEF Spec

(* A next run is later than its reference, and a later reference gives no  *)
(* earlier one: what LaunchesAreSpaced of SchedulingProofs calls Growing,  *)
(* for schedules in UTC.                                                   *)
THEOREM NextRunsGrow ==
  ASSUME NEW e \in Expressions, ValidExpression(e),
         NEW r \in Int, NEW s \in Int, r <= s, NEW x, NEW y,
         IsNextRun(e, r, x), IsNextRun(e, s, y)
  PROVE  x * 60 > r /\ x <= y
<1>1. Matches(ParseExpression(e)) \subseteq Dates
  <2>1. PICK f : f = ParseExpression(e)
    OBVIOUS
  <2>2. /\ f.months \subseteq 1..12 /\ f.daysOfMonth \subseteq 1..31
        /\ f.hours \subseteq 0..23 /\ f.minutes \subseteq 0..59
    BY <2>1, Parsed
  <2>3. ASSUME NEW p \in Matches(f) PROVE p \in Dates
    <3>1. /\ p \in [year : Years, month : f.months, day : f.daysOfMonth,
                    hour : f.hours, minute : f.minutes]
          /\ p.day <= MonthDays(p.year, p.month)
      BY DEF Matches
    <3>2. p \in [year : Years, month : 1..12, day : 1..31, hour : 0..23,
                 minute : 0..59]
      BY <2>2, <3>1
    <3> QED
      BY <3>1, <3>2 DEF Dates
  <2> QED
    BY <2>1, <2>3
<1>2. PICK q \in Matches(ParseExpression(e)) : Utc(q) * 60 > s /\ Utc(q) = y
  BY DEF IsNextRun
<1>3. PICK p \in Matches(ParseExpression(e)) : Utc(p) * 60 > r /\ Utc(p) = x
  BY DEF IsNextRun
<1>4. x \in Int /\ y \in Int
  BY <1>1, <1>2, <1>3, UtcType
<1>5. y * 60 > s /\ x * 60 > r
  BY <1>2, <1>3
<1>6. y * 60 > r
  BY <1>4, <1>5
<1>7. x <= y
  BY <1>2, <1>6 DEF IsNextRun
<1> QED
  BY <1>5, <1>7
=============================================================================
