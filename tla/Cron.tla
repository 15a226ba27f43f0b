-------------------------------- MODULE Cron ---------------------------------
(***************************************************************************)
(* parseCronExpression and getNextRunTime of cron-evaluator.ts: the scan   *)
(* from field to field for the next moment that matches an expression, and *)
(* the conversion of that moment, in the time zone of a schedule, to a     *)
(* point in time.  phase names the field whose turn it is; every           *)
(* `continue' of the loop leads back to "month".  Points in time are       *)
(* minutes since the epoch, references are seconds.                        *)
(***************************************************************************)
EXTENDS Integers, Sequences

CONSTANTS
  Years,        \* years of the calendar
  MonthDays(_, _),   \* number of days of a month of a year
  MonthStart(_, _),  \* number of days from the epoch to its first day
  Expressions,  \* sequences of fields, a field is a set of parts
  References,   \* reference timestamps
  Zones,        \* [name, offset, saving, summer]
  Midnight,     \* the hour that Intl shows at midnight: 0 or 24
  Asterisk, NaN, Absent  \* "*", what is no number, what is not there

Months == Years \X (1..12)

(* The calendar of Date: a month starts when all earlier ones are over.    *)
ASSUME CalendarAssumption ==
  /\ Years \subseteq Int
  /\ \A y \in Years, m \in 1..12 :
       MonthDays(y, m) \in 28..31 /\ MonthStart(y, m) \in Int
  /\ \A y, z \in Years, m, n \in 1..12 :
       y < z \/ (y = z /\ m < n) =>
         MonthStart(y, m) + MonthDays(y, m) <= MonthStart(z, n)
ASSUME ClockAssumption == Midnight \in {0, 24} /\ References \subseteq Int

(* What splitting a token at , - and / yields; * is not part of a range.   *)
Part == {part \in [from : Int \cup {Asterisk, NaN}, to : Int \cup {Absent, NaN},
                   step : Int \cup {Absent, NaN}] :
           part.from = Asterisk => part.to = Absent}

ASSUME TokenAssumption == Asterisk \notin Int /\ NaN \notin Int /\ Absent \notin Int
ASSUME ExpressionAssumption ==
  \A e \in Expressions :
    e \in Seq(SUBSET Part) /\ \A i \in 1..Len(e) : e[i] # {}

-----------------------------------------------------------------------------
(* Dates                                                                   *)

At(y, m, d, h, i) ==
  [year |-> y, month |-> m, day |-> d, hour |-> h, minute |-> i]

NextMonth(p) ==
  IF p.month < 12 THEN At(p.year, p.month + 1, 1, 0, 0)
                  ELSE At(p.year + 1, 1, 1, 0, 0)

NextDay(p) ==
  IF p.day < MonthDays(p.year, p.month)
    THEN At(p.year, p.month, p.day + 1, 0, 0)
    ELSE NextMonth(p)

Utc(p) ==
  (MonthStart(p.year, p.month) + p.day - 1) * 1440 + p.hour * 60 + p.minute

(* The first day of the epoch was a Thursday.                              *)
DayOfWeek(p) == (MonthStart(p.year, p.month) + p.day + 3) % 7

Contains(mo, t) ==
  /\ MonthStart(mo[1], mo[2]) * 1440 <= t
  /\ t < (MonthStart(mo[1], mo[2]) + MonthDays(mo[1], mo[2])) * 1440

CivilTime[t \in Int] ==
  LET month == CHOOSE mo \in Months : Contains(mo, t)
      rest  == t - MonthStart(month[1], month[2]) * 1440
  IN At(month[1], month[2], rest \div 1440 + 1, (rest % 1440) \div 60,
        rest % 60)

(* A zone keeps summer time in some periods.                               *)
LocalTime(t, z) ==
  CivilTime[t + z.offset
              + IF \E s \in z.summer : s[1] <= t /\ t < s[2]
                  THEN z.saving ELSE 0]

DateParts(t, z) ==
  IF z.name = "UTC" THEN CivilTime[t]
  ELSE LET p == LocalTime(t, z)
       IN IF p.hour = 0 THEN [p EXCEPT !.hour = Midnight] ELSE p

(* The calendar reaches from the references to the end of the search.      *)
ASSUME ReachAssumption ==
  \A r \in References, z \in Zones :
    /\ z.offset \in Int /\ z.saving \in Int
    /\ z.name = "UTC" => z.offset = 0 /\ z.saving = 0
    /\ \A s \in {0, z.saving} : \E mo \in Months :
         /\ Contains(mo, r \div 60 + 1 + z.offset + s)
         /\ mo[1]..(mo[1] + 4) \subseteq Years

-----------------------------------------------------------------------------
(* buildTimestampInTimezone                                                *)

(* Minutes with months of 43800 minutes each.                              *)
Weight(p) ==
  p.year * 525960 + p.month * 43800 + p.day * 1440 + p.hour * 60 + p.minute

Guess(p, z) == Utc(p) + Weight(p) - Weight(DateParts(Utc(p), z))

Adjustments == <<0, 60, -60, 120, -120>>

(* Mutant: the guess is taken without the adjustments.                     *)
BuildUnverified(p, z) == IF z.name = "UTC" THEN Utc(p) ELSE Guess(p, z)

BuildTimestamp(p, z) ==
  LET Verified(i) == DateParts(Guess(p, z) + Adjustments[i], z) = p
      first == CHOOSE i \in 1..5 : Verified(i) /\ \A j \in 1..i-1 : ~Verified(j)
  IN CASE z.name = "UTC" -> Utc(p)
       [] z.name # "UTC" /\ (\E i \in 1..5 : Verified(i)) ->
            Guess(p, z) + Adjustments[first]
       [] OTHER -> Guess(p, z)

-----------------------------------------------------------------------------
(* parseField.  A part is [from, to, step]: *, 5, 1-5, */5, 3/5 or 1-30/5. *)

FieldSpecs == <<[min |-> 0, max |-> 59], [min |-> 0, max |-> 23],
                [min |-> 1, max |-> 31], [min |-> 1, max |-> 12],
                [min |-> 0, max |-> 6]>>

First(part, spec) == IF part.from = Asterisk THEN spec.min ELSE part.from

Last(part, spec) ==
  CASE part.from = Asterisk -> spec.max
    [] part.from # Asterisk /\ part.to # Absent -> part.to
    [] part.from # Asterisk /\ part.to = Absent /\ part.step # Absent -> spec.max
    [] OTHER -> part.from

StepOf(part) == IF part.step = Absent THEN 1 ELSE part.step

(* Mutant: the end of a range is not checked.                              *)
ValidPartOpen(part, spec) ==
  /\ part.step # NaN /\ part.from # NaN /\ part.to # NaN
  /\ StepOf(part) > 0
  /\ spec.min <= First(part, spec) /\ First(part, spec) <= Last(part, spec)

ValidPart(part, spec) ==
  /\ part.step # NaN /\ part.from # NaN /\ part.to # NaN
  /\ StepOf(part) > 0
  /\ spec.min <= First(part, spec) /\ First(part, spec) <= Last(part, spec)
  /\ Last(part, spec) <= spec.max

Values(field, spec) ==
  UNION {{v \in First(part, spec)..Last(part, spec) :
            (v - First(part, spec)) % StepOf(part) = 0} : part \in field}

ValidExpression(e) ==
  /\ Len(e) = 5
  /\ \A i \in 1..5 : \A part \in e[i] : ValidPart(part, FieldSpecs[i])

ParseExpression(e) ==
  [minutes     |-> Values(e[1], FieldSpecs[1]),
   hours       |-> Values(e[2], FieldSpecs[2]),
   daysOfMonth |-> Values(e[3], FieldSpecs[3]),
   months      |-> Values(e[4], FieldSpecs[4]),
   daysOfWeek  |-> Values(e[5], FieldSpecs[5])]

-----------------------------------------------------------------------------
(* getNextRunTime                                                          *)

VARIABLES
  expression, zone, reference,  \* the arguments, fixed
  phase,     \* the field that is looked at, or how the call ended
  fields,    \* the sets of allowed values
  cursor,    \* year, month, day, hour and minute of the scan
  maxYear,   \* the last year that is searched
  result     \* the minute returned

arguments == <<expression, zone, reference>>
vars == <<arguments, phase, fields, cursor, maxYear, result>>

Init ==
  /\ expression \in Expressions
  /\ zone \in Zones
  /\ reference \in References
  /\ phase = "parse"
  /\ fields = [minutes |-> {}, hours |-> {}, daysOfMonth |-> {},
               months |-> {}, daysOfWeek |-> {}]
  /\ cursor = At(0, 1, 1, 0, 0)
  /\ maxYear = 0
  /\ result = 0

Reject ==
  /\ phase = "parse"
  /\ ~ValidExpression(expression)
  /\ phase' = "rejected"
  /\ UNCHANGED <<arguments, fields, cursor, maxYear, result>>

(* The scan starts with the minute after the reference.                    *)
Start ==
  /\ phase = "parse"
  /\ ValidExpression(expression)
  /\ fields' = ParseExpression(expression)
  /\ cursor' = DateParts(reference \div 60 + 1, zone)
  /\ maxYear' = cursor'.year + 4
  /\ phase' = "month"
  /\ UNCHANGED <<arguments, result>>

(* findNextOrEqual                                                         *)
IsNext(v, allowed, current) ==
  /\ v \in allowed /\ v >= current
  /\ \A w \in allowed : w >= current => v <= w

NoneLeft(allowed, current) == \A v \in allowed : v < current

Scan(from, to) ==
  /\ phase = from
  /\ phase' = to
  /\ UNCHANGED <<arguments, fields, maxYear, result>>

GiveUp ==
  /\ Scan("month", "gaveUp")
  /\ cursor.year > maxYear
  /\ UNCHANGED cursor

FindMonth(m) ==
  /\ Scan("month", "day")
  /\ cursor.year <= maxYear
  /\ IsNext(m, fields.months, cursor.month)
  /\ cursor' = IF m > cursor.month THEN At(cursor.year, m, 1, 0, 0) ELSE cursor

OverflowMonth(m) ==
  /\ Scan("month", "month")
  /\ cursor.year <= maxYear
  /\ NoneLeft(fields.months, cursor.month)
  /\ IsNext(m, fields.months, 1)
  /\ cursor' = At(cursor.year + 1, m, 1, 0, 0)

ValidDays ==
  {d \in fields.daysOfMonth : d <= MonthDays(cursor.year, cursor.month)}

(* Mutant: the time of day survives the move to another day.               *)
FindDayKeepTime(d) ==
  /\ Scan("day", "weekday")
  /\ IsNext(d, ValidDays, cursor.day)
  /\ cursor' = [cursor EXCEPT !.day = d]

FindDay(d) ==
  /\ Scan("day", "weekday")
  /\ IsNext(d, ValidDays, cursor.day)
  /\ cursor' = IF d > cursor.day THEN At(cursor.year, cursor.month, d, 0, 0)
                                 ELSE cursor

OverflowDay ==
  /\ Scan("day", "month")
  /\ NoneLeft(ValidDays, cursor.day)
  /\ cursor' = NextMonth(cursor)

CheckWeekday ==
  /\ Scan("weekday", "hour")
  /\ DayOfWeek(cursor) \in fields.daysOfWeek
  /\ UNCHANGED cursor

SkipDay ==
  /\ Scan("weekday", "month")
  /\ DayOfWeek(cursor) \notin fields.daysOfWeek
  /\ cursor' = NextDay(cursor)

FindHour(h) ==
  /\ Scan("hour", "minute")
  /\ IsNext(h, fields.hours, cursor.hour)
  /\ cursor' = IF h > cursor.hour
                 THEN At(cursor.year, cursor.month, cursor.day, h, 0)
                 ELSE cursor

OverflowHour ==
  /\ Scan("hour", "month")
  /\ NoneLeft(fields.hours, cursor.hour)
  /\ cursor' = NextDay(cursor)

FindMinute(m) ==
  /\ Scan("minute", "build")
  /\ IsNext(m, fields.minutes, cursor.minute)
  /\ cursor' = [cursor EXCEPT !.minute = m]

(* Mutant: the hour is not advanced.                                       *)
OverflowMinuteStay ==
  /\ Scan("minute", "month")
  /\ NoneLeft(fields.minutes, cursor.minute)
  /\ cursor' = [cursor EXCEPT !.minute = 0]

OverflowMinute ==
  /\ Scan("minute", "month")
  /\ NoneLeft(fields.minutes, cursor.minute)
  /\ cursor' = [cursor EXCEPT !.hour = @ + 1, !.minute = 0]

Return ==
  /\ phase = "build"
  /\ BuildTimestamp(cursor, zone) * 60 > reference
  /\ result' = BuildTimestamp(cursor, zone)
  /\ phase' = "done"
  /\ UNCHANGED <<arguments, fields, cursor, maxYear>>

Advance ==
  /\ Scan("build", "month")
  /\ BuildTimestamp(cursor, zone) * 60 <= reference
  /\ cursor' = IF cursor.minute = 59
                 THEN [cursor EXCEPT !.hour = @ + 1, !.minute = 0]
                 ELSE [cursor EXCEPT !.minute = @ + 1]

Next ==
  \/ Reject
  \/ Start
  \/ GiveUp
  \/ \E m \in 1..12 : FindMonth(m) \/ OverflowMonth(m)
  \/ \E d \in 1..31 : FindDay(d)
  \/ OverflowDay
  \/ CheckWeekday
  \/ SkipDay
  \/ \E h \in 0..23 : FindHour(h)
  \/ OverflowHour
  \/ \E m \in 0..59 : FindMinute(m)
  \/ OverflowMinute
  \/ Return
  \/ Advance

Spec == Init /\ [][Next]_vars

(* The function runs in one turn of the event loop.                        *)
FairSpec == Spec /\ WF_vars(Next)
=============================================================================
