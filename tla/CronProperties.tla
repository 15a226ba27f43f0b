--------------------------- MODULE CronProperties ----------------------------
(***************************************************************************)
(* What getNextRunTime promises: the first matching moment after the       *)
(* reference, in UTC and, as far as the conversion is right, in a zone.    *)
(***************************************************************************)
EXTENDS Cron

Ended == {"done", "gaveUp", "rejected"}

(* Allowed values lie in the ranges of FIELD_SPECS and every field allows  *)
(* one.  The cursor is a date, except that its hour may be 24, after the   *)
(* last minute of a day or where Intl shows midnight so, and that its year *)
(* may be past the calendar when the scan is over.                         *)
TypeOK ==
  /\ expression \in Expressions /\ zone \in Zones /\ reference \in References
  /\ phase \in {"parse", "month", "day", "weekday", "hour", "minute", "build"}
               \cup Ended
  /\ fields \in [minutes : SUBSET (0..59), hours : SUBSET (0..23),
                 daysOfMonth : SUBSET (1..31), months : SUBSET (1..12),
                 daysOfWeek : SUBSET (0..6)]
  /\ phase \notin {"parse", "rejected"} =>
       {} \notin {fields.minutes, fields.hours, fields.daysOfMonth,
                  fields.months, fields.daysOfWeek}
  /\ cursor \in [year : Int, month : 1..12, day : 1..31, hour : 0..24,
                 minute : 0..59]
  /\ phase \notin {"parse", "rejected"} /\ cursor.year \in Years =>
       cursor.day <= MonthDays(cursor.year, cursor.month)
  /\ maxYear \in Int

Matching ==
  {p \in [year : Years, month : fields.months, day : fields.daysOfMonth,
          hour : fields.hours, minute : fields.minutes] :
     p.day <= MonthDays(p.year, p.month) /\ DayOfWeek(p) \in fields.daysOfWeek}

After(p) == Utc(p) * 60 > reference

(* In UTC the scan returns the first matching minute after the reference:  *)
(* no field is reset too early or too late when another one overflows.  It *)
(* gives up only when the years up to maxYear have no matching minute.     *)
SearchCorrect ==
  zone.name = "UTC" =>
    /\ phase = "done" =>
         /\ \E p \in Matching : After(p) /\ Utc(p) = result
         /\ \A p \in Matching : After(p) => result <= Utc(p)
    /\ phase = "gaveUp" => \A p \in Matching : After(p) => p.year > maxYear

(* The offset of a zone is computed from weights that are right within a   *)
(* month.  When the guess does not leave the month, and Intl does not show *)
(* it as 24:00, the result shows the moment of the cursor in the zone, on  *)
(* days with a change of the clock too, unless that skips the moment.      *)
GuessIsUsable ==
  LET guess == DateParts(Utc(cursor), zone)
  IN guess.month = cursor.month /\ guess.hour # 24

IsSkipped ==
  \A o \in {zone.offset, zone.offset + zone.saving} :
    LocalTime(Utc(cursor) - o, zone) # cursor

ZoneCorrect ==
  phase = "done" /\ GuessIsUsable /\ ~IsSkipped =>
    LocalTime(result, zone) = cursor

(* What ZoneCorrect rests on: the calendar has no gaps and reaches a year  *)
(* beyond the search, summer time is a difference that the adjustments     *)
(* undo, and, where Intl shows midnight as 24:00 so that no adjustment is  *)
(* ever verified in the first hour of a day, no clock is changed between   *)
(* that hour in the zone and the same hour in UTC.                         *)
Saving(t, z) ==
  IF \E s \in z.summer : s[1] <= t /\ t < s[2] THEN z.saving ELSE 0

Continuous ==
  \A y \in Years, m \in 1..12 :
    LET next == NextMonth(At(y, m, 1, 0, 0))
    IN next.year \in Years =>
         MonthStart(next.year, next.month) = MonthStart(y, m) + MonthDays(y, m)

Surrounded ==
  \A r \in References, z \in Zones :
    LET y == DateParts(r \div 60 + 1, z).year IN (y - 1)..(y + 5) \subseteq Years

Adjustable ==
  \A z \in Zones : /\ z.offset \in -1440..1440
                   /\ z.saving \in {0, 60, -60, 120, -120}

QuietMidnight ==
  Midnight = 24 =>
    \A z \in Zones, y \in Years, m \in 1..12 :
      \A d \in 1..MonthDays(y, m), i \in 0..59 :
        LET t == Utc(At(y, m, d, 0, i))
        IN Saving(t - z.offset - Saving(t, z), z) = Saving(t, z)

UsualClocks == Continuous /\ Surrounded /\ Adjustable /\ QuietMidnight

(* The loop comes to an end for every expression, those that never match   *)
(* included: no `continue' leaves the cursor where it was.                 *)
Terminates == <>(phase \in Ended)
=============================================================================
