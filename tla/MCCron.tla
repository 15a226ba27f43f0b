------------------------------- MODULE MCCron --------------------------------
(* The Gregorian calendar around 2024, a zone west and one east of         *)
(* Greenwich with their summer time, and references before the ends of     *)
(* days, months and years and around changes of the clock.                 *)
EXTENDS CronProperties

YearRange == 2022..2029

Leap(y) == IF y % 4 = 0 THEN 1 ELSE 0

DaysBefore == <<0, 31, 59, 90, 120, 151, 181, 212, 243, 273, 304, 334>>

(* Tables, which TLC computes once.                                        *)
DaysTable ==
  [y \in YearRange, m \in 1..12 |->
     CASE m = 2 -> 28 + Leap(y) [] m \in {4, 6, 9, 11} -> 30 [] OTHER -> 31]

StartTable ==
  [y \in YearRange, m \in 1..12 |->
     365 * (y - 1970) + (y - 1969) \div 4
       + DaysBefore[m] + IF m > 2 THEN Leap(y) ELSE 0]

GregorianDays(y, m) == DaysTable[y, m]
GregorianStart(y, m) == StartTable[y, m]

Minute(y, m, d, h, i) ==
  (GregorianStart(y, m) + d - 1) * 1440 + h * 60 + i

Star == [from |-> Asterisk, to |-> Absent, step |-> Absent]
One(n) == [from |-> n, to |-> Absent, step |-> Absent]
Every(n) == [from |-> Asterisk, to |-> Absent, step |-> n]
Span(a, b) == [from |-> a, to |-> b, step |-> Absent]
Stride(a, b, n) == [from |-> a, to |-> b, step |-> n]
Onward(a, n) == [from |-> a, to |-> Absent, step |-> n]

(* Daily jobs, working hours, ends of months, leap days, days that do not  *)
(* exist, and tokens that are refused.                                     *)
Cases ==
  {<<{One(0)}, {One(2)}, {Star}, {Star}, {Star}>>,
   <<{One(30)}, {One(2), One(23)}, {Star}, {Star}, {Star}>>,
   <<{One(0)}, {One(0)}, {One(1)}, {Star}, {Star}>>,
   <<{One(0)}, {One(2)}, {One(1)}, {Star}, {Star}>>,
   <<{Every(30)}, {Span(9, 10)}, {Star}, {Star}, {Span(1, 5)}>>,
   <<{Onward(45, 7)}, {One(5)}, {One(31)}, {Every(5)}, {Star}>>,
   <<{One(59)}, {One(23)}, {One(29)}, {One(2)}, {Star}>>,
   <<{One(0)}, {One(12)}, {One(29)}, {One(2)}, {One(0)}>>,
   <<{One(15)}, {One(4)}, {Span(29, 31)}, {One(1), One(2)}, {One(4)}>>,
   <<{One(0)}, {One(12)}, {Span(30, 31)}, {One(2)}, {Star}>>,
   <<{Star}, {Star}, {Span(28, 33)}, {Star}, {Star}>>,
   <<{Stride(5, 1, 2)}, {Star}, {Star}, {Star}, {Star}>>,
   <<{Every(0)}, {Star}, {Star}, {Star}, {Star}>>,
   <<{Star}, {One(NaN)}, {Star}, {Star}, {Star}>>,
   <<{Star}, {Star}, {Star}, {Star}>>}

Instants ==
  {Minute(2023, 12, 31, 23, 58) * 60 + 59,
   Minute(2024, 1, 31, 23, 59) * 60,
   Minute(2024, 2, 28, 5, 44) * 60 + 30,
   Minute(2024, 2, 29, 23, 59) * 60,
   Minute(2024, 3, 10, 4, 59) * 60,
   Minute(2024, 3, 30, 22, 0) * 60,
   Minute(2024, 11, 3, 5, 30) * 60,
   Minute(2024, 12, 31, 10, 0) * 60}

UTC == [name |-> "UTC", offset |-> 0, saving |-> 0, summer |-> {}]
NewYork ==
  [name |-> "America/New_York", offset |-> -300, saving |-> 60, summer |->
     {<<Minute(2024, 3, 10, 7, 0), Minute(2024, 11, 3, 6, 0)>>,
      <<Minute(2025, 3, 9, 7, 0), Minute(2025, 11, 2, 6, 0)>>}]
Berlin ==
  [name |-> "Europe/Berlin", offset |-> 60, saving |-> 60, summer |->
     {<<Minute(2024, 3, 31, 1, 0), Minute(2024, 10, 27, 1, 0)>>,
      <<Minute(2025, 3, 30, 1, 0), Minute(2025, 10, 26, 1, 0)>>}]

Cities == {UTC, NewYork, Berlin}

(* The theorem about zones applies to these.                               *)
ASSUME CitiesAssumption == UsualClocks
=============================================================================
