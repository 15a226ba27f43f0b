CONSTANTS
  Years <- YearRange
  MonthDays <- GregorianDays
  MonthStart <- GregorianStart
  Expressions <- Cases
  References <- Instants
  Zones <- Cities
  Midnight = 24
  Asterisk = Asterisk
  NaN = NaN
  Absent = Absent
SPECIFICATION FairSpec
INVARIANTS TypeOK SearchCorrect ZoneCorrect
PROPERTY Terminates
CHECK_DEADLOCK FALSE
