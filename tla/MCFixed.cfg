SPECIFICATION Spec
CONSTANTS
  Ts <- MCTs
  MonthOf <- MCMonthOf
  DayOf <- MCDayOf
  Units = {"month", "day"}
  MaxPuts = 3
  MaxFails = 2
  MaxRebuilds = 1
INVARIANTS AckedReadable PrefixOfPartitions NoOrphansWhenClean MonthsNotBlocked
