SPECIFICATION Spec
CONSTANTS
  Ts <- MCTs
  MonthOf <- MCMonthOf
  DayOf <- MCDayOf
  Units = {"month", "day"}
  MaxPuts = 2
  MaxFails = 1
  MaxRebuilds = 0
INVARIANTS PutsNotBlocked
