SPECIFICATION FairSpec
CONSTANTS
  Ts <- MCTs
  Months <- MCTwoMonths
  MonthOf <- MCMonthOfTwo
  Workloads = {"covering", "any"}
  MaxPuts = 3
  MaxFails = 1
  MaxRebuilds = 1
INVARIANTS SidecarsMatch RetryNotBlocked
PROPERTIES RecoveryCompletes ImplementsMonthVersions
