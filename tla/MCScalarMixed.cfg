SPECIFICATION FairSpec
CONSTANTS
  Ts <- MCPair
  Months <- MCOneMonth
  MonthOf <- MCMonthOfOne
  Workloads = {"any"}
  MaxPuts = 2
  MaxFails = 0
  MaxRebuilds = 0
INVARIANTS WholeVersions
