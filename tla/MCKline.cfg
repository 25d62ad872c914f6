SPECIFICATION FairSpec
CONSTANTS
  Ts <- MCTs
  Months <- MCMonths
  MonthOf <- MCMonthOf
  AutoMerge = TRUE
  MergeThreshold = 2
  MaxPuts = 3
  MaxFails = 2
INVARIANTS AckedReadable OneRowPerTimestamp IInv
PROPERTIES RowsNeverVanish RecoveryCompletes ImplementsAppendLog
