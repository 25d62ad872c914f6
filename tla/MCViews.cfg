CONSTANTS
  Ts = {1, 2, 3}
  Months = {1, 2}
  MonthOf <- MCMonthOf
  MaxWrites = 2
  Inputs <- MCInputs
  MaxFails = 1
  Windows <- MCWindows
  FileCapacity = 1
  SidecarCapacity = 1
SPECIFICATION Spec
INVARIANTS
  CompletedMonthsStay
  ResumeWorks
  OrphansAreRedundant
  AnswersAreOneVersion
CHECK_DEADLOCK FALSE
