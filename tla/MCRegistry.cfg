SPECIFICATION Spec
CONSTANTS
  p1 = p1
  p2 = p2
  r1 = r1
  r2 = r2
  none = none
  Procs <- MCProcs
  Ids = {"d"}
  Versions = {1}
  Roots <- MCRoots
  NoRoot = none
  Stamps = {1}
  LegacyRows <- MCLegacyRows
  MaxContent = 2
  MaxTampers = 1
  MaxCalls = 3
  MaxCrashes = 1
SYMMETRY Symmetric
INVARIANTS
  BoundRowsAgree
  ResolveIsPinned
  RefusalIsTrue
  OpenIsReady
PROPERTIES
  BindingsAreFinal
CHECK_DEADLOCK FALSE
