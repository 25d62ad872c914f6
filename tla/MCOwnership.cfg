SPECIFICATION Spec
CONSTANTS
  Procs <- MCProcs
  Handles <- MCHandles
  ReadOnly = {"p_ro"}
  ProcOf <- MCProcOf
  NoProc = "none"
  Batches <- MCBatches
  Workloads = {"covering", "any"}
  Legacy = FALSE
  MaxCommits = 3
  MaxFaults = 1
INVARIANTS ReadersSeeTheStore CommitsStay
PROPERTIES SealedIsFrozen
