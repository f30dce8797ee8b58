SPECIFICATION AgentSpec
CONSTANTS
  MaxTime = 5
  MaxFaults = 2
  SizeOf <- Sizes
  SpoolMaxBytes = 4
  MaxBatchSnapshots = 2
  MaxBatchBytes = 3
  FailureCap = 2
  Unreadable = {5}
INVARIANTS SpoolWithinLimit
PROPERTIES DrainsInOrder
