SPECIFICATION AgentSpec
CONSTANTS
  MaxTime = 5
  MaxFaults = 3
  SizeOf <- Units
  SpoolMaxBytes = 2
  MaxBatchSnapshots = 2
  MaxBatchBytes = 2
  FailureCap = 1
  Unreadable = {}
INVARIANT DirectoryBounded
