SPECIFICATION Spec
CONSTANTS
  MaxTime = 4
  MaxFaults = 0
  SizeOf <- UnitSizes
  SpoolMaxBytes = 4
  MaxBatchSnapshots = 2
  MaxBatchBytes = 2
  FailureCap = 1
  Unreadable = {}
  Handlers = {h1, h2}
  NoHandler = NoHandler
  MaxInfraSnapshots = 2
  MaxSnapshotAge = 1
  MaxPayloadBytes = 2
SYMMETRY Symmetry
INVARIANT OnlyBadSnapshotsRefused
