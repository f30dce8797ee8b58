SPECIFICATION FairSpec
CONSTANTS
  MaxTime = 3
  MaxFaults = 2
  SizeOf <- LargeFirst
  SpoolMaxBytes = 4
  MaxBatchSnapshots = 2
  MaxBatchBytes = 2
  FailureCap = 1
  Unreadable = {}
  Handlers = {h1, h2}
  NoHandler = NoHandler
  MaxInfraSnapshots = 2
  MaxSnapshotAge = 1
  MaxPayloadBytes = 4
INVARIANTS TypeOK NoSilentLoss NoGaps SightingsAreTrue
PROPERTIES LiveNeverRegresses OnlyReplaysGoBack ImplementsFeed SpoolDrains
