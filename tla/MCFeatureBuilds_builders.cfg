SPECIFICATION FairSpec
CONSTANTS
  N = 3
  Barren = {1}
  Limit = 2
  MaxRows = 2
  MaxFaults = 1
  Cron = cron
  Manual = {m1}
INVARIANTS TypeOK CompletedMeansBuilt
PROPERTIES FeaturesStable EveryExperimentIsBuilt
