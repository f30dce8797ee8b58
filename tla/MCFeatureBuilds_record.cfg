SPECIFICATION Spec
CONSTANTS
  N = 2
  Barren = {}
  Limit = 2
  MaxRows = 2
  MaxFaults = 0
  Cron = cron
  Manual = {m1, m2}
SYMMETRY Symmetry
INVARIANTS FailedMeansUnbuilt
