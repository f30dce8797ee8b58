SPECIFICATION Spec
CONSTANTS
  Runs = {a, b}
  Healthy = {}
  MaxTime = 10
  Baseline = 1
  Duration = 2
  Recovery = 1
  Slack = 2
  ApiTimeout = 1
  ExecMargin = 1
  VerifyTimeout = 1
  StartBy = 3
SYMMETRY Symmetry
INVARIANTS NoOverlappingLoads
