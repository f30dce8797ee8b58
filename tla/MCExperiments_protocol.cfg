SPECIFICATION FairSpec
CONSTANTS
  Runs = {a, b}
  Healthy = {}
  MaxTime = 9
  Baseline = 1
  Duration = 1
  Recovery = 1
  Slack = 2
  ApiTimeout = 1
  ExecMargin = 1
  VerifyTimeout = 1
  StartBy = 2
INVARIANTS TypeOK LoadUnderActiveRow PhasesOrdered LabelsCoverTheLoad SuccessIsRecorded
PROPERTIES ImplementsSingle OutcomeIsFinal EveryExperimentEnds
