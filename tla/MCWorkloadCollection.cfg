SPECIFICATION FairSpec
CONSTANTS
  c1 = c1
  c2 = c2
  c3 = c3
  p1 = p1
  p2 = p2
  Container <- MCContainer
  Pod <- MCPod
  PodOf <- MCPodOf
  NamespaceOf <- MCNamespaceOf
  OwnerOf <- MCOwnerOf
  SetOwner <- MCSetOwner
  Deployment <- MCDeployment
  LimitOf <- MCLimitOf
  Busy <- MCBusy
  First <- MCFirst
  Interval = 2
  KeptEvents = 1
  MaxElapsed = 1
  MaxUsage = 2
  MaxChanges = 2
  MaxFaults = 1
  MaxGeneration = 2
INVARIANTS TypeOK OwnersResolve DeploymentsToldApart
PROPERTIES UsageIsPossible IdentityKept FreshEnough Converges
