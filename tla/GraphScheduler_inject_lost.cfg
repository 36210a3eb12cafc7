SPECIFICATION Spec
CONSTANTS
  NodeIds <- MCNodeIds
  Executors = {e1, e2}
  e1 = e1
  e2 = e2
  i1 = i1
  i2 = i2
  NoExecutor = NoExecutor
  NoNode = NoNode
  MaxNodeRetries = 1
  MaxExecutorSwitches = 1
  MaxReplans = 1
  Injections = {i1, i2}
  InjectionType <- AnomalyAndChange
  AfterCompleted <- ChangeAfterOne
  Preset = {i2}
  Governance = {3}
  InitialPlans <- Chain
  Replacements <- SmallPlans
  Candidates <- EveryExecutor
  Allowed <- PartlyAllowed
  NodeRetryLimit <- RetryLimits
  Producers = {}
  HasPlanner = TRUE
  PersistTransitions = TRUE
  Windowed = FALSE
  MaxActive = 1
  MailboxLimit = 1
INVARIANTS
  ChangeIsEnforced
