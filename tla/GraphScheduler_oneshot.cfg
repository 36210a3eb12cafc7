SPECIFICATION FairSpec
CONSTANTS
  NodeIds <- MCNodeIds
  Executors = {e1, e2}
  e1 = e1
  e2 = e2
  i1 = i1
  i2 = i2
  NoExecutor = NoExecutor
  NoNode = NoNode
  MaxNodeRetries = 1
  MaxExecutorSwitches = 1
  MaxReplans = 1
  Injections = {}
  InjectionType <- NoTypes
  AfterCompleted <- NoDelays
  Preset = {}
  Governance = {}
  InitialPlans <- FullPlans
  Replacements <- AllPlans
  Candidates <- EveryExecutor
  Allowed <- PartlyAllowed
  NodeRetryLimit <- RetryLimits
  Producers = {1}
  HasPlanner = TRUE
  PersistTransitions = TRUE
  Windowed = FALSE
  MaxActive = 1
  MailboxLimit = 3
INVARIANTS
  TypeOK
  DependencyOrder
  AttemptsAccounted
  RunStateMirrors
  SnapshotCurrent
  OutcomeTruthful
  NoDeadlockError
PROPERTIES
  CompletedIsFinal
  ImplementsDag
  Termination
