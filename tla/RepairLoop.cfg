SPECIFICATION RepairFairSpec
CONSTANTS
  NodeIds <- MCNodeIds
  Executors = {e1}
  e1 = e1
  x1 = x1
  x2 = x2
  x3 = x3
  NoExecutor = NoExecutor
  NoNode = NoNode
  MaxNodeRetries = 0
  MaxExecutorSwitches = 0
  MaxReplans = 1
  Injections = {}
  InjectionType <- NoTypes
  AfterCompleted <- NoDelays
  Preset = {}
  Governance = {3}
  InitialPlans <- FirstPlans
  Replacements <- OtherPlans
  Candidates <- OneExecutor
  Allowed <- OneExecutor
  NodeRetryLimit <- NoRetry
  Producers = {}
  HasPlanner = TRUE
  PersistTransitions = TRUE
  Windowed = FALSE
  MaxActive = 1
  MailboxLimit = 0
  Issues = {x1, x2, x3}
  IssueSource <- Sources
  IssueTarget <- TargetsOf
  Verifiers = {3}
  Checkers = {}
  MaxRounds = 3
  Required = TRUE
INVARIANTS
  RepairTypeOK
  DependencyOrder
  OnlyCompletedWorkIsRepaired
  BlockersAreCurrent
  LedgerFollowsLoop
  RepairedIsEarned
PROPERTIES
  RepairScope
  RepairTermination
