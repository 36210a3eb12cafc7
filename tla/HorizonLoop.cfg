SPECIFICATION FairSpec
CONSTANTS
  NodeIds <- MCNodeIds
  Requirements = {1, 2, 3, 4}
  NoRequirement = 0
  Cost <- MCCost
  MaxPerStage = 2
  MaxPrompt = 4
  Governance = {"terminal_execution", "evidence_verification", "artifact_validation"}
  GovernanceId <- MCGovernanceId
  DeliveryId = 3
  Contracts <- MCContracts
  StageOf <- MCStageOf
  InitialPlans <- MCInitialPlans
  Replacements <- MCReplacements
  MaxReplans = 1
  MaxActive = 2
  PersistEvery = 2
  NameLimit = 3
  MaxCrashes = 2
INVARIANTS
  NothingSkipped
  StageOrder
  CrashLosesOneBatch
  ReturnedMeansSaved
  CopyFollowsGraph
PROPERTIES
  NoRedo
  HorizonTermination
CHECK_DEADLOCK FALSE
