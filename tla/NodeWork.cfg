SPECIFICATION FairSpec
CONSTANTS
  Bulk <- MCBulk
  Programs = {p1}
  Outputs = {o1, o2}
  Inputs = {f1}
  Wordings = {w1}
  MaxRetries = 1
  MaxTransportAttempts = 2
  HasPlugin = TRUE
  MaxRounds = 1
  Plugin = Plugin
  NoProgram = NoProgram
  Tampered = Tampered
  Missing = Missing
  Broken = Broken
  NoResult = NoResult
  NoRecord = NoRecord
INVARIANTS
  DeliveryIsEvidenced
PROPERTIES
  WorkEnds
CHECK_DEADLOCK FALSE
