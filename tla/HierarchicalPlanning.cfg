SPECIFICATION Spec
CONSTANTS
  d1 = d1
  d2 = d2
  f1 = f1
  f2 = f2
  NodeIds = {d1, d2, f1, f2}
  Drafted = {d1, d2}
  Nobody = Nobody
  MaxLinks = 1
  MaxPatchLinks = 1
  MaxPatch = 2
  MaxRounds = 2
  Analysis = Analysis
  Code = Code
  Terminal = Terminal
  Evidence = Evidence
  Artifacts = Artifacts
SYMMETRY IdSymmetry
CHECK_DEADLOCK FALSE
INVARIANTS
  OrderKept
  ShapeRepaired
PROPERTIES
  BoundaryKept
