SPECIFICATION Spec
CONSTANTS
  Analyses = {1}
  Watches = {11}
  Procs = {p1, p2}
  MaxSubmissions = 1
  RenderCapacity = 1
  MaxClaims = 3
  MaxStalls = 1
  MaxOutages = 1
  TransientErrors = FALSE
INVARIANTS OneActiveJob NoReplay TradesApart
PROPERTIES ReclaimedNeverSucceeds LaneSpec
SYMMETRY ProcSymmetry
