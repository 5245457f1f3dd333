SPECIFICATION Spec
CONSTANTS
  Analyses = {1}
  Watches = {11}
  Procs = {p1, p2}
  MaxSubmissions = 1
  RenderCapacity = 1
  MaxClaims = 2
  MaxStalls = 0
  MaxOutages = 0
  TransientErrors = FALSE
PROPERTY RecoveryLeavesEndedRuns
