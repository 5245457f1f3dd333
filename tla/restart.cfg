SPECIFICATION Spec
CONSTANTS
  Analyses = {1, 2}
  Watches = {11}
  Procs = {p1}
  MaxSubmissions = 1
  RenderCapacity = 1
  MaxClaims = 2
  MaxStalls = 1
  MaxOutages = 1
  TransientErrors = TRUE
INVARIANTS TypeOK JobAgrees
PROPERTIES CancelWins OutcomeIsFinal
