SPECIFICATION Spec
CONSTANTS
  Analyses = {1}
  Watches = {}
  Procs = {p1}
  MaxSubmissions = 1
  RenderCapacity = 1
  MaxClaims = 2
  MaxStalls = 0
  MaxOutages = 1
  TransientErrors = FALSE
PROPERTY CrashCostsOnlyHtml
