SPECIFICATION LiveSpec
CONSTANTS
  Analyses = {1, 2}
  Watches = {11}
  Procs = {p1}
  MaxSubmissions = 1
  RenderCapacity = 1
  MaxClaims = 3
  MaxStalls = 1
  MaxOutages = 1
  TransientErrors = FALSE
  Readers = {1, 2}
  Callers = {3}
  Sheets = {"positions"}
  Accounts = {"a", "b"}
  MaxRetries = 1
  Allowances <- MCAllowances
  PublicTasks = {1, 2}
  PublicKeys = {"reasons"}
  KeptKeys = {"reasons"}
  Route <- MCRoute
  Permits = 1
  RestAfter = 2
  MaxCancels = 1
CHECK_DEADLOCK FALSE
INVARIANT NoOrphan
PROPERTIES AccountReleased CancelHonoured ParkedSettles ReadsAreCurrent GatewaysAnswer
