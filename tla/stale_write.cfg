SPECIFICATION Spec
CONSTANTS
  TradingRuns = {1, 2}
  Calls = {11, 12}
  Reviews = {21, 22}
  Prices = {1, 2}
  Caps = {2, 3}
  Budgets <- MCBudgets
  PlanRuns = {1, 2}
  PlanOrders = {31, 32}
  PlanPrices = {2, 3}
  PlanClock = {1, 2}
  Keys = {1, 2}
  SequentialKeys = {2}
  MaxFailures = 2
  Concurrency = 2
  Room = 7
  KeepRecent = 3
  MaxPrompts = 2
  MaxReplies = 4
  Editors = {1, 2}
  Stages = {"Run"}
  ModelNames = {"x", "y"}
  MaxChannels = 2
  MaxModels = 4
  MaxEdits = 5
  PublicTasks = {1, 2, 3}
  PublicKeys = {"hot list"}
  KeptKeys = {"hot list"}
  Route <- MCRoute
  Permits = 1
  RestAfter = 2
  MaxCancels = 1
  Findings = {1, 2}
  MaxShown = 1
  Answerers = {1, 2}
  MaxSayings = 2
  Memories = {1, 2, 3}
  Authors = {1, 9}
  Curators = {9}
  MaxVersion = 2
  MaxBlocks = 3
  MaxBlockPieces = 2
  TraceTools = {1, 2}
  MaxThoughts = 1
  MaxSummaries = 2
CHECK_DEADLOCK FALSE
PROPERTY StaleWritesRefused
