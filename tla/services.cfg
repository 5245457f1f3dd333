SPECIFICATION Spec
CONSTANTS
  Owners = {1, 2, 3}
  TickProcs = {1, 2}
  Editors = {1, 2}
  MaxRevision = 3
  MaxTickFaults = 2
  DreamProcs = {1, 2}
  Requests = {1, 2}
  Manual = {1}
  MaxDreamFaults = 1
  Reviewed = {1, 2}
  ReviewRoom = 1
  MaxReviewOutages = 2
  FillOrders = {1, 2}
  OrderSize = 1
  Refreshers = {1}
  PushSlots = {1, 2}
  MaxAged = 1
  MaxPushFaults = 1
  MaxAttempts = 2
  MaxOpenings = 2
  Buffered = 2
  MaxPieces = 2
  QueueSize = 1
  HistorySize = 2
  MaxText = 2
  MaxBoundaries = 1
  MaxStale = 0
  MaxLineFaults = 1
CHECK_DEADLOCK FALSE
INVARIANTS LeasesExclude NothingToldTwice ReplyShownOnce LiveBaseShowsTrace
PROPERTIES EditsStack OthersLeaveItRunning TasksSettle FillsAreTold CallSettles PageCatchesUp
