CONSTANTS
  open = open
  closed = closed
  Issue <- TwoIssues
  Status <- Statuses
  Initial = open
  Targets <- AnyEdit
  PageSize = 2
  ShortPages = FALSE
  BatchSize = 2
  EmbedMax = 1
  ChunkSize = 1
  HistoryPage = 1
  IdRollover = 10
  Overlap = 0
  Limits = {0, 1}
  MaxClock = 2
  MaxHistories = 4
SPECIFICATION Spec
INVARIANTS TypeOK CompleteIsWhole IntervalsTellHistory LimitStopsInOrder
