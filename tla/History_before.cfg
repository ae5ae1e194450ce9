SPECIFICATION HistorySpec
CONSTANTS
  Length = 4
  Stamps = {1}
  Limits = {1, 3}
  PageSize = 2
  MaxPages = 3
  Failures <- NoFault
  MaxArrivals = 0
CHECK_DEADLOCK FALSE
INVARIANT BeforeChronological
