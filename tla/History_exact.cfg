SPECIFICATION HistorySpec
CONSTANTS
  Length = 4
  Stamps = {1, 2}
  Limits = {1, 3}
  PageSize = 2
  MaxPages = 3
  Failures <- PageFault
  MaxArrivals = 1
CHECK_DEADLOCK FALSE
INVARIANTS AfterExact LatestExact
PROPERTY Answered
