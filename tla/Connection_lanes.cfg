SPECIFICATION Spec
CONSTANTS
  PrioCap = 1
  QueueCap = 1
  PingAfter = 1
  Timeout = 3
  SocketCap = 1
  AnswerWithin = 0
  BusyFor = 1
  MaxPings = 2
CHECK_DEADLOCK FALSE
INVARIANTS PongOvertakes LiveClientKept
PROPERTIES PingAnswered ClosedTornDown
