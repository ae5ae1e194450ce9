SPECIFICATION Spec
CONSTANTS
  Refs = {"b"}
  SentMax = 3
  SendFaults <- AnyFault
  MaxLines = 2
  MaxMessages = 2
  MaxForeign = 1
  MaxParts = 1
CHECK_DEADLOCK FALSE
INVARIANT LinesSentOnce
PROPERTIES EverythingShown EchoedNotRelayed
