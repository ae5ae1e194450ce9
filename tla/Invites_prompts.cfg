SPECIFICATION Spec
CONSTANTS
  Rooms = {r1, r2}
  NoRoom = NoRoom
  Faults <- AnyFault
  EventsEach = 2
  MaxInvites = 1
  MaxAnswers = 2
CHECK_DEADLOCK FALSE
INVARIANTS PromptNamesOneRoom OnePendingPerRoom
PROPERTY EveryInvitePrompted
