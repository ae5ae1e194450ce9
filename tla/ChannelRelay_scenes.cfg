SPECIFICATION Spec
CONSTANTS
  Rooms <- AllThree
  Dms <- DmRoom
  QueueCap = 2
  MaxEvents = 2
  MaxJoins = 1
  Scenes <- MCScenes
  Bases <- Base
  Nicks <- Nick
  Topics <- Topic1
  BaseOf <- MCBaseOf
  NickOf <- MCNickOf
  NoTopic = ""
  NoChannel = ""
  NoQuery = "None"
  ChannelName <- MCChannelName
  QueryName <- MCQueryName
  Fold <- MCFold
CHECK_DEADLOCK FALSE
INVARIANT AnnouncedWhenQuiet
PROPERTIES RelaysInOrder AllRoomsBridged
