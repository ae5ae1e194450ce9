SPECIFICATION Spec
CONSTANTS
  Conns = {c1, c2}
  Rooms = {r1, r2}
  Bases <- TwoBases
  Nicks <- OneNick
  Topics <- NoTopics
  Faults <- AnyFault
  NoTopic = ""
  NoChannel = ""
  NoQuery = "None"
  ChannelName <- MCChannelName
  QueryName <- MCQueryName
  Fold <- MCFold
  Truncated = Truncated
  Garbled = Garbled
SYMMETRY ConnRoomSymmetry
INVARIANT TablesConsistent
PROPERTY NeverRenamed
