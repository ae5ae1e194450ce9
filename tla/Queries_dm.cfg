SPECIFICATION QSpec
CONSTANTS
  Conns = {c1}
  Conn = c1
  Rooms = {r1, r2}
  Tasks = {t1, t2}
  Users = {"bob", "ann"}
  NickOf <- MCNickOf
  Nobody = "query"
  NoUser = "none"
  Unborn = "unborn"
  NoRoom = NoRoom
  Targets <- TwoTargets
  MaxLines = 2
  MaxMoves = 4
  Bases <- OneBase
  Nicks <- ThreeNicks
  Topics <- NoTopics
  Faults <- NoFault
  NoTopic = ""
  NoChannel = ""
  NoQuery = "None"
  ChannelName <- MCChannelName
  QueryName <- MCQueryName
  Fold <- MCFold
  Truncated = Truncated
  Garbled = Garbled
SYMMETRY Symmetry
INVARIANTS OneNamePerRoom LineReachesNick
PROPERTY SecondDmByRaceOnly
