SPECIFICATION RegSpec
CONSTANTS
  Me = me
  Conns = {me, c1}
  Users = {"alice", "bob"}
  Passwords = {"pa", "pb"}
  Secrets <- MCSecrets
  NoUser = NoUser
  NoPass = NoPass
  NoSasl = NoSasl
  ValidNicks <- Alice
  Supported <- OneCap
  Requests <- Lines
  Faults <- AnyFault
  MaxLogins = 2
  MaxChanges = 1
  MaxCommands = 5
CHECK_DEADLOCK FALSE
INVARIANTS OnlyPasswordHolders SessionStays LoggedInAs CapsAgree
PROPERTIES FirstLoginsMakeDevices LoginEnds
