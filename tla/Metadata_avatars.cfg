SPECIFICATION Spec
CONSTANTS
  Tasks = {t1, t2}
  Media = {"x", "y"}
  Names = {"x.png", "x.bin", "y.png", "y.bin"}
  AttachNames <- MCAttach
  AvatarName <- MCAvatar
  Probed <- MCProbed
  NoName = ""
  NoMedia = ""
  MediaFaults <- AllFaults
  MaxKeys = 2
  Members <- MCMembers
  Own = "me"
  Avatars <- MCAvatars
  Strangers = {"nobody"}
  Channel = "#c"
  KeyNames = {"avatar", "a", "b", "!"}
  BadKeys = {"!"}
  MaxSubs = 2
  Scripts <- MCScripts
  Later <- MCLater
  MaxChanges = 1
CHECK_DEADLOCK FALSE
INVARIANTS BatchesKept ViewAgrees AvatarRecent SyncTellsAll TornExplained LinksLive
