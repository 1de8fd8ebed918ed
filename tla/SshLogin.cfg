SPECIFICATION LoginSpec
CONSTANTS
  Users = {"vcap", "guest"}
  Keys = {"k1", "k2"}
  Texts = {"right", "wrong"}
  Salted = {"vcap"}
  Account <- MCAccount
  Logons <- MCLogons
  DebugFlag = FALSE
  MaxAttempts = 2
  RequestBound = 3
  LogonBound = 4
  SftpMenus <- MCMenus
  SftpRequests = 4
  SftpWindow = 2
  MAX_OPEN_HANDLES = 3
  ReadSize = 2
CHECK_DEADLOCK FALSE
INVARIANTS AuthInv SftpInv
PROPERTIES ActsOnNames LoopsAnswer
