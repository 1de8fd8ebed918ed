SPECIFICATION ProcessSpec
CONSTANTS
  s1 = s1
  s2 = s2
  s3 = s3
  Sessions = {s1, s2, s3}
  Telnet = {s2}
  Prefix <- MCPrefix
  Underscored = FALSE
  Scenes <- MCScenes
  ClientServer <- MCClientServer
  KeyFile <- MCKeyFile
  TelnetScenes <- MCTelnetScenes
  MaxWindow <- MCMaxWindow
CHECK_DEADLOCK FALSE
INVARIANTS SessionInv InputUnderstood
PROPERTIES OffersExactly NoneStays TelnetSettles
