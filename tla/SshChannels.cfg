SPECIFICATION SceneSpec
CONSTANTS
  ChannelNos = {0, 1, 2}
  WindowSize = 4
  DataLen = 2
  MaxChannels = 1
  MaxForwards = 1
  PeerRequests = {"keepalive"}
  DataChannels = {1}
  QueueBound = 2
  OutBound = 1
  OpenBound = 2
CHECK_DEADLOCK FALSE
INVARIANTS ChannelInv WindowBalance ViewsAgree
PROPERTY SessionEndsForCause
