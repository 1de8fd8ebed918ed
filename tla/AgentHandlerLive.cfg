SPECIFICATION FairSpec
CONSTANTS
  NoRequest = NoRequest
  e1 = e1
  l1 = l1
  l2 = l2
  Requests = {e1, l1, l2}
  LongRunning = {e1, l1, l2}
  NetworkChange = {}
  Shutdown = {}
  Unhandled = {}
  Endless = {e1}
  MaxThreads = 2
  Credentials = "null"
PROPERTY WorkSettles
