SPECIFICATION Spec
CONSTANTS
  NoRequest = NoRequest
  l1 = l1
  l2 = l2
  n1 = n1
  h1 = h1
  s1 = s1
  u1 = u1
  Requests = {l1, l2, s1, u1, n1, h1}
  LongRunning = {l1, l2}
  NetworkChange = {n1}
  Shutdown = {h1}
  Unhandled = {u1}
  Endless = {}
  MaxThreads = 2
  Credentials = "empty"
SYMMETRY LongSymmetry
PROPERTY LeakedTaskBlocks
