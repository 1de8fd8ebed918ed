SPECIFICATION Spec
CONSTANTS
  NoRequest = NoRequest
  l1 = l1
  l2 = l2
  l3 = l3
  n1 = n1
  Requests = {l1, l2, l3, n1}
  LongRunning = {l1, l2, l3}
  NetworkChange = {n1}
  Shutdown = {}
  Unhandled = {}
  Endless = {}
  MaxThreads = 2
  Credentials = "null"
SYMMETRY LongSymmetry
INVARIANTS NeverRejected AnnouncedIsKnown StaleStartsBounded
PROPERTIES ImplementsTaskService
