SPECIFICATION ThreadsSpec
CONSTANTS
  Services = {s1}
  Starters = {"start1"}
  Readers = {}
  MaxEvents = 3
  MaxRetries = 2
  MaxStarts = 2
INVARIANT OneListener
PROPERTIES MonitSettles CallsSettle
