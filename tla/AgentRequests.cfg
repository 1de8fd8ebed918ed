SPECIFICATION RequestSpec
CONSTANTS
  Services = {s1, s2}
  Starters = {"start1"}
  Readers = {r1}
  MaxEvents = 2
  EventsWithReports = 1
  Specs <- MCSpecs
  Compiles <- MCCompiles
  MaxFaults = 1
  Disks = {"d1", "d2"}
  Items = {1}
  HostFaults = 1
  Setups = {"a1", "a2"}
  Cleanups = {"c1", "c2"}
  UserOf <- MCUserOf
  Guests = {"u1"}
  SshdMonitorEnabled = TRUE
  DefaultNetwork = TRUE
  SshRestarts = 1
SYMMETRY ServiceSymmetry
INVARIANTS HandledStayStopped StartedAreNotDisabled ReportsWereTrue ApplyInv SshInv
PROPERTIES HostKept
