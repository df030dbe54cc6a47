SPECIFICATION VmSpec
CONSTANTS
  Coroutines = {1, 2, 3}
  NoCo = 0
  MaxThreads = 3
  MaxIn = 2
  MaxOut = 1
  Cases <- MCCases
  Scripts <- MCScripts
  MaxReqs = 4
  Luns = {1, 2}
  Names = {"d"}
  MaxFaults = 2
  Procs = {"p", "q"}
  UidOf <- OneUser
  Leaders = {1}
  MaxRequests = 2
  BootInitTimeout = 1
  Binds = {"a", "b"}
  Ioctls = {"i"}
  PortOf <- OnePort
CHECK_DEADLOCK FALSE
INVARIANTS SchedSafe InputInOrder MiniSafe FreshBindKept
PROPERTIES ExecSpec QueueServed RelayLive MiniLive DistroServes PortsServed
