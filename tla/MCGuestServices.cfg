SPECIFICATION GsSpec
CONSTANTS
  Drives = {1, 2}
  Transports = {"hvsocket", "virtio9p", "virtiofs"}
  FsTabSettings = {TRUE, FALSE}
  MaxUserMounts = 1
  Fids = {0, 1}
  MaxFidMap = 2
  MaxFds = 3
  MaxStarts = 1
  Window = 2
  Threshold = 2
  IdleThreshold = 1
  Usage = {1, 4, 6}
  Burst = {0, 1}
  Low = 100
  High = 110
  Memory = {95, 102, 115}
  MaxCycles = 4
  Sockets <- ThreeSockets
  Workers = {"w"}
  MaxBytes = 2
  Capacity = 1
  Askers = {"u"}
  Conns = {"c", "d"}
  Lengths = {0, 1}
  MaxFrames = 2
CHECK_DEADLOCK FALSE
INVARIANTS DrvFsSafe StubSafe ReclaimSafe LocalhostSafe DnsServerSafe
PROPERTY OtherSideKept
