SPECIFICATION FairSpec
CONSTANTS
  Coroutines <- MCCoroutines
  NoCo <- MCNoCo
  MaxMsgs = 3
  Scripts <- MCScripts
  Fids = {1, 2}
  Names = {"a"}
  Tags = {1, 2, 3}
  Permits = 2
  Mounted = {TRUE, FALSE}
  MaxFull = 1
  MaxTrouble = 1
CHECK_DEADLOCK FALSE
INVARIANT P9Safe
PROPERTY P9Live
