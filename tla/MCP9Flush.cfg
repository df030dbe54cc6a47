SPECIFICATION Spec
CONSTANTS
  Coroutines <- MCCoroutines
  NoCo <- MCNoCo
  MaxMsgs = 3
  Scripts <- MCFlushScripts
  Fids = {1, 2}
  Names = {"a"}
  Tags = {1, 2}
  Permits = 3
  Mounted = {TRUE}
  MaxFull = 0
  MaxTrouble = 0
CHECK_DEADLOCK FALSE
INVARIANT FlushAfterReal
