SPECIFICATION Spec
CONSTANTS
  HintKinds = {"launch", "vsync"}
  MissingNodes = {"gpu", "emc", "cores"}
  InitBoost = 3
  MaxFd = 14
  Lag = 1
  InputTable = {"touch", "raydium_ts"}
  MaxThreads = 2
  MaxSize = 4
  MaxLcd = 127
  MaxBad = 1
  Amplitudes = {0, 1, 2, 3, 100, 254, 255}
  Thread = {t1, t2}
  NULL = NULL
  lsm6db0 = lsm6db0
  other = other
  mCapacity = 4
  queueCount = 1
  MaxReads = {2}
  NoHandle = NoHandle
  Indeterminate = Indeterminate
INVARIANTS NodesShowState SensorsConsistent
  
