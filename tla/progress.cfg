SPECIFICATION Spec
CONSTANTS
  mCapacity = 2
  queueCount = 2
  MaxReads = {1}
  NoHandle = NoHandle
  Indeterminate = Indeterminate
  MaxFaults = 2
  Poker = {1}
  Client = {c1, c2}
  Node = {n1, n2}
  Missing = {n2}
  Timeout = {1}
  MaxFd = 2
  Lag = 1
  Waiter = {w1, w2}
  Signaller = {s1, s2}
  Width = 3
  MaxPulses = 2
INVARIANTS NodesAreTrue PokerOwns PulsesCount
PROPERTIES SensorsGoOn ImplementsAsync CompressGoesOn TransferRecovers PokerEnds BroadcastReachesAll
