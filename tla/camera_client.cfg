SPECIFICATION Spec
CONSTANTS
  MaxList = 2
  Object = {a, b}
  Tag = {1}
  Data = {0, 1}
  MaxBuffers = 3
  MaxEntries = 2
  MaxOom = 1
  MaxCalls = 6
  Align = 2
  Thread = {t1, t2}
  MaxGen = 3
  VideoFrame = {f1, f2}
  MaxSessions = 3
  MaxKeys = 2
  Boundary = 3
  NumTypes = 6
SYMMETRY Symmetry
INVARIANTS ParcelsAgree 
PROPERTIES MetadataOwned RecordingDelivers DescriptionsTravel
CHECK_DEADLOCK FALSE
