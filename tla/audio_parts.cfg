SPECIFICATION Spec
CONSTANTS
  In = {i1, i2}
  NoStream = NoStream
  NamedStreams = {{}, {"recog"}, {"trigger"}, {"recog", "trigger"}}
  InMaxRefCount <- TwoVoiceStreams
  Out = {o1, o2, o3}
  Devices = {d1, d2}
  OutMaxRefCount = 2
  Fragment = 3
  MaxRead = 4
  MaxOutput = 5
  Length = 12
  BufferSize = 3
  StartThreshold = 3
  IntMax = 15
  MaxCount = 4
  Id = 4
  Tool = tool
  MaxCtls = 2
  MinV <- Lowest
  MaxV = 0
  Percent <- Percents
  Path <- LatePath
  File = {fA, fB}
  FirstFile = fA
  PathName = {"p"}
  StreamName = {"anonymous", "s"}
  Device = {"global", "speaker"}
  MaxItems = 4
  MaxFiles = 3
SYMMETRY Inputs
INVARIANTS StreamsConsistent  RingIsTrue ConfigAccepted
 
