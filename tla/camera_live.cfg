CONSTANTS
    BufferCount = 2
    Resolution = {r1, r2}
    None = None
    Faults = FALSE
    SlowDriver = FALSE
    FrameCount = 2
    Format = {"RGBA"}
    Configurations <- OneStream
    Settings <- FocusSettings
    AfCaptures = 2
    MaxFlushes = 1
SPECIFICATION PreviewSpec
INVARIANTS BuffersReturned
PROPERTIES  FramesKeepComing
