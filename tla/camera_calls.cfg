CONSTANTS
    BufferCount = 2
    Resolution = {r1, r2}
    None = None
    Faults = TRUE
    SlowDriver = TRUE
    FrameCount = 2
    Format = {"BLOB", "RGBA"}
    Configurations <- SomeConfigurations
    Settings <- AllSettings
    AfCaptures = 1
    MaxFlushes = 2
SPECIFICATION Spec
SYMMETRY Resolutions
INVARIANTS PipelineConsistent RequestsTracked 
PROPERTIES ImplementsContract
