\* Two sub-HALs that share local handle 1, one of them with an unregistered sensor.
CONSTANTS
    mCapacity = 2
    queueCount = 2
    MaxReads = {1, 2}
    NoHandle = NoHandle
    Unknown = Unknown
    Indeterminate = Indeterminate
    Event <- MuxEvents
    full_to_global <- TwoHalHandles
SPECIFICATION Spec
INVARIANTS TypeOK WriterRegionFree NoLostWakeup
PROPERTIES ImplementsMux
