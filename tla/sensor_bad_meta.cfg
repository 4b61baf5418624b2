CONSTANTS
    mCapacity = 2
    queueCount = 1
    MaxReads = {1}
    NoHandle = NoHandle
    Unknown = Unknown
    Indeterminate = Indeterminate
    Event <- BadEvents
    full_to_global <- OneHalHandles
SPECIFICATION Spec
INVARIANT NoBadEvent
