CONSTANTS
    MinExposure = 3
    MaxExposure = 5
    HighGain = 3
    MaxGain = 5
    FirstExposure = 4
    Ratio <- Ratios
    First = 1
    Last = 7
    CoarseStep = 3
    FineStep = 1
    DefaultPosition = 3
    MaxPosition = 12
    Energy <- Energies
SPECIFICATION Spec
INVARIANTS  FocusSound
PROPERTIES  ScanEnds
