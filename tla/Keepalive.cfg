SPECIFICATION FairSpec
CONSTANTS
    Ping = 3
    Stale = 9
    MaxStall = 2
    MaxMissed = 1
    MaxBuffer = 2
INVARIANTS
    KeptThroughStalls
    DetectionBound
PROPERTIES
    HungDetected
CHECK_DEADLOCK FALSE
