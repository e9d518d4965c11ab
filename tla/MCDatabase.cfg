\* Both databases, with room for two keys: three keys against an image in RAM,
\* two against a block of two entries.
SPECIFICATION MCSpec
CONSTANTS
    k1 = k1
    k2 = k2
    k3 = k3
    v1 = v1
    v2 = v2
    Keys <- MCKeys
    Values <- MCValues
    Missing = Missing
    Blank = Blank
    OtherSize = OtherSize
    Room = 2
    Cap = 3
    Threshold = 1
    MaxCalls = 4
    MaxLosses = 2
INVARIANTS
    TypesOK
    ImageInRam
PROPERTIES
    ImplementsStore
    RawImplementsStore
    RawCallsReturn
\* The calls are bounded: the system stops when they are used up.
CHECK_DEADLOCK FALSE
