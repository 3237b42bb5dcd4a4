SPECIFICATION FairSpec
CONSTANTS
    Source <- MCSource
    Chunk = 4
    Record = 2
    Flights = 4
    Limit = 2
    ReadSize = 2
    Cap = 2
INVARIANTS InOrder BackPressure
PROPERTY AllArrives
CHECK_DEADLOCK FALSE
