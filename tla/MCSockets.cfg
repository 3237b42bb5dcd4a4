SPECIFICATION FairSpec
CONSTANTS
    Slots = {w1, w2}
    p1 = p1
    p2 = p2
    Ptrs <- MCPtrs
    MaxUses <- MCMaxUses
    Edges <- MCEdges
    MAX_CONNECTIONS = 3
    Null = Null
INVARIANTS WorkerIsShared KeepsListening
PROPERTIES CallsTheOpen EventsHeard LastDestructorEnds
CHECK_DEADLOCK FALSE
