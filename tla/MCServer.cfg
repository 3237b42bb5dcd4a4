SPECIFICATION FairSpec
CONSTANTS
    Slots = {nif}
    List <- MCList
    Descriptors = {0, 1, 2, 3}
    RWSockets = {r1, r2}
    MaxClients = 3
INVARIANTS AnnouncedInOrder ListIsThere OneOwner NobodyWaits
PROPERTY NifProgress
CHECK_DEADLOCK FALSE
