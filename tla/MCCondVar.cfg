SPECIFICATION FairSpec
CONSTANTS
    Waiters = {w}
    Setters = {s1, s2}
    Wanted <- WaitForTrue
    Nobody = Nobody
INVARIANTS NoSleeperForgotten
PROPERTIES ImplementsGuardedLock FlagEndsWait
