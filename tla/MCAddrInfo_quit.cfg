SPECIFICATION FairSpec
CONSTANTS
    Slots = {w1, w2}
    Reqs = {r1}
    r1 = r1
    r3 = r3
    MaxUses <- TwiceAtR3
    Keys = {k1, k2}
    k1 = k1
    KeysAt <- FirstKeyAtR1
    Null = Null
PROPERTIES QuitEnds
CHECK_DEADLOCK FALSE
