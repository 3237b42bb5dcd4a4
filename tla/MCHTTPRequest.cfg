SPECIFICATION FairSpec
CONSTANTS
    Bytes = {"cr", "lf", "blank", "char"}
    MaxBytes = 6
    ReadSize = 3
    limit = 6
INVARIANTS InOrder ParsesText
PROPERTIES Announced
CHECK_DEADLOCK FALSE
