SPECIFICATION Spec
CONSTANTS
    buffer = buffer
    tmp = tmp
    kept = kept
    Names <- MCNames
    File <- MCFile
    MaxPieces = 2
    MaxSize = 2
    MaxErrors = 1
    MaxUses = 3
INVARIANTS ImplementsValues FileOrder
CHECK_DEADLOCK FALSE
