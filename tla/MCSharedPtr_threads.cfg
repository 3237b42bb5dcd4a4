SPECIFICATION Spec
CONSTANTS
    Strong = {s1, s2, s3}
    Weak = {w1, w2}
SYMMETRY Symmetry
INVARIANTS CountsMatch HeldIsAlive Reclaimed
CHECK_DEADLOCK FALSE
