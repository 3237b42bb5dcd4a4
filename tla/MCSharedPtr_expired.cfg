SPECIFICATION Spec
CONSTANTS
    Strong = {s1, s2}
    Weak = {w1}
PROPERTIES LockOfDeletedIsNull
CHECK_DEADLOCK FALSE
