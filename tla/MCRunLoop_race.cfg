SPECIFICATION Spec
CONSTANTS
    Msgs = {m1, m2}
    NoMsg = NoMsg
    Timers = {}
    Delays = {}
    Slack = 1
INVARIANTS CalledMeansPending
CHECK_DEADLOCK FALSE
