SPECIFICATION FairSpec
CONSTANTS
    Msgs = {m1, m2}
    NoMsg = NoMsg
    Timers = {t1, t2}
    Delays = {0, 1}
    Slack = 1
INVARIANTS TypeOK Exclusion PostsAreKept NoUseAfterDestroy NoLostWakeup
PROPERTIES EndsOnlyWhenIdle FiresInOrder Delivery DueFires Terminates ImplementsMailbox
CHECK_DEADLOCK FALSE
