CONSTANTS
    Signals = {s1}
    Callables = {}
    Owners = {c1,c2}
    QueueCap = 1
    MaxEmissions = 2
    MaxListeners = 2
    MaxSleep = 1
SPECIFICATION FairSpec
INVARIANTS EndedOnce NoLostWakeup ListenersOwned
PROPERTIES DueIsResumed
CHECK_DEADLOCK FALSE
