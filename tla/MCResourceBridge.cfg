CONSTANTS
    Threads = {t1, t2}
    Paths = {p1, p2}
    MaxFetches = 3
SPECIFICATION ClockSpec
INVARIANTS WaitersAccounted AnswerInTimeIsOwn
PROPERTIES EveryFetchReturns
CHECK_DEADLOCK FALSE
