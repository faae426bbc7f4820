CONSTANT MaxFutures = 2
SPECIFICATION FairSpec
INVARIANTS HandlesFreedOnce ReportedOnce NoPollAfterEnd
PROPERTIES KeepsContract SettledIsReported StopReturns
CHECK_DEADLOCK FALSE
