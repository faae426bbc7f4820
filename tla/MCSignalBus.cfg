CONSTANTS
    Signals = {s1}
    Callables = {c1, c2}
    Owners = {o1}
    QueueCap = 2
    MaxEmissions = 3
    MaxListeners = 1
SPECIFICATION BusFairSpec
INVARIANTS BusInOrder EveryEmissionAccounted EachCalledOnce
PROPERTIES DebtsPaid
CHECK_DEADLOCK FALSE
