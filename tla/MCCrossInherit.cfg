CONSTANTS
    Scripts = {a, b, p}
    Polyglots = {p}
    GdScripts = {g}
    Roots = {a}
    NoPath = NoPath
    PL_BRIDGE_MAX_CALL_DEPTH = 2
    MaxChain = 4
    MaxStack = 6
    MaxChanges = 1
SPECIFICATION FairSpec
INVARIANTS FirstServes OverflowOnlyByLoop StackWellFormed
PROPERTIES EveryAccessEnds
\* An exhausted stack ends the process.
CHECK_DEADLOCK FALSE
