SPECIFICATION Spec
CONSTANTS
    Paths = {p1}
    Caps = {trusted, boxed}
    Trusted = trusted
    Sources = {s1, s2}
    Callers = {c1, c2, c3}
    MaxHandles = 3
    MaxRepeats = 1
SYMMETRY Interchangeable
INVARIANTS FreedOnce EntriesLive  NothingLost
