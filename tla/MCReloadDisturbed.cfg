SPECIFICATION FairSpec
CONSTANTS
    Paths = {p1}
    Boxed = {p2}
    Caps = {trusted, boxed}
    Trusted = trusted
    Sources = {s1, s2}
    Callers = {m, w1}
    Main = m
    Insts = {i1,i2}
    NoInst = NoInst
    Policy <- MCPolicy
    MaxHandles = 2
    MaxReloads = 2
    Allowed = {"overlap", "fail", "drop"}
INVARIANTS JobsAccounted
PROPERTIES FailedNeverApplied ReloadSettles
