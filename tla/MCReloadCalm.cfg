SPECIFICATION Spec
CONSTANTS
    Paths = {p1,p2}
    Boxed = {p2}
    Caps = {trusted, boxed}
    Trusted = trusted
    Sources = {s1, s2}
    Callers = {m, w1,w2}
    Main = m
    Insts = {i1,i2}
    NoInst = NoInst
    Policy <- MCPolicy
    MaxHandles = 3
    MaxReloads = 2
    Allowed = {}
SYMMETRY Interchangeable
INVARIANTS NothingInUseFreed AllSwapped HandlesAccounted
