CONSTANTS
    f1 = f1
    f2 = f2
    f3 = f3
    a = a
    b = b
    Files = {f1, f2, f3}
    NoFile = NoFile
    Mods = {a, b}
    ModOf <- MCModOf
    Missing = {x}
    Bad = {bad}
    MaxDeps = 2
SPECIFICATION Spec
INVARIANTS DependenciesFirst AllOrNothing
CHECK_DEADLOCK FALSE
