CONSTANTS
    Threads = {t1, t2}
    Paths = {a, b}
    Caps = {files}
    Sidecars <- MCSidecars
    NoFile = NoFile
    Unrestricted = Unrestricted
    MaxEdits = 1
SPECIFICATION PolicySpec
INVARIANTS SandboxedKeyFound
PROPERTIES RoutedByPolicy
