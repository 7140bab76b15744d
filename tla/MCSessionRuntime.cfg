SPECIFICATION Spec
CONSTANTS
    None = None
    Keys = {k1, h1}
    HandleKeys = {h1}
    Databases = {d1, d2}
    Calls = {c1, c2, c3}
    Runtimes = {c1, c2, c3}
    MaxSessions = 4
    Sessions <- MCSessions
    MaxScans = 1
SYMMETRY MCSymmetry
INVARIANTS RegistryExact HeldByTheLiving WritersExclusive ManagersMatch
PROPERTY RegistryKept
