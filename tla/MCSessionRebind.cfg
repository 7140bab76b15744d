SPECIFICATION Spec
CONSTANTS
    None = None
    Keys = {k1, h1}
    HandleKeys = {h1}
    Databases = {d1, d2}
    Calls = {c1, c2, c3, c4}
    Runtimes = {c1, c2, c3, c4}
    MaxSessions = 2
    Sessions <- MCSessions
    MaxScans = 0
SYMMETRY MCSymmetry
INVARIANT LandsWhereRead
