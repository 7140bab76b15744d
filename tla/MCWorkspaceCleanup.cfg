SPECIFICATION Spec
CONSTANTS
    None = None
    Sessions = {s1, s2}
    Managers = {m1, m2}
    Databases = {d1, d2}
    Legacy = Legacy
    Dirs = {d1, d2, Legacy}
    Connects = {k1, k2}
    Cleanups = {x1, x2}
    Capable = {x1}
SYMMETRY MCSymmetry
INVARIANTS HandlesExclusive GuardsOwned SharersKeepStore YesSpentWhereGiven
PROPERTIES StoresKept
