SPECIFICATION Spec
CONSTANTS
    None = None
    a = a
    b = b
    g = g
    Schemas = {a, b}
    Pasts <- MCPasts
    Legacy = {b}
    Graphs = {g}
    Jobs = {j1}
    Keep <- MCKeep
    MinVersions = 2
    Quotas <- MCQuotas
INVARIANTS OwnSnapshots RecentKept
PROPERTIES HistoryGrows PassKeeps PassIsThorough
