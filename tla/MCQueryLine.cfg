SPECIFICATION FairSpec
CONSTANTS
    Calls = {c1, c2, c3}
    Closers = {d1}
    Samplers = {s1}
    MaxQueued = 1
    Nobody = Nobody
INVARIANTS OneWorkerInside WaitersCounted LineIsMoving
PROPERTIES InOrder SerialService EveryCallAnswered DeferredCloseHappens
