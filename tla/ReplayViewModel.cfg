CONSTANTS
    a = a
    b = b
    broken = broken
    Files = {a, b, broken}
    Readable = {a, b}
    Callers = {"ui", "task"}
    Lists <- MixedLists
    Capacity = 2
    MaxEvents = 2
SPECIFICATION FairSpec
INVARIANT ReplayInv
PROPERTIES DeliveriesInPlace KeepsContract CallsEnd
