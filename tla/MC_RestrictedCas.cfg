SPECIFICATION Spec
CONSTANTS
    p1 = p1
    p2 = p2
    o1 = o1
    o2 = o2
    a1 = a1
    a2 = a2
    Procs = {p1, p2}
    Ops = {o1, o2}
    Names = {a1, a2}
    Bytes = {a1, a2}
    Torn = Torn
    MaxFiles = 3
INVARIANTS PublishedDurable OneCreator UnsettledReported
SYMMETRY Symmetric
