SPECIFICATION Spec
CONSTANTS
    p1 = p1
    p2 = p2
    n1 = n1
    n2 = n2
    a1 = a1
    a2 = a2
    b1 = b1
    Procs = {p1, p2}
    Names = {n1, n2}
    Bytes = {a1, a2, b1}
    Torn = Torn
    MaxFiles = 3
    CodeOf <- MC_CodeOf
INVARIANTS RecordsDurable
SYMMETRY TwoProcs
