SPECIFICATION Spec
CONSTANTS
    o1 = o1
    o2 = o2
    a1 = a1
    c1 = c1
    c2 = c2
    Ops = {o1, o2}
    Artifacts = {a1}
    Calls = {c1, c2}
    None = None
    MaxRestarts = 1
    MaxFaults = 1
    MaxExpired = 2
    ArtifactOf <- MC_ArtifactOf
INVARIANTS ReceiptFounded Reopenable OneUnsettled
PROPERTY ReservationHolds
SYMMETRY Symmetric
CHECK_DEADLOCK FALSE
