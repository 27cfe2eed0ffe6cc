SPECIFICATION OperatorSpec
CONSTANTS
    p1 = p1
    p2 = p2
    o1 = o1
    None = None
    Procs <- TwoProcs
    Ops <- OneOp
    MaxSeq = 3
    MaxFaults = 1
    FaultKinds <- KillsAndErrors
    RecoveryFaultPcs <- ResumableSteps
    TornRecovery = FALSE
PROPERTIES CallsReturn RecoveryConverges
CHECK_DEADLOCK FALSE
