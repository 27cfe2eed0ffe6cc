SPECIFICATION Spec
CONSTANTS
    p1 = p1
    p2 = p2
    o1 = o1
    None = None
    Procs <- TwoProcs
    Ops <- OneOp
    MaxSeq = 3
    MaxFaults = 2
    FaultKinds <- AllFaults
    RecoveryFaultPcs <- DurableSteps
    TornRecovery = TRUE
SYMMETRY Symmetry
INVARIANTS HInv HistoryIntact OperationGuarded
PROPERTY ImplementsLog
CHECK_DEADLOCK FALSE
