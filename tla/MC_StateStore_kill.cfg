SPECIFICATION Spec
CONSTANTS
    p1 = p1
    p2 = p2
    o1 = o1
    None = None
    Procs <- TwoProcs
    Ops <- OneOp
    MaxSeq = 3
    MaxFaults = 2
    FaultKinds <- Kills
    RecoveryFaultPcs <- ResumableSteps
    TornRecovery = FALSE
SYMMETRY Symmetry
INVARIANTS MutexExclusion OneStartOneEnd TruthfulDiscard PublishRecoverable
CHECK_DEADLOCK FALSE
