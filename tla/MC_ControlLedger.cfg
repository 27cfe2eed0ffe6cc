SPECIFICATION Spec
CONSTANTS
  Ops = {o1, o2}
  Nonces = {n1}
  Seals = {s1}
  Permits = {p1}
  None = None
  Lifetimes = {5}
  Windows <- OneWindow
  MinClaim = 1
  MaxLasts = 4
  MaxTime = 6
  MaxCommits = 5
SYMMETRY Interchangeable
CONSTRAINT OneRecovery
INVARIANTS Reopens PermitsServeOnce RevokedIsSilent CleanupPossible
CHECK_DEADLOCK FALSE
