SPECIFICATION BackupSpec
CONSTANTS
  a = a
  p = p
  q = q
  b1 = b1
  b2 = b2
  r1 = r1
  r2 = r2
  o1 = o1
  t1 = t1
  None = None
  Procs = {a, p, q}
  Backups = {b1, b2}
  Restores = {r1, r2}
  May <- MayMC
  Content <- ContentMC
  Target <- TargetMC
  Privileged = TRUE
  MaxUpsets = 1
  MaxAssess = 1
INVARIANTS ExposedOnlyVerified MovementCancels AnswersLast ClassificationTrue
CHECK_DEADLOCK FALSE
CONSTRAINTS Prepared Replays OneRestoreMoved
SYMMETRY Symmetry
