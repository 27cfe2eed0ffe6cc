SPECIFICATION RestrictionSpec
CONSTANTS
  c1 = c1
  c2 = c2
  h1 = h1
  d1 = d1
  t1 = t1
  None = None
  Callers = {c1, c2}
  Operators = {c1}
  Holds = {h1}
  Deletions = {d1}
  Targets = {t1}
  Lifetimes = {9}
  Shutdowns <- ShutdownsMC
  Window = 1
  ControlKinds = {"hold_imposed", "deletion_requested", "deletion_authorized", "tombstone_applied", "deletion_authorization_revoked"}
  Corrected = {"hold_imposed"}
  MaxCorrections = 1
  MaxTime = 13
  MaxFaults = 1
INVARIANTS ReceiptTruthful RemovalRecorded
PROPERTIES RemovedOnlyWhenAllowed SilentAfterRevocation
