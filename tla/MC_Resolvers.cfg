SPECIFICATION ResolverFairSpec
CONSTANTS
  o1 = o1
  o2 = o2
  v1 = v1
  v2 = v2
  Ops = {o1, o2}
  Versions = {v1, v2}
  Other = Other
  None = None
  MaxOthers = 1
  MaxFaults = 1
CHECK_DEADLOCK FALSE
INVARIANTS Authorized Reconstructs
PROPERTIES Finalizes
