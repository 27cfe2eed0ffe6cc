SPECIFICATION ImportSpec
CONSTANTS
  b1 = b1
  d1 = d1
  d2 = d2
  k1 = k1
  k2 = k2
  k3 = k3
  p1 = p1
  p2 = p2
  p3 = p3
  n1 = n1
  None = None
  Bodies = {b1}
  Derived = {d1, d2}
  Scenarios <- CustodyAndLineage
SYMMETRY Alike
INVARIANTS ReplayAccepts LineageGrounded
PROPERTIES AcceptedIsWritten
