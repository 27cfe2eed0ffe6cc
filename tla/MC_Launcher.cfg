SPECIFICATION SessionSpec
CONSTANTS
  o1 = o1
  o2 = o2
  n1 = n1
  n2 = n2
  Ops = {o1, o2}
  Nonces = {n1, n2}
  Seals = {s1}
  Permits = {p1}
  None = None
  Lifetimes = {6}
  Windows <- OneWindow
  MinClaim = 1
  MaxLasts = 4
  MaxTime = 7
  MaxCommits = 9
  DryRuns = {d1}
  Audits = {a1}
  Sides = {c1}
  Recipients = 2
  FreshIds <- Drawn
  RecordIds <- Named
INVARIANTS AnswersTruthful OutcomesTrue
PROPERTIES NoWorkAfterHold RunEnds
CHECK_DEADLOCK FALSE
