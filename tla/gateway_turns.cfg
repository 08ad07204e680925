SPECIFICATION Spec
CONSTANTS
  q1 = q1
  q2 = q2
  q3 = q3
  g1 = g1
  g2 = g2
  u1 = u1
  c1 = c1
  Users = {u1}
  Gateways = {g1, g2}
  Ahead <- MCAhead
  MaxAhead = 1
  Burst = 1
  Cost = 2
  None = None
  Requests = {q1, q2, q3}
  Given = {c1}
  Slots = 2
  MaxFaults = 1
  MaxTime = 3
SYMMETRY Symmetry
INVARIANTS
  HistoryIsTrue
  StartsAreBounded
  SpentWithinBudget
PROPERTIES
  ThreadContinues
  RetryAfterIsHonest
CHECK_DEADLOCK FALSE
