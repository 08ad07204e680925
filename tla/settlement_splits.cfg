SPECIFICATION SettlementSpec
CONSTANTS
  Types = {"water", "property"}
  Amounts <- MCAmounts
  Phrases <- MCPhrases
  Policies <- MCPolicies
  w1 = w1
  w2 = w2
  Workers = {w1, w2}
  None = None
  MaxPolicyEdits = 1
  MaxFaults = 1
SYMMETRY Symmetry
INVARIANTS
  SplitsAreFair
  ShownIsReported
  CapsAreApplied
CHECK_DEADLOCK FALSE
