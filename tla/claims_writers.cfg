SPECIFICATION FairSpec
CONSTANTS
  k1 = k1
  k2 = k2
  k3 = k3
  p1 = p1
  p2 = p2
  a1 = a1
  a2 = a2
  Calls = {k1, k2, k3}
  Procs = {p1, p2}
  Args = {a1, a2}
  ArgsOf <- MCArgsOf
  Seed <- MCSeed
  Rows <- MCRows
  Number = 9999
  Nobody = Nobody
  Torn = Torn
  NoFile = NoFile
  Slots = 3
  MaxFaults = 2
INVARIANTS
  ClaimsTypeOK
  WritersExclude
  ConfirmationsAreGenuine
PROPERTIES
  ClaimLogSpec
  CallsEnd
CHECK_DEADLOCK FALSE
