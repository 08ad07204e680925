SPECIFICATION Spec
CONSTANTS
  t1 = t1
  t2 = t2
  t3 = t3
  c1 = c1
  c2 = c2
  file = file
  agree = agree
  attack = attack
  Turns = {t1, t2, t3}
  Claims = {c1, c2}
  NoClaim = NoClaim
  Utterances = {file, attack}
  Screened = {attack}
  Affirmative = {}
  Says <- MCSays
  Silence = Silence
  CallLists <- FewCalls
  Replicas = 2
  MaxIterations = 2
  RequireConfirmation = FALSE
  MaxFaults = 1
INVARIANTS
  FilingsBounded
  FreshTurnReportsOwn
CHECK_DEADLOCK FALSE
