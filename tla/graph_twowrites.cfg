SPECIFICATION Spec
CONSTANTS
  t1 = t1
  t2 = t2
  c1 = c1
  c2 = c2
  file = file
  agree = agree
  attack = attack
  Turns = {t1, t2}
  Claims = {c1, c2}
  NoClaim = NoClaim
  Utterances = {file, agree, attack}
  Screened = {attack}
  Affirmative = {agree}
  Says <- MCSays
  Silence = Silence
  CallLists <- TwoWrites
  Replicas = 1
  MaxIterations = 4
  RequireConfirmation = TRUE
  MaxFaults = 0
INVARIANTS
  WritesWereApproved
CHECK_DEADLOCK FALSE
