SPECIFICATION Spec
CONSTANTS
  t1 = t1
  t2 = t2
  t3 = t3
  c1 = c1
  c2 = c2
  file = file
  agree = agree
  attack = attack
  Turns = {t1, t2, t3}
  Claims = {c1, c2}
  NoClaim = NoClaim
  Utterances = {file, agree, attack}
  Screened = {attack}
  Affirmative = {agree}
  Says <- MCSays
  Silence = Silence
  CallLists <- OneWrite
  Replicas = 1
  MaxIterations = 4
  RequireConfirmation = TRUE
  MaxFaults = 1
INVARIANTS
  WritesWereApproved
  RepeatsOnlyAfterFaults
  NeverOutOfSteps
  EveryMessageIsHeard
  ApprovalsWereInformed
CHECK_DEADLOCK FALSE
