SPECIFICATION Spec
CONSTANTS
  s1 = s1
  s2 = s2
  p1 = p1
  Sections = {s1, s2}
  States <- MCStates
  Terms <- MCTerms
  Sums = {100}
  Shares <- MCShares
  PolicyNumbers = {p1}
  Sentences <- MCSentences
  NoNumber = NoNumber
  Envelopes <- MCEnvelopes
  MaxSentences = 2
  MaxIterations = 3
  MaxTurns = 2
INVARIANTS
  ShownIsGrounded
  ConfidenceIsEarned
  EnvelopesComeOff
CHECK_DEADLOCK FALSE
