SPECIFICATION Spec
CONSTANTS
  Texts <- MCTexts
  Blank <- MCBlank
  Documents <- MCDocuments
  Queries <- MCQueries
  Near <- MCNear
  Terms <- MCTerms
  Ingests = {i1, i2}
  TopK = 2
  Scale = 991186560
  NoQuery = NoQuery
  MaxEdits = 2
  MaxRestarts = 2
SYMMETRY IngestSymmetry
INVARIANTS
  IngestTakes
  AgreementWins
  CopiesAreBounded
PROPERTIES
  SearchIsWhole
CHECK_DEADLOCK FALSE
