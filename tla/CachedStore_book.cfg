SPECIFICATION Spec
SYMMETRY Symmetry
CONSTANTS
  a = a b = b r1 = r1 r2 = r2
  Absent = Absent
  Ids <- MCIds
  Readers <- MCReaders
  Rows <- BookRows
  Keep <- BookKeep
  CanClose = TRUE
  MaxWrites = 2
  MaxFailures = 1
INVARIANTS TypeOK MemoryIsTheDatabase AnswersAreCurrent ReadOncePerFailure
