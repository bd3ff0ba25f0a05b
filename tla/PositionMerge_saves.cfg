CONSTANTS
  null = null
  Null <- null
  Values <- MCValues
  Times <- MCTimes
  Rests <- MCRests
  Writes <- MCWrites
SPECIFICATION Spec
INVARIANTS TypeOK StoresAgree
PROPERTY NothingIsLoosened
