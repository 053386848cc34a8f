CONSTANTS
  Programs <- MCPrograms
  global_area_size = 1
  HALF = 8
  Ints = {0, 1}
  STACK = 16
  string_size = 2
  string_counter = 1
SPECIFICATION RunSpec
INVARIANTS
  TypeOK
  DepthsConsistent
  DepthsAttained
  RejectionIsReal
  MaxStackCovers
  VariablesExist
  RunsAsVerified
  BeginCheckSuffices
PROPERTIES VerifyTerminates
