SPECIFICATION Spec
CONSTANTS
  Ints <- SmallInts
  Texts <- SmallTexts
  Names <- SmallNames
  BITS = 5
  HASH_DEPTH = 1
  MaxLength = 2
  MaxVals = 3
  TAGLEN = 2
  RADIX = 3
  CHUNK = 4
  MaxCalls = 4
CHECK_DEADLOCK FALSE
INVARIANTS TypeOK OperatorsCompute EqualHashAlike CompareIsOrder TagsAreNames
PROPERTY ImplementsValues
