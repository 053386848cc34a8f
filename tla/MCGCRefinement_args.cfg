CONSTANTS
  Bases <- MCBases
  CWords = {}
  CString = 2
  UnboxedWords <- MCUnboxed
  Strings <- MCStrings
  MINIMUM_HEAP_CAPACITY = 4
  MAX_EXTRA_ROOTS_NUMBER = 2
  MaxStack = 3
  MaxAllocs = 2
SPECIFICATION FairSpec
INVARIANT Inv
PROPERTIES
  ImplementsObjectGraph
