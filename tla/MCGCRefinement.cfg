CONSTANTS
  Bases <- MCBases
  CWords <- MCCWords
  CString = 2
  UnboxedWords <- MCUnboxed
  Strings <- MCStrings
  MINIMUM_HEAP_CAPACITY = 6
  MAX_EXTRA_ROOTS_NUMBER = 1
  MaxStack = 2
  MaxAllocs = 3
SPECIFICATION FairSpec
INVARIANTS
  TypeOK
  QueueHasRoom
  QueueInvariant
  MarkedIsReachable
  WalkOnHeaders
  CollectionMakesRoom
  CompactedHeap
  HeapSound
PROPERTIES
  ImplementsObjectGraph
  CallsReturn
