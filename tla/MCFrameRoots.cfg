SPECIFICATION Spec
CONSTANTS
  Tables <- SmallTables
  global_area_size = 1
  STACK = 13
  Lengths = {0, 6}
  NArgs = {1}
  NLocals = {1}
  Depth = 1
  WORD = 2
  HEADER = 1
  MINIMUM_HEAP_CAPACITY = 4
  PAGE = 10
  Pages = {1, 2, 3, 4, 5}
  MaxAllocs = 3
  MaxFrames = 2
INVARIANTS OnlyFreshOrLostAreStale VariablesAreApart HeapIsMapped
