SPECIFICATION Spec
CONSTANTS
  Tables <- LargeTable
  global_area_size = 0
  STACK = 24
  Lengths = {0}
  NArgs = {0}
  NLocals = {0}
  Depth = 1
  WORD = 2
  HEADER = 1
  MINIMUM_HEAP_CAPACITY = 4
  PAGE = 10
  Pages = {1, 2, 3, 4, 5, 6}
  MaxAllocs = 0
  MaxFrames = 1
INVARIANT QueueOfObjects
