CONSTANTS
  Programs <- DeepCall
  global_area_size = 0
  HALF = 16
  Ints = {0, 1}
  STACK = 16
  string_size = 2
  string_counter = 1
SPECIFICATION RunSpec
INVARIANTS OverflowReported
