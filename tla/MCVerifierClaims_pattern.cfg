CONSTANTS
  Programs <- ArrayPattern
  global_area_size = 1
  HALF = 8
SPECIFICATION Spec
INVARIANTS ShortageIsReal
