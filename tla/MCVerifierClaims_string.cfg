CONSTANTS
  Programs <- StringLoop
  global_area_size = 1
  HALF = 8
SPECIFICATION Spec
INVARIANTS DifferenceIsReal
