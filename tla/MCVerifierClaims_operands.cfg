CONSTANTS
  Programs <- Underflow
  global_area_size = 1
  HALF = 8
SPECIFICATION Spec
INVARIANTS OperandsSuffice
