CONSTANTS
  Programs <- MCPrograms
  Ints = {0, 1}
  STACK = 24
  string_size = 2
  string_counter = 1
  global_area_size = 1
  HALF = 8
SPECIFICATION Spec
PROPERTIES ImplementsActivationRecords
