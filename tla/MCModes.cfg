CONSTANTS
  Programs <- MCPrograms
  Publics <- MCPublics
SPECIFICATION FairModesSpec
INVARIANTS
  TypeOK
  TraversalOnMarks
  SinglesAreReachable
  PairsAreStraight
  CountsAreOccurrences
  ComparatorsAreOrders
  ReadersAgree
  ListingIsProgram
PROPERTIES ModeEnds
