SPECIFICATION FairSpec
CONSTANTS
  MaxRequests = 3
  MaxDamage = 4
  MaxNoise = 4
  MaxErrorSize = 3
INVARIANTS
  TypeOK
PROPERTIES
  HandledInOrder
  RefinesCalls
  Answered
