SPECIFICATION FairSpec
CONSTANTS
  Addr <- MCAddr
  MaxBreakpoints = 3
INVARIANTS
  TypeOK
  Sorted
  SearchSound
PROPERTIES
  RefinesSet
  Answered
