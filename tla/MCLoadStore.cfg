SPECIFICATION Spec
CONSTANTS
  Pc = 2
  Size = 2
  Modulus = 4
  Part = 2
  Instructions <- MCInstructions
INVARIANTS
  TypeOK
PROPERTIES
  RefinesTransfers
