SPECIFICATION Spec
CONSTANTS
  Width = 3
  Modulus = 8
  Modes <- MCModes
  Values = {1, 4, 7}
  Statuses <- MCStatuses
  Instructions <- MCInstructions
INVARIANTS
  TypeOK
  CompareEqual
  CarryChain
  OppositeConditions
  ShifterCorrect
PROPERTIES
  LostUntilReset
  FailureKeepsStatus
