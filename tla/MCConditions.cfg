SPECIFICATION Spec
CONSTANTS
  Width = 2
  Modulus = 4
  Modes <- MCModes
  Values = {0, 1, 2, 3}
  Statuses <- MCStatuses
  Instructions <- MCInstructions
INVARIANTS
  ConditionsAsCommented
