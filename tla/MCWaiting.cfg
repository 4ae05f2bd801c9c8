SPECIFICATION FairLockSpec
CONSTANTS
  MemWords = 3
  Modes <- MCModes
  Svc = "svc"
  Outcomes <- MCWaitingProgram
  Overruns = {}
PROPERTIES
  IrqReachesTarget
