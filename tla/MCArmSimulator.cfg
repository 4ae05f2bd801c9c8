SPECIFICATION FairSpec
CONSTANTS
  MemWords = 2
  Modes <- MCModes
  Svc = "svc"
  Outcomes <- MCEndingProgram
  Overruns = {0, 2}
INVARIANTS
  TypeOK
  SnapshotFresh
  StopTruthful
  FreedOnlyAtExit
PROPERTIES
  RefinesTarget
  PacketServed
  IrqServed
  EndsWithSession
