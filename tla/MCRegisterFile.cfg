SPECIFICATION Spec
CONSTANTS
  Modes <- MCModes
  Unbanked = {0}
  FiqBanked = {8}
  ModeBanked = {13}
  Words = {0, 1}
  Bits = {0}
  Packets <- MCPackets
INVARIANTS
  TypeOK
PROPERTIES
  RefinesViews
