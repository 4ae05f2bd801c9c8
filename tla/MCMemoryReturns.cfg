SPECIFICATION Spec
CONSTANTS
  Size = 6
  Byte = {0, 1}
  PacketSizes = {0, 3}
INVARIANTS
  AccessReturns
