SPECIFICATION Spec
CONSTANTS
  Size = 5
  Byte = {0, 1}
  PacketSizes = {0, 3}
INVARIANTS
  TypeOK
  ReadParts
