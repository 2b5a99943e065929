SPECIFICATION Spec
CONSTANTS
  Byte <- MCByte
  Packets <- MCPackets
  Capacity = 12
  MaxStream = 8
INVARIANT NothingMisrouted
CHECK_DEADLOCK FALSE
