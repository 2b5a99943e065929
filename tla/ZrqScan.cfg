SPECIFICATION Spec
CONSTANTS
  Byte <- MCByte
  Packets <- MCPackets
  Capacity = 6
  MaxStream = 8
INVARIANTS TypeOK Conservation HeldWhole Complete StartIsHeader RoomBound
CHECK_DEADLOCK FALSE
