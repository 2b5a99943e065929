SPECIFICATION Spec
CONSTANTS
  Byte <- MCByte
  ZFIN <- MCZFIN
  O = "O"
  Slack = 1
  MaxStream = 8
  MaxPacket = 3
INVARIANTS TypeOK Conservation Complete OverAndOut FoundCause
CHECK_DEADLOCK FALSE
