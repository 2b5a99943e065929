SPECIFICATION Spec
CONSTANTS
  Byte <- MCByte
  ZFIN <- MCZFIN
  O = "O"
  Slack = 1
  MaxStream = 8
  MaxPacket = 3
INVARIANT Sound
CHECK_DEADLOCK FALSE
