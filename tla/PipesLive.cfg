SPECIFICATION FairSpec
CONSTANTS
  input_master = input_master
  master_output = master_output
  infd = infd
  master = master
  outfd = outfd
  Pipes <- MCPipes
  Atoms <- MCAtoms
  ReadAtom <- MCReadAtom
  WriteAtom <- MCWriteAtom
  Capacity = 2
  NDEBUG = TRUE
  WriteSizes = {}
  Hangups = {infd}
  Breaks = {}
  MaxBytes = 4
  MaxRoom = 1
PROPERTY Delivery
CHECK_DEADLOCK FALSE
