SPECIFICATION Spec
CONSTANTS
  input_master = input_master
  master_output = master_output
  infd = infd
  master = master
  outfd = outfd
  Pipes <- MCPipes
  Atoms <- MCAtoms
  ReadAtom <- MCReadAtom
  WriteAtom <- MCWriteAtom
  Capacity = 2
  NDEBUG = FALSE
  WriteSizes = {2}
  Hangups = {infd, master}
  Breaks = {master, outfd}
  MaxBytes = 3
  MaxRoom = 1
INVARIANTS TypeOK Conservation FlowControl ReadAssertCause WriteAssertCause  SnapshotHolds
CHECK_DEADLOCK FALSE
