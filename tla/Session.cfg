SPECIFICATION FairSpec
CONSTANTS
  Script <- MCScript
  Text <- MCText
  Capacity = 2
  MaxRoom = 1
  MaxTyped = 1
  NDEBUG = FALSE
  opt_quiet = FALSE
  PtyEnd <- Either
  RzMayDie = TRUE
  ShellMayExit = TRUE
INVARIANTS TypeOK TextInOrder NoTextToRz  NoLatePacket WriteNotified AssertCause
PROPERTY RzReaped
CHECK_DEADLOCK FALSE
