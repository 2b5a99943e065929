SPECIFICATION Spec
CONSTANTS
  Script <- MCScript
  Text <- MCText
  Capacity = 2
  MaxRoom = 1
  MaxTyped = 1
  NDEBUG = FALSE
  opt_quiet = TRUE
  PtyEnd <- Linux
  RzMayDie = FALSE
  ShellMayExit = FALSE
INVARIANT ReadRestarts
CHECK_DEADLOCK FALSE
