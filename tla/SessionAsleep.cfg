SPECIFICATION FairSpec
CONSTANTS
  Script <- MCTalk
  Text <- MCTalkText
  Capacity = 2
  MaxRoom = 1
  MaxTyped = 0
  NDEBUG = FALSE
  opt_quiet = FALSE
  PtyEnd <- Linux
  RzMayDie = FALSE
  ShellMayExit = TRUE
PROPERTY ShellReaped
CHECK_DEADLOCK FALSE
