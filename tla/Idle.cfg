SPECIFICATION Spec
CONSTANTS
  NULL = NULL
  sleeptime = 3
  fuzztime = 1
  Tenth = 1
  Ten = 2
  Sixty = 2
  IntMax = 7
  Earlier = {0, 7}
  Step = 3
  BufSize = 6
  DefaultWidth = 4
  Widths = {0, 1, 9}
  Chunks = {2, 5}
  MaxTime = 10
  MaxBytes = 7
 
PROPERTY Pace
CHECK_DEADLOCK FALSE
