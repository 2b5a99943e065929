SPECIFICATION Spec
CONSTANTS
  NULL = NULL
  NoAtom = NoAtom
  Char <- MCChar
  Blank <- MCBlank
  Slash <- MCSlash
  DefaultCommand <- MCDefaultCommand
  Executable <- MCExecutable
  Invocations <- MCInvocations
  FD_SETSIZE = 12
  MaxFd = 15
  IntMax = 31
  PortMax = 15
  DefaultSize = 4
  MaxTransfers = 2
INVARIANTS TypeOK NoForeignUse ChildWired NothingLeaked Registered EventToOwner  AsAsked EndCause
