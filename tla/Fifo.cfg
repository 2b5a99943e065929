SPECIFICATION Spec
CONSTANTS
  Size = 4
  Byte = {a, b}
INVARIANT TypeOK
PROPERTY ImplementsQueue
