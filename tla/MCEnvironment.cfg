SPECIFICATION Spec
CONSTANTS
  a = a
  b = b
  c = c
  b1 = b1
  b2 = b2
  b3 = b3
  b4 = b4
  b5 = b5
  none = none
  null = null
  Names <- MCNames
  Values <- MCValues
  Parts <- MCParts
  NoPart = none
  Starts <- MCStarts
  Blocks <- MCBlocks
  Null = null
SYMMETRY Symmetric
INVARIANTS
  TypeOK
  Terminated
  NamesOnce
  Owned
PROPERTY
  ImplementsEnvMap
