SPECIFICATION Spec
CONSTANTS
  a = a
  b = b
  c = c
  long = long
  empty = empty
  Names <- MCNames
  Unusable <- MCUnusable
  NoName = empty
  MaxServices = 3
  MaxId = 4
  MaxNow = 1
  MaxWire = 2
SYMMETRY NameSymmetry
INVARIANTS
  TypeOK
  IdsAscend
  NamesUnique
  ListenerConverges
PROPERTIES
  ImplementsDirectory
  DoesAsAsked
