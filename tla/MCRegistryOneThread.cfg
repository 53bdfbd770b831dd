SPECIFICATION Spec
CONSTANTS
  a = a
  b = b
  c = c
  empty = empty
  t1 = t1
  t2 = t2
  Threads <- OneThread
  Names <- MCNames
  NoName = empty
  MaxServices = 3
  MaxId = 4
  MaxNow = 1
SYMMETRY Symmetric
INVARIANTS
  TypeOK
  ListenerAgrees
PROPERTIES
  ImplementsDirectory
  DoesAsAsked
