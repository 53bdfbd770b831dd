SPECIFICATION Spec
CONSTANTS
  a = a
  b = b
  c = c
  empty = empty
  t1 = t1
  t2 = t2
  Threads <- TwoThreads
  Names <- TwoNames
  NoName = empty
  MaxServices = 2
  MaxId = 2
  MaxNow = 0
INVARIANT
  NamesUniqueBetweenCalls
