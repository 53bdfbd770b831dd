SPECIFICATION Spec
CONSTANTS
  t1 = t1
  t2 = t2
  a1 = a1
  a2 = a2
  i1 = i1
  i2 = i2
  i3 = i3
  null = null
  nobody = nobody
  Threads <- MCThreads
  Addrs <- MCAddrs
  Ids <- MCIds
  Null = null
  Nobody = nobody
  Word = 3
SYMMETRY Symmetric
INVARIANTS
  TypeOK
  BlocksApart
  Accounted
