SPECIFICATION Spec
CONSTANTS
  t1 = t1
  t2 = t2
  c1 = c1
  c2 = c2
  c3 = c3
  c4 = c4
  k1 = k1
  k2 = k2
  Threads <- MCThreads
  Programs <- MCPrograms
  Callbacks <- MCCallbacks
  Tokens <- MCTokens
  Lengths <- MCLengths
  MaxNow = 2
  MaxCallbacks = 3
  Garbage <- MCGarbage
SYMMETRY Symmetric
INVARIANTS
  TypeOK
  PowerOfferAgrees
  WaitAfterNotice
  TokensUsable
  CallbacksKept
PROPERTY
  AnnouncedIsDone
