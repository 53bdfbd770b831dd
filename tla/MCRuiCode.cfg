SPECIFICATION Spec
CONSTANTS
  t1 = t1
  t2 = t2
  p1 = p1
  p2 = p2
  Threads <- OneThread
  Pids <- TwoPids
INVARIANT
  FailureHasCode
