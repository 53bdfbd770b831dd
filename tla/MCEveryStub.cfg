SPECIFICATION Spec
CONSTANTS
  c1 = c1
  p1 = p1
  p2 = p2
  none = none
  NoStub = none
  Clients <- OneClient
  Services <- AllServices
  Pids <- OnePid
  Used <- AllStubs
  MaxCalls = 1
INVARIANTS
  TypeOK
  ResultsAreTrue
  ServedByItsOwn
  FailureHasCode
