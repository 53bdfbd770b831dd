SPECIFICATION FairSpec
CONSTANTS
  c1 = c1
  p1 = p1
  p2 = p2
  none = none
  NoStub = none
  Clients <- OneClient
  Services <- TwoServices
  Pids <- TwoPids
  Used <- TwoStubs
  MaxCalls = 2
PROPERTIES
  ImplementsRemoteCall
  Returns
