SPECIFICATION HFairSpec
CONSTANTS
  Callers = {c1, c2}
  SandboxIds = {s1}
  ContainerIds = {k1}
  Uids = {u1}
  Images = {i1}
  EmptyId = EmptyId
  NilImage = NilImage
  NoCaller = NoCaller
  Requests <- MCRequests
  Delay = 2
PROPERTIES
  CallsReturn 
