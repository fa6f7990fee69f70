SPECIFICATION HSpec
CONSTANTS
  Callers = {c1, c2}
  SandboxIds = {s1, s2}
  ContainerIds = {k1, k2}
  Uids = {u1}
  Images = {i1}
  EmptyId = EmptyId
  NilImage = NilImage
  NoCaller = NoCaller
  Requests <- MCWrites
  Delay = 1
SYMMETRY Symmetry
INVARIANTS
  TypeOK LockHeld EventPerWaiter NoDanglingContainer RemovedIsGone 
PROPERTIES
  NoResurrection 
