SPECIFICATION Spec
CONSTANTS
  Callers = {c1, c2}
  SandboxIds = {s1}
  ContainerIds = {k1}
  Uids = {u1}
  Images = {i1}
  EmptyId = EmptyId
  NilImage = NilImage
  NoCaller = NoCaller
  Requests <- MCUnnamed
  Delay = 1
SYMMETRY Symmetry
INVARIANTS
  RemovedIsGone
