CONSTANTS
  Requesters = {r1, r2}
  Handlers = {h1, h2}
  Data = {d1, d2}
  NoData = NoData
  Sizes = {"large"}
  MaxSeq = 3
  WireCap = 1
  InboundCap = 1
SPECIFICATION Spec
SYMMETRY Symmetry
INVARIANTS
  SessionsAwaited
  OwnAnswer
  OneCopy
CHECK_DEADLOCK FALSE
