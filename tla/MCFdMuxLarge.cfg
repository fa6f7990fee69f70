CONSTANTS
  Requesters = {r1}
  Handlers = {h1}
  Data = {d1}
  NoData = NoData
  Sizes = {"small", "large"}
  MaxSeq = 2
  WireCap = 1
  InboundCap = 1
SPECIFICATION FairSpec
PROPERTY
  LateCallsEnd
CHECK_DEADLOCK FALSE
