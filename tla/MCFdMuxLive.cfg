CONSTANTS
  Requesters = {r1, r2}
  Handlers = {h1}
  Data = {d1}
  NoData = NoData
  Sizes = {"small"}
  MaxSeq = 2
  WireCap = 1
  InboundCap = 1
SPECIFICATION FairSpec
PROPERTIES
  CallsEnd
  
CHECK_DEADLOCK FALSE
