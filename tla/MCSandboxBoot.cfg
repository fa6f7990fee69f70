CONSTANTS
  Requesters = {run}
  Handlers = {child}
  Data = {"proxy-listener", "proxy-listener-fd", "complete", "completed"}
  NoData = NoData
  Sizes = {"small"}
  MaxSeq = 2
  WireCap = 1
  InboundCap = 1
  Payload <- MCPayload
  HasCommand = TRUE
SPECIFICATION FairBootSpec
INVARIANTS
  BootTypeOK
  CommandConfined
PROPERTY
  RunReturns
CHECK_DEADLOCK FALSE
