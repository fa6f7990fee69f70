CONSTANTS
  Clients = {1, 2}
  Asks <- MCAsks
  Messages <- MCMessages
  Capacity = 1
  MaxAsks = 1
  None = None
  Garbage = Garbage
  NilRequest = NilRequest
  NoResource = NoResource
SPECIFICATION FairSpec
CHECK_DEADLOCK FALSE
INVARIANTS
  TypeOK
  OneOwner
  ConnectedIsOwned
  RightServer
  
PROPERTIES
  Answered
