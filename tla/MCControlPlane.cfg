CONSTANTS
  CAs = {"webhookserver", "apiserver", "apiclient"}
  Leaves <- MCLeaves
  Nodes = {"node1"}
  APIServer = "apiserver"
  APIClient = "apiclient"
  WebhookServer = "webhookserver"
  ExtensionClient = "apiserver-extension-client"
  Keys <- MCKeys
  Absent = Absent
  Torn = Torn
  NoKey = NoKey
  NoName = NoName
  MaxCrashes = 1
  MaxExpiries = 2
SPECIFICATION CPFairSpec
INVARIANTS
  Chain
  CPTypeOK
  
  
PROPERTIES
  
  RecoversUnlessTorn
