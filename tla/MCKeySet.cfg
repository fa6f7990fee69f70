CONSTANTS
  k1 = k1
  k2 = k2
  j1 = j1
  j2 = j2
  Procs <- MCProcs
  SetOf <- MCSetOf
  Keys <- MCKeys
  NoKey = NoKey
  Absent = Absent
  Empty = Empty
  MaxKills = 3
  MaxFaults = 2
SPECIFICATION FairSpec
INVARIANTS
  Decryptable
  TokensVerify
  OneServer
  InitEstablishes
PROPERTIES
  Available
