CONSTANTS
  h1 = h1  h2 = h2  v1 = v1  v2 = v2  idA = idA  idB = idB  k1 = k1  k2 = k2
  None = None  NoId = NoId
  HostConns = {h1, h2}
  Viewers = {v1}
  HostIds = {idA}
  Keys = {k1, k2}
  KeyOf <- ImpostorKey
  IdOf <- BothIdA
  Wants <- OneWantsA
  ShardOf <- OneShard
  SEND_CHAN_CAP = 3
  MaxCands = 1
SPECIFICATION FairSpec
INVARIANTS OneKeyPerId NothingLeaks ViewerTakesAll
PROPERTY EverythingEnds
CHECK_DEADLOCK FALSE
