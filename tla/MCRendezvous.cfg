CONSTANTS
  h1 = h1  h2 = h2  v1 = v1  v2 = v2  idA = idA  idB = idB  k1 = k1  k2 = k2
  None = None  NoId = NoId
  HostConns = {h1}
  Viewers = {v1, v2}
  HostIds = {idA}
  Keys = {k1}
  KeyOf <- OneKey
  IdOf <- Fresh
  Wants <- WantsA
  ShardOf <- SoleShard
  SEND_CHAN_CAP = 2
  MaxCands = 1
SPECIFICATION Spec
INVARIANTS CandidatesOfOwnSession 
SYMMETRY Symmetry
CHECK_DEADLOCK FALSE
