CONSTANTS
  lan = lan  wan = wan  dead = dead  None = None
  Paths = {lan, wan, dead}
  Live = {lan, wan}
  Cands <- TwoAndADead
  Natted <- ViewerNat
  PROBE_RETRY_COUNT = 2
  MaxFaults = 1
SPECIFICATION FairSpec
INVARIANT NothingLeftOnlyWhenConnected
PROPERTIES BothConnect ProbingEnds
CHECK_DEADLOCK FALSE
