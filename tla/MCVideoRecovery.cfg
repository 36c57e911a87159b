CONSTANTS
  min_bps = 20
  max_bps = 22
  ai_step_bps = 2
  host_max_bps = 21
  Gop = 2
  MaxBehind = 1
  MaxFrames = 2
  MaxRates = 2
  MaxFaults = 2
SPECIFICATION FairSpec
INVARIANTS TypeOK NothingLostNothingAsked RateAgrees
PROPERTIES RequestKept PictureHeals
CHECK_DEADLOCK FALSE
