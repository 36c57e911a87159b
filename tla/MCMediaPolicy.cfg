SPECIFICATION FairSpec
CONSTANTS
  hw = hw
  sw = sw
  None = None
  Backends <- TwoBackends
  Backoff <- Schedule
  Bitrates <- ViewerBitrates
  initial_bitrate_bps = 50
  window_size_frames = 2
  deg_window_count_required = 2
  rec_window_count_required = 1
  failure_threshold = 2
  no_success_timeout = 0
  CooldownMin = 1
  CooldownMax = 3
  MinBps = 45
  MaxFails = 3
  MaxChanges = 3
INVARIANTS TypeOK BitrateRetained
PROPERTIES SwapsAllowed PictureReturns
