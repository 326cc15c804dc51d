SPECIFICATION FairSpec
CONSTANTS
  MaxAddress = 31
  kNumBins = 3
  kFirstRegion = 512
  c1 = c1
  c2 = c2
  Nobody = Nobody
  Poller = poller
  Client = {c1, c2}
  Thread = {c1, c2, poller}
  s1 = s1
  s2 = s2
  Stream = {s1, s2}
  Base = {0, 10, 20}
  Scenarios <- ExhaustedDevice
  deferred_bytes_threshold_ = 1000
PROPERTY EveryCallReturns
CHECK_DEADLOCK FALSE
