CONSTANTS
  Master <- MCMaster
  OffsetOf <- MCOffsetOf
  Jitter <- MCJitter
  SyncSeq = {1, 2}
  RingSize = 4
  MinSamples = 2
  StableTime = 1
  Timeout = 1
  MaxChanges = 1
  MaxClears = 0
SPECIFICATION FairSpec
PROPERTY FollowsMaster
