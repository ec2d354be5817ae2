\* Scheduled runs more often than the timeout, as the hourly disk sync.
CONSTANTS
  s1 = s1
  s2 = s2
  Pipeline = {s1}
  Manual = {}
  Agents = 1
  Threshold = 2
  Timeout = 2
  Interval = 1
  MaxFaults = 0
SPECIFICATION SyncFairSpec
PROPERTIES
  Recovers
