\* A sync with a scheduled and a forced slot, run no more often than the breaker's
\* timeout; a disk, a licence and two servers, whose first two jobs may overlap.
CONSTANTS
  Pipeline = {k1}
  Manual = {k2}
  Agents = 1
  Threshold = 2
  Timeout = 2
  Interval = 2
  MaxFaults = 2
  Disks = {d1}
  DiskRuns = {j1, j2}
  Scopes = {"paged", "other_env"}
  Retries = 2
  MaxWindows = 1
  DiskFaults = 1
  Licences = {l1}
  Expired = 2
  LicenceRuns = {j1, j2}
  Renewers = {q1}
  MaxRenewals = 1
  LicenceFaults = 1
  NoLicence = NoLicence
  Servers = {s1, s2}
  ExclusionRuns = {j1}
  MaxExclusions = 2
  ExclusionFaults = 1
SPECIFICATION MCFairSpec
INVARIANTS
  TypeOK
  HealthyMeansReset
  EveryAttemptCounts
  PagedOncePerWindow
  ThresholdFiresOnce
  AnnouncedOncePerWeek
PROPERTIES
  SkipOnlyAfterThreshold
  Recovers
  ResolvedAfterRecovery
  CriticalIsPaged
  RecoveredIsCleared
  ThresholdIsAnnounced
  ExpiredHoldIsAnnounced
CHECK_DEADLOCK FALSE
