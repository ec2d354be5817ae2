\* One run of the job and one renewal that overtakes it.
CONSTANTS
  Licences = {l1}
  Expired = 2
  LicenceRuns = {j1}
  Renewers = {q1}
  MaxRenewals = 1
  LicenceFaults = 0
  NoLicence = NoLicence
SPECIFICATION LicenceSpec
INVARIANTS
  SentMeansSentThisCycle
CHECK_DEADLOCK FALSE
