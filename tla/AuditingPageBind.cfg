\* One registration, with two groups, beside the boot wave.
CONSTANTS
  Groups = {"g1", "g2"}
  Nominees = {}
  Configs = {"v1"}
  ByNominees = {}
  MaxAudCalls = 2
SPECIFICATION AuditingSpec
PROPERTY
  DoneMeansBound
CHECK_DEADLOCK FALSE
