\* Two operators and the scheduler on one application, one of whom may be cut off.
CONSTANTS
  a1 = a1
  a2 = a2
  g = g
  ann = ann
  bob = bob
  o1 = o1
  o2 = o2
  None = None
  Apps = {a1}
  Groups = {g}
  People = {ann, bob}
  Directory <- MCDirectory
  Extracts <- MCExtracts
  Settings <- MCSettings
  FirstNominees = {bob}
  Pinned = {}
  Operators = {o1, o2}
  Scheduler = scheduler
  MaxCampaigns = 2
  MaxEdits = 2
  MaxFaults = 1
SYMMETRY OperatorSymmetry
SPECIFICATION Spec
INVARIANTS
  TypeOK
  OneOpenPerApp
  NoOrphans
  RoutingCovers
  InvitedUnlessCutOff
CHECK_DEADLOCK FALSE
