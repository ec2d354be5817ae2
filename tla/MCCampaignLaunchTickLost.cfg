\* An application created by auditing is hard-deleted while a tick is about to launch it.
CONSTANTS
  a1 = a1
  a2 = a2
  g = g
  ann = ann
  bob = bob
  o1 = o1
  o2 = o2
  None = None
  Apps = {a1, a2}
  Groups = {g}
  People = {ann, bob}
  Directory <- MCDirectory
  Extracts <- MCExtracts
  Settings <- MCAutoSettings
  FirstNominees = {bob}
  Pinned = {}
  Operators = {o1}
  Scheduler = scheduler
  MaxCampaigns = 2
  MaxEdits = 2
  MaxFaults = 0
SPECIFICATION Spec
INVARIANTS
  TickContinues
CHECK_DEADLOCK FALSE
