\* One campaign, pre-stamped at launch or not; one submission at a time; an
\* operator and the scheduler send beside it.
CONSTANTS
  all = all
  p1 = p1
  p2 = p2
  ann = ann
  bob = bob
  None = None
  Campaigns = {all}
  Packets = {p1, p2}
  People = {ann, bob}
  Requests = {r1}
  Operators = {o1}
  Scheduler = scheduler
  MaxFaults = 1
  MaxBatches = 3
  CampaignOf <- MCCampaignOf
  ClosureMode <- MCClosureMode
  RecipientOf <- MCRecipientOf
  SubjectsOf <- MCSubjectsOf
SYMMETRY MCSymmetry
SPECIFICATION ReminderSpec
INVARIANTS
  ReminderTypeOK
  NudgedOnce
  StampMeansMailed
  LateRemindersBounded
  EveryMailLogged
CHECK_DEADLOCK FALSE
