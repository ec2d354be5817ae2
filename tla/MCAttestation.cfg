\* Two overlapping requests against both campaigns, one of which may fail.
CONSTANTS
  all = all
  any = any
  p1 = p1
  p2 = p2
  n1 = n1
  n2 = n2
  ann = ann
  bob = bob
  cat = cat
  r1 = r1
  r2 = r2
  None = None
  Campaigns = {all, any}
  Packets = {p1, p2, n1, n2}
  People = {ann, bob, cat}
  Requests = {r1, r2}
  MaxFaults = 1
  CampaignOf <- MCCampaignOf
  ClosureMode <- MCClosureMode
  RecipientOf <- MCRecipientOf
  SubjectsOf <- MCSubjectsOf
SPECIFICATION FairSpec
INVARIANTS
  TypeOK
  RecordComplete
  AnyAnswerCloses
  ClosureJustified
  IInv
PROPERTIES
  ImplementsRecord
  RequestsFinish
CHECK_DEADLOCK FALSE
