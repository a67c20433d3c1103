SPECIFICATION FairSpec
CONSTANTS
  memory = memory
  mail = mail
  m1 = m1
  m2 = m2
  other = other
  NoRail = NoRail
  NoImage = NoImage
  NoJob = NoJob
  Landed <- MCLanded
  Jobs <- MCJobs
  Rails <- OneRail
  RailOf <- ReceiptOther
PROPERTIES
  EveryCallerAnswered
