SPECIFICATION Spec
CONSTANTS
  memory = memory
  mail = mail
  m1 = m1
  m2 = m2
  other = other
  NoRail = NoRail
  NoImage = NoImage
  NoJob = NoJob
  Landed <- MCLanded
  Jobs <- MCJobs
  Rails <- TwoRails
  RailOf <- MailOther
INVARIANTS
  TypeOK
  ImageExact
  NoLateCommit
  AnswersTrue
  ReadYourWrites
PROPERTIES
  ReadsNeverGoBack
  KeepsPublished
  KeepsPromise
