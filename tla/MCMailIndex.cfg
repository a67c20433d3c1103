SPECIFICATION MailSpec
CONSTANTS
  mail = mail
  p1 = p1
  p2 = p2
  b1 = b1
  NoRail = NoRail
  NoImage = NoImage
  NoJob = NoJob
  Landed = {}
  Rails <- MCRails
  Jobs <- MCJobs
  RailOf <- MCRailOf
  Mail = mail
  Messages <- MCMessages
INVARIANTS
  FoundOnceAnswered
PROPERTIES
  SearchNeverGoesBack
