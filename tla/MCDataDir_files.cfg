CONSTANTS
  a1 = a1
  AttachmentId = {a1}
  Image = {a1}
  Retain = 1
  MaxBackups = 2
  MaxRestores = 2
CONSTRAINT Instance
SPECIFICATION DataSpec
INVARIANTS TypeOK  ArchivesComplete  NothingLost
CHECK_DEADLOCK FALSE
PROPERTY DataSettles
