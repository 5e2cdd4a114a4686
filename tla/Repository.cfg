SPECIFICATION Spec
CONSTANTS
  c1 = c1
  c2 = c2
  backup = backup
  c1_bak = c1_bak
  Configs <- TwoConfigs
  Edited = {}
  OtherNames <- TwoNames
  BaseName <- BeforeTheDot
  RowCountMax = 1
  MaxRows = 2
  NoConfig = NoConfig
  Invalid = Invalid
  Unreadable = Unreadable
  NoFile = NoFile
INVARIANTS MemoryAgreesWithDisk
PROPERTIES ImplementsRepositoryView
CHECK_DEADLOCK FALSE
