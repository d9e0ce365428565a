SPECIFICATION Spec
CONSTANTS
  MaxProc = 6
  FileArraySize = 2
  WordSize = 1
  DentryNum = 3
  Dentries <- NestDentries
  FileType <- NestFileType
  FileLength <- NestLength
  NameLength <- NestLength
  Executable <- NestNames
  Loadable <- NestPrograms
  Shell = "shell"
  Arg = {0}
  Commands <- NestCommands
  NBytes = {1}
  StrayCounts = {}
  Status = {0}
  MaxPending = 0
  NoFile = "none"
INVARIANTS TypeOK ProcessChain RunsOwnImage LoadFailureRepairable
PROPERTIES RefinesTree
