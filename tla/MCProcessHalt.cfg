SPECIFICATION Spec
CONSTANTS
  MaxProc = 2
  FileArraySize = 2
  WordSize = 1
  DentryNum = 3
  Dentries <- NestDentries
  FileType <- NestFileType
  FileLength <- NestLength
  NameLength <- NestLength
  Executable <- NestPrograms
  Loadable <- NestPrograms
  Shell = "shell"
  Arg = {0}
  Commands <- NestCommands
  NBytes = {1}
  StrayCounts = {}
  Status = {0, 1}
  MaxPending = 0
  NoFile = "none"
PROPERTIES HaltStatusReturned
