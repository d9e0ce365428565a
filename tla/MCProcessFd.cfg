SPECIFICATION Spec
CONSTANTS
  MaxProc = 2
  FileArraySize = 3
  WordSize = 2
  DentryNum = 3
  Dentries <- FdDentries
  FileType <- FdFileType
  FileLength <- FdLength
  NameLength <- FdNameLength
  Executable = {"shell"}
  Loadable = {"shell"}
  Shell = "shell"
  Arg = {0, 2}
  Commands <- FdCommands
  NBytes = {0, 1}
  StrayCounts = {2}
  Status = {0}
  MaxPending = 0
  NoFile = "none"
INVARIANTS DescriptorsSound FreshArgSize FaultsOnlyOnStdStreams
PROPERTIES RefinesTree
