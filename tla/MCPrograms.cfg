SPECIFICATION Spec
CONSTANTS
  FS_UNIT_SIZE = 2
  SIZE_FS_DENTRIES = 8
  NameSize = 3
  BlockEntries = 3
  WordSize = 16
  Char = {".", " ", "l", "c", "g", "e", "t", "f", "r", "n", "x", "y"}
  NUL = "nul"
  TypeByte = "type"
  Byte = {"x", "y", "nl"}
  Images <- MCImages
  TestFile <- MCTest
  Fds = {2, 3}
  EoiKey = 9
  EoiClock = 10
  MagicSize = 4
  Names <- MCNames
  ReadSizes = {1, 2, 3, 4}
  BufSize = 8
  CatSize = 3
  GrepSize = 4
  Blank = " "
  Dot = "."
  NL = "nl"
  Ls <- MCLs
  Cat <- MCCat
  Grep <- MCGrep
  Exit <- MCExit
  Lines <- MCLines
  StackByte = {"nul", "nl"}
  MaxInterrupts = 1
INVARIANTS ReadInImage ReadExact FailureHasBadBlock ReadsFormPrefix LookupExact CommandParsed ListingComplete CatExact GrepExact GrepHasRoom

PROPERTIES CommandsReturn
