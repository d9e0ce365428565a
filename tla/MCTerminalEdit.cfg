SPECIFICATION Spec
CONSTANTS
  Char = {"a"}
  NUL = "nul"
  NL = "nl"
  LineMax = 4
  BufSize = 5
  NumCols = 3
  NumRows = 2
  KBD_EOI = 1
  RTC_EOI = 3
  ReadSizes = {}
  WriteSizes = {0, 1}
  MaxBackspace = 8
INVARIANTS TypeOK ErasableText BackspaceStaysInLine
PROPERTIES WriteInBuffer
