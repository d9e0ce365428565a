SPECIFICATION Spec
CONSTANTS
  Char = {"a"}
  NUL = "nul"
  NL = "nl"
  LineMax = 2
  BufSize = 4
  NumCols = 1
  NumRows = 1
  KBD_EOI = 1
  RTC_EOI = 3
  ReadSizes = {2, 4}
  WriteSizes = {}
  MaxBackspace = 2
INVARIANTS StorageHoldsLine ReadInBounds QuietCopyIsExact
PROPERTIES ReadCountOrEoi ReadReturns
