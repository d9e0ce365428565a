SPECIFICATION Spec
CONSTANTS
  Width = 3
  Height = 2
  Short = 26
  Glyph = {" ", "0", "a", "b", "i", "m"}
  Zero = "zero"
  Offset = 1
  FrameLength = 2
  WAIT = 4
  WordSize = 16
  Blank = " "
  NL = "nl"
  Digit = "0"
  Frames <- MCFrames
  Scripts <- MCScripts
INVARIANTS TypeOK ListKept ScreenKept FramesAdded NeverLost
PROPERTIES BlinksOnTime FishEnds
