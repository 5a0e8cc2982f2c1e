SPECIFICATION ConsoleSpec
CONSTANTS
  BITS = 8
  TOKCOUNT = 2
  TOKLEN = 4
  RASIZE = 16
  WIDTH = 8
  HEIGHT = 2
  Cursors <- SomeCursors
  Strings <- SomeStrings
  Formats <- SomeFormats
  Sizes <- SomeSizes
  UnitSizes <- SomeUnits
  Delimiter <- slash
  Lengths = {2}
  MaxCalls = 3
INVARIANTS ShowsTail NumbersRight SplitRight Truncates BufferSurvives
CHECK_DEADLOCK FALSE
