SPECIFICATION MCSpec
CONSTANTS
  Sizes = {0, 1, 3, 4, 5, 8, 9, 13}
  TransferBuffer = 6
  Slot = 2
  Pages = {1, 2, 4}
  MaxOld = 5
  HeaderLimit = 6
  MaxHeaders = 4
  MaxInterim = 1
  MaxBody = 2
  MaxOperands = 3
  PlistDepth = 3
  PlistValues = 6
  MaxSize = 4
  Graphs <- MCGraphs
  Tables <- MCTables
  Strings <- MCStrings
  Lines <- MCLines
CHECK_DEADLOCK FALSE
INVARIANTS TransferIsExact ResponseIsWhole PlistIsDecoded FormsAgree CommandsAreObeyed OperandsAreReported
PROPERTIES CommittedWhenWhole StreamsEnd
