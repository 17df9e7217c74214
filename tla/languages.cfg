SPECIFICATION MCSpec
CONSTANTS
  MaxDepth = 7
  MaxNodes = 17
  MaxEntries = 4
  Texts <- MCTexts
  Words <- MCWords
  Blobs <- MCBlobs
  Paths <- MCPaths
  Directories <- MCDirectories
  MaxEncode = 4
  EntitlementDepth = 3
  EntitlementValues = 7
  Nul <- MCNul
  Values <- MCValues
CHECK_DEADLOCK FALSE
INVARIANTS  EntitlementsAreShown
PROPERTIES PrintKeepsMeaning
