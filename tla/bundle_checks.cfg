SPECIFICATION MCSpec
CONSTANTS
  Top = "app"
  Codes <- MCCodes
  Bundles <- MCBundles
  Children <- MCChildren
  Architectures <- MCArchitectures
  Required = {"res"}
  Optional = {"lproj"}
  Omitted = {"locversion"}
  Order <- MCOrder
  InsideOut <- MCInsideOut
  InitialFiles = {{"res", "lproj"}}
  MaxSteps = 3
  ScanBundles <- MCScanBundles
  ScanTop = "app"
  Entries <- MCEntries
  In <- MCIn
  Kind <- MCKind
  NestedBundle <- MCNested
  Depth <- MCDepth
  MaxBytes = 9
CHECK_DEADLOCK FALSE
INVARIANTS ScanHolds JudgementHolds ReportHolds
