SPECIFICATION Spec
CONSTANTS
  app = app  framework = framework  tool = tool  helper = helper  sibling = sibling
  Bundles <- TreeBundles
  Helpers <- TreeHelpers
  Top = app
  Nested <- TreeNested
  Requests <- AllRequests
  Entries <- EntryOrder
  Irregular = {"link"}
  SidecarChoices = {{}, {"CodeDirectory"}, {"link", "CodeSignature"}}
  MaxInterference = 1
INVARIANTS PublishedHolds FailureIsContained ResultIsTrue
PROPERTIES NoLostUpdate CommitOrder
CHECK_DEADLOCK FALSE
