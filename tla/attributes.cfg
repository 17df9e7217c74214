SPECIFICATION MCSpec
CONSTANTS
  Jobs <- JobsMC2
  Hosts <- HostsMC2
  Paths <- PathsMC
  ObjectOf <- ObjectOfMC
  Held = "object"
  MaxChanges = 1
  Files <- FilesMC
  Original = "app"
  Slots <- SlotsMC
  Attrs <- AttrsMC
  Lower <- LowerMC
  Prefixed <- PrefixedMC
  Entries <- EntriesMC
  Removals <- RemovalsMC
  MaxInterference = 1
CHECK_DEADLOCK FALSE
INVARIANTS PolicyHolds SealIsRemoved
PROPERTIES StripOnlyProhibited OnlySealRemoved
