CONSTANTS
  NPages = 12
  MaxOrder = 1
  TopOrder = 4
  Size <- MCSize
  Layouts <- MCLayouts
  BootUnits = 5
  PageUnits <- MCUnits3
  Requests = {1,3}
  MaxLent = 1
SPECIFICATION FairSpec
INVARIANTS TypeOK Disjoint Coverage EntriesMatch NodesKept
PROPERTIES OpReturns FramesSpec
