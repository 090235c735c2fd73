CONSTANTS
  MaxCapacity = 3
  MinCapacity = 2
  SizeMax = 1000
  GenMax = 3
  NoIndex = 7
  WordBits = 2
  Garbage = Garbage
  wa = wa
  wb = wb
  Weights = {wa}
  Configs <- HandleConfigs
  Allocators <- OneAllocator
  SpecLists <- HandleSpecs
  Counts = {0, 2}
  Reserves = {}
  IterKinds = {}
  IterSlots = 4
  Watched = {"vertices", "edges"}
SPECIFICATION Spec
INVARIANTS HandleExact
PROPERTIES VersionOnce
VIEW StateView
