CONSTANTS
  MaxCapacity = 3
  MinCapacity = 2
  SizeMax = 1000
  GenMax = 1
  NoIndex = 7
  WordBits = 2
  Garbage = Garbage
  wa = wa
  wb = wb
  Weights = {wa, wb}
  Configs <- AllTopologyConfigs
  Allocators <- OneAllocator
  SpecLists <- TopologySpecs
  Counts = {0, 2}
  Reserves = {}
  IterKinds = {"out", "in", "both", "vertices"}
  IterSlots = 4
  Watched = {}
SPECIFICATION Spec
INVARIANTS StructureSound IterExact
PROPERTIES ImplementsMultigraph
VIEW StateView
