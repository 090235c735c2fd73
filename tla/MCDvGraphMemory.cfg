CONSTANTS
  MaxCapacity = 4
  MinCapacity = 2
  SizeMax = 100
  GenMax = 1
  NoIndex = 7
  WordBits = 2
  Garbage = Garbage
  wa = wa
  wb = wb
  Weights = {wa}
  Configs <- MemoryConfigs
  Allocators <- BothAllocators
  SpecLists <- MemorySpecs
  Counts = {3}
  Reserves = {3, 5}
  IterKinds = {}
  IterSlots = 4
  Watched = {}
SPECIFICATION Spec
INVARIANTS MemoryAccounted CeilingKept
PROPERTIES AllocatorQuiet ScratchCovers
VIEW StateView
