CONSTANTS
  MaxCapacity = 3
  MinCapacity = 2
  SizeMax = 1000
  GenMax = 3
  NoIndex = 7
  WordBits = 2
  Garbage = Garbage
  wa = wa
  wb = wb
  Weights = {wa}
  Configs <- WalkConfigs
  Allocators <- OneAllocator
  SpecLists <- HandleSpecs
  Counts = {2}
  Reserves = {}
  IterKinds = {"out"}
  IterSlots = 4
  Watched = {}
SPECIFICATION Spec
PROPERTIES MutationEndsWalk
