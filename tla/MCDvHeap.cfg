CONSTANTS
  SizeMax = 16
  MinCapacity = 2
  MallocAlign = 2
  CacheLine = 4
  PtrSize = 2
  KeyWidths <- MCKeyWidths
  Configs <- HeapConfigs
  Allocators <- MCAllocators
  Keys = {1, 2, 3}
  NaN = NaN
  Batches <- HeapBatches
  Addresses = {p1, p2}
  Null = Null
  Garbage = Garbage
SPECIFICATION Spec
INVARIANTS HeapOrder IndexMapExact MemoryAccounted
PROPERTIES ImplementsBag
SYMMETRY Symmetric
VIEW HeapView
