CONSTANTS
  SizeMax = 16
  MinCapacity = 2
  MallocAlign = 2
  CacheLine = 4
  PtrSize = 2
  KeyWidths <- MCKeyWidths
  Configs <- OrderConfigs
  Allocators <- Default
  Keys = {1, 2, NaN}
  NaN = NaN
  Batches <- NaNBatches
  Addresses = {p1}
  Null = Null
  Garbage = Garbage
SPECIFICATION Spec
INVARIANTS OthersInOrder
