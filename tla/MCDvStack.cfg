CONSTANTS
  SizeMax = 8
  MinCapacity = 2
  MallocAlign = 2
  CacheLine = 4
  PtrSize = 2
  a = a
  b = b
  Values = {a, b}
  Configs <- MCConfigs
  Allocators <- MCAllocators
  Batches <- MCBatches
  Addresses = {p1, p2}
  Null = Null
  Garbage = Garbage
SPECIFICATION Spec
INVARIANTS MemoryAccounted CeilingKept
PROPERTIES FailureAtomic BulkShortHonest ImplementsLifo
SYMMETRY Symmetric
VIEW StackView
