CONSTANTS
  VertexCapacity = 3
  MaxCapacity = 3
  MaxEdges = 3
SPECIFICATION Spec
INVARIANTS ScratchFits ShortestHops FindsReachable DfsIsPreorder
PROPERTIES WalkReturns
