CONSTANTS
  Producers = {"p1", "p2"}
  Consumers = {"c1", "c2"}
  Monitors = {"main"}
  Main = "main"
  ProducerList <- MCProducerList
  ConsumerList <- MCConsumerList
  Plans <- MCPlans
  Capacity = 2
  WordSize = 8
  Start = 0
  MaxSent = 7
  MaxBulk = 2
  NoItem = NoItem
SPECIFICATION TesterSpec
INVARIANTS IInv SlotExclusive GreatSuccess FreedOnceAndLast
PROPERTIES SizeHonest ImplementsFifo ObeysQueue TesterEnds
CHECK_DEADLOCK FALSE
