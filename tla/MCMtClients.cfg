CONSTANTS
  Threads <- MCThreads
  Nobody = "nobody"
  Blanks <- MCBlanks
  CallsOn <- MCCallsOn
  Core <- CoreOf
  NoCall = NoCall
  NoReply <- NothingYet
  Keys = {1, 2}
  Main = "main"
  Producers <- MCProducers
  Consumers <- MCConsumers
  Workers <- MCWorkers
  Callers = {"t1", "t2"}
  Small <- MCSmall
  Tried <- MCTried
  TriedInFn <- MCTriedInFn
  Programs = {"calls", "stack", "heap", "graph"}
  Items = 1
  PerThread = 2
SPECIFICATION LiveSpec
INVARIANTS CoreExclusive MutexDefined VerdictHonest
PROPERTIES ImplementsShared ObeysWrapper LockGivenBack PhaseEnds
CHECK_DEADLOCK FALSE
