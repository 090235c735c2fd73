CONSTANTS
  Producers = {a, b}
  Consumers = {b, c}
  Monitors = {a}
  Capacity = 2
  WordSize = 16
  MaxItems = 2
  MaxClaims = 3
SPECIFICATION Spec
INVARIANTS RaceFree
PROPERTIES GivesUpKnowingly
VIEW RelaxedView
