SPECIFICATION Spec
CONSTANTS
  Scalars = {"1"}
  Strings = {"a", "b"}
  NulStrings = {"nul"}
  Broken = {"?"}
  StartingCapacity = 4
  MaxNesting = 2
  MaxTokens = 3
INVARIANTS AcceptsValuesOnly
\* A parse ends.
CHECK_DEADLOCK FALSE
