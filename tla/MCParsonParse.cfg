SPECIFICATION Spec
CONSTANTS
  Scalars = {"1"}
  Strings = {"a", "b"}
  NulStrings = {"nul"}
  Broken = {"?"}
  StartingCapacity = 4
  MaxNesting = 2
  MaxTokens = 10
INVARIANTS NothingLeft ParsesGrammar
\* A parse ends.
CHECK_DEADLOCK FALSE
