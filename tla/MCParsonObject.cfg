SPECIFICATION Spec
CONSTANTS
  Names = {"a", "b", "c", "d"}
  Values = {v1, v2, v3, v4, v5}
  None = None
  Hash <- HashValue
  StartingCapacity = 2
SYMMETRY Symmetric
INVARIANTS TypeOK InsertsFit OwnsItsBlocks
PROPERTIES MapSpec
\* A freed object takes no more calls.
CHECK_DEADLOCK FALSE
