SPECIFICATION Spec
CONSTANTS
  FileSizes = {0, 1, 2, 3, 4, 5}
  BufferSize = 2
  ReadErrors <- Failure
  Ids = {1, 2, 3, 4, 5}
  MaxEndpoints = 2
INVARIANTS TypeOK InBounds WholeText FreesLive NothingLeft
\* A load ends.
CHECK_DEADLOCK FALSE
