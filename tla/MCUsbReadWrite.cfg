SPECIFICATION FairSpec
CONSTANTS
  PacketSize = 2
  BufferSize = 4
  MaxLength = 5
  MaxRuns = 3
INVARIANTS OwnEcho NothingStale
PROPERTIES EchoArrives
\* Without a plugin, or without a host, nothing more need happen.
CHECK_DEADLOCK FALSE
