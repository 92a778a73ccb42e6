SPECIFICATION Spec
CONSTANTS
  Threads = {p, q, r}
  Endpoints = {"shared"}
  Users <- SharedUsers
  Writable = {}
  Killable = {}
  ErrorCodes <- Failure
  MaxSize = 0
  MaxCalls = 2
SYMMETRY AlikeThreads
INVARIANTS QuiescentIsClean EarlyWakesAreMatched
\* A client may stop calling, and a call on a shared endpoint may wait forever.
CHECK_DEADLOCK FALSE
