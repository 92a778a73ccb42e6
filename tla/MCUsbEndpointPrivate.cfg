SPECIFICATION FairSpec
CONSTANTS
  Threads = {"p", "q"}
  Endpoints = {"inA", "outA", "inB", "outB"}
  Users <- PrivateUsers
  Writable <- PrivateWritable
  Killable = {}
  ErrorCodes <- Failure
  MaxSize = 1
  MaxCalls = 2
PROPERTIES CallsReturn ServiceSpec
\* A client may stop calling.
CHECK_DEADLOCK FALSE
