SPECIFICATION Spec
CONSTANTS
  Threads = {"safe", "p", "q"}
  Endpoints = {"own", "shared", "side"}
  Users <- DisturbedUsers
  Writable = {"side"}
  Killable = {"p"}
  ErrorCodes = {}
  MaxSize = 1
  MaxCalls = 2
INVARIANTS TypeOK WokenByOwnRequest NoDanglingRequest NoLostSignal
\* A client may stop calling, and a call on a shared endpoint may wait forever.
CHECK_DEADLOCK FALSE
