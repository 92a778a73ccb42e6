SPECIFICATION SystemSpec
CONSTANTS
  Clients = {"p", "q", "r"}
  Names <- SystemNames
  Configs <- SystemConfigs
  MaxNameSize = 2
  Asks <- ClientAsks
  ErrorCodes <- Failure
  MaxSize = 0
  MaxCalls = 1
INVARIANTS RequestsReachTheirEndpoint WokenByOwnTransfer
PROPERTIES StopReturnsCalls
\* A stopped module does nothing more.
CHECK_DEADLOCK FALSE
