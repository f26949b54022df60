CONSTANTS
  Conn = {1, 2}
  Endpoint = {1, 2}
  NoConn = 0
  NoEndpoint = 0
  FirstIdle = 1
  Retry = 0
  Ping = 0
  MaxFaults = 3
SPECIFICATION FairSpec
INVARIANTS RunningHasUpstream
PROPERTIES Reconnects ShutdownCompletes
CHECK_DEADLOCK FALSE
